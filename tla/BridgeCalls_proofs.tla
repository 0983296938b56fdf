--------------------------- MODULE BridgeCalls_proofs -------------------------
(***************************************************************************)
(* Theorems about the calls of the daemon's clients and the connections    *)
(* that carry them: what a call waits for and returns, that the bridge     *)
(* implements CommandCalls, that a snapshot precedes its reply, and that   *)
(* what the mirror sees of the missions is in the order it was raised.     *)
(***************************************************************************)
EXTENDS BridgeSystem_proofs

-----------------------------------------------------------------------------
(* Calls and pending commands.                                              *)

Listed(s, c) == \E i \in DOMAIN s : s[i] = c
Distinct(s) == \A i, j \in DOMAIN s : s[i] = s[j] => i = j

\* Without removes one entry; of distinct entries nothing of it is left.
LEMMA WithoutDistinct ==
  ASSUME NEW S, NEW s \in Seq(S), Distinct(s), NEW i \in 1..Len(s)
  PROVE  /\ Distinct(Without(s, i))
         /\ \A d : Listed(Without(s, i), d) <=> Listed(s, d) /\ d # s[i]
<1>. DEFINE w == Without(s, i)
            at(j) == IF j < i THEN j ELSE j + 1
<1>1. /\ w \in Seq(S) /\ Len(w) = Len(s) - 1
      /\ \A j \in 1..(Len(s) - 1) : w[j] = IF j < i THEN s[j] ELSE s[j + 1]
  BY WithoutProperties
<1>. HIDE DEF w
<1>2. DOMAIN w = 1..(Len(s) - 1) /\ DOMAIN s = 1..Len(s)
  BY <1>1
<1>3. \A j \in 1..(Len(s) - 1) : at(j) \in 1..Len(s) /\ at(j) # i /\ w[j] = s[at(j)]
  BY <1>1
<1>4. \A j, k \in 1..(Len(s) - 1) : at(j) = at(k) => j = k
  OBVIOUS
<1>5. \A j \in 1..Len(s) : j # i => \E k \in 1..(Len(s) - 1) : at(k) = j
  <2>. TAKE j \in 1..Len(s)
  <2>. HAVE j # i
  <2>1. CASE j < i
    <3>1. j \in 1..(Len(s) - 1) /\ at(j) = j
      BY <2>1
    <3>. QED  BY <3>1
  <2>2. CASE j > i
    <3>1. j - 1 \in 1..(Len(s) - 1) /\ at(j - 1) = j
      BY <2>2
    <3>. QED  BY <3>1
  <2>. QED  BY <2>1, <2>2
<1>. HIDE DEF at
<1>6. Distinct(w)
  <2>1. ASSUME NEW j \in 1..(Len(s) - 1), NEW k \in 1..(Len(s) - 1), w[j] = w[k]
        PROVE  j = k
    <3>1. /\ at(j) \in DOMAIN s /\ w[j] = s[at(j)]
          /\ at(k) \in DOMAIN s /\ w[k] = s[at(k)]
      BY <1>2, <1>3
    <3>2. at(j) = at(k)
      BY <2>1, <3>1 DEF Distinct
    <3>. QED  BY <1>4, <3>2
  <2>. QED  BY <1>2, <2>1 DEF Distinct
<1>7. ASSUME NEW d
      PROVE  Listed(w, d) <=> Listed(s, d) /\ d # s[i]
  <2>1. ASSUME NEW j \in DOMAIN w, w[j] = d
        PROVE  Listed(s, d) /\ d # s[i]
    BY <1>2, <1>3, <2>1, Zenon DEF Listed, Distinct
  <2>2. ASSUME NEW j \in DOMAIN s, s[j] = d, d # s[i]
        PROVE  Listed(w, d)
    <3>1. j # i
      BY <2>2
    <3>2. PICK k \in 1..(Len(s) - 1) : at(k) = j
      BY <1>2, <1>5, <3>1, Zenon
    <3>. QED  BY <1>2, <1>3, <2>2, <3>2, Zenon DEF Listed
  <2>. QED  BY <2>1, <2>2, Zenon DEF Listed
<1>. QED  BY <1>6, <1>7 DEF w

LEMMA PoppedProperties ==
  ASSUME TypeOK, WaitingIsPending, NEW c
  PROVE  /\ Distinct(Popped(c))
         /\ \A d : Listed(Popped(c), d) <=> Waiting(d) /\ d # c
<1>1. pending \in Seq(Commands) /\ Distinct(pending)
  BY DEF TypeOK, ServerTypeOK, WaitingIsPending, Distinct
<1>2. \A d : Waiting(d) <=> Listed(pending, d)
  BY Zenon DEF Waiting, Listed
<1>3. CASE Waiting(c)
  <2>. DEFINE i == CHOOSE i \in DOMAIN pending : pending[i] = c
  <2>1. i \in DOMAIN pending /\ pending[i] = c
    BY <1>3, Zenon DEF Waiting
  <2>2. Popped(c) = Without(pending, i)
    BY <1>3 DEF Popped
  <2>. HIDE DEF i
  <2>3. i \in 1..Len(pending)
    BY <1>1, <2>1
  <2>4. /\ Distinct(Without(pending, i))
        /\ \A d : Listed(Without(pending, i), d) <=> Listed(pending, d) /\ d # pending[i]
    BY <1>1, <2>3, WithoutDistinct
  <2>. QED  BY <1>2, <2>1, <2>2, <2>4, Zenon
<1>4. CASE ~Waiting(c)
  BY <1>1, <1>2, <1>4, Zenon DEF Popped
<1>. QED  BY <1>3, <1>4

LEMMA PendingForm ==
  WaitingIsPending <=>
    /\ \A c \in Commands : call[c] = "waiting" <=> Listed(pending, c)
    /\ Distinct(pending)
  BY Zenon DEF WaitingIsPending, Waiting, Listed, Distinct

LEMMA PendingFormNext ==
  WaitingIsPending' <=>
    /\ \A c \in Commands : call'[c] = "waiting" <=> Listed(pending', c)
    /\ Distinct(pending')
  BY Zenon DEF WaitingIsPending, Waiting, Listed, Distinct

\* A call waits exactly while its command is registered, whatever resends,
\* mission boundaries, late acknowledgements and timeouts do.
THEOREM CallsAreRegistered == Spec => []WaitingIsPending
<1>. DEFINE Inv == TypeOK /\ WaitingIsPending
<1>1. Init => Inv
  <2>1. Init => WaitingIsPending
    BY DEF Init, ServerInit, WaitingIsPending, Waiting
  <2>. QED  BY <2>1, TypeInit
<1>2. Inv /\ [Next]_vars => Inv'
  <2>. SUFFICES ASSUME Inv, [Next]_vars
                PROVE  WaitingIsPending'
    BY TypeStep
  <2>1. CASE UNCHANGED <<call, pending>>
    BY <2>1 DEF WaitingIsPending, Waiting
  <2>2. ASSUME NEW c \in Commands, NEW s \in {"acked", "timed_out"},
               call' = [call EXCEPT ![c] = s], pending' = Popped(c)
        PROVE  WaitingIsPending'
    <3>1. \A d \in Commands : call'[d] = "waiting" <=> call[d] = "waiting" /\ d # c
      BY <2>2 DEF TypeOK, ServerTypeOK
    <3>2. \A d \in Commands : call[d] = "waiting" <=> Waiting(d)
      BY DEF WaitingIsPending
    <3>3. /\ Distinct(pending')
          /\ \A d : Listed(pending', d) <=> Waiting(d) /\ d # c
      BY <2>2, PoppedProperties
    <3>. QED  BY <3>1, <3>2, <3>3, PendingFormNext, Zenon
  <2>3. ASSUME NEW c \in Commands, SendCommand(c)
        PROVE  WaitingIsPending'
    <3>1. call[c] = "idle" /\ pending' = Append(pending, c)
          /\ call' = [call EXCEPT ![c] = "waiting"]
      BY <2>3 DEF SendCommand
    <3>2. ~Listed(pending, c)
      BY <3>1, PendingForm
    <3>3. pending \in Seq(Commands) /\ Distinct(pending)
      BY PendingForm DEF TypeOK, ServerTypeOK
    <3>4. /\ DOMAIN pending' = 1..(Len(pending) + 1) /\ DOMAIN pending = 1..Len(pending)
          /\ pending'[Len(pending) + 1] = c
          /\ \A i \in 1..Len(pending) : pending'[i] = pending[i]
          /\ Len(pending) + 1 \notin 1..Len(pending)
          /\ 1..(Len(pending) + 1) = 1..Len(pending) \cup {Len(pending) + 1}
      BY <3>1, <3>3
    <3>5. Distinct(pending')
      <4>. DEFINE n == Len(pending)
      <4>1. \A i \in 1..n : pending[i] # c
        BY <3>2, <3>4 DEF Listed
      <4>. HIDE DEF n
      <4>2. ASSUME NEW i \in DOMAIN pending', NEW j \in DOMAIN pending',
                   pending'[i] = pending'[j]
            PROVE  i = j
        <5>1. (i \in 1..n \/ i = n + 1) /\ (j \in 1..n \/ j = n + 1)
          BY <3>4, Zenon DEF n
        <5>2. CASE i \in 1..n /\ j \in 1..n
          <6>1. pending[i] = pending[j] /\ i \in DOMAIN pending /\ j \in DOMAIN pending
            BY <3>4, <4>2, <5>2 DEF n
          <6>. QED  BY <3>3, <6>1 DEF Distinct
        <5>3. CASE i = n + 1 \/ j = n + 1
          BY <3>4, <4>1, <4>2, <5>1, <5>3 DEF n
        <5>. QED  BY <5>1, <5>2, <5>3
      <4>. QED  BY <4>2 DEF Distinct
    <3>6. \A d : Listed(pending', d) <=> Listed(pending, d) \/ d = c
      BY <3>4, Zenon DEF Listed
    <3>7. \A d \in Commands : call'[d] = "waiting" <=> call[d] = "waiting" \/ d = c
      BY <3>1 DEF TypeOK, ServerTypeOK
    <3>. QED  BY <3>5, <3>6, <3>7, PendingForm, PendingFormNext, Zenon
  <2>4. ASSUME NEW next, MissionBoundary(next)
        PROVE  WaitingIsPending'
    <3>1. pending' = <<>> /\ call' = CallsFailed
      BY <2>4 DEF MissionBoundary
    <3>2. \A d \in Commands : call'[d] # "waiting"
      BY <3>1 DEF CallsFailed, WaitingIsPending
    <3>3. Distinct(pending') /\ \A d : ~Listed(pending', d)
      BY <3>1 DEF Distinct, Listed
    <3>. QED  BY <3>2, <3>3, PendingFormNext, Zenon
  <2>5. ASSUME NEW k \in Conns, HandleLine(k)
        PROVE  WaitingIsPending'
    <3>. DEFINE m == Head(toPy[k])
    <3>1. \/ UNCHANGED callVars
          \/ m # Garbled /\ (MissionBoundary({}) \/ MissionBoundary({m}) \/ WithinMission(m))
      BY <2>5 DEF HandleLine
    <3>2. m \in Lines
      BY <2>5 DEF TypeOK, WireTypeOK, HandleLine
    <3>. HIDE DEF m
    <3>3. m # Garbled /\ m.type = "ack" => m.command \in Commands
      BY <3>2 DEF Lines, Messages, Acks, Snapshots, EventMessages, Heartbeats
    <3>4. CASE m # Garbled /\ WithinMission(m)
      <4>1. \/ UNCHANGED callVars
            \/ /\ m.type = "ack" /\ pending' = Popped(m.command)
               /\ call' = [call EXCEPT ![m.command] = "acked"]
        BY <3>4 DEF WithinMission
      <4>. QED  BY <2>1, <2>2, <3>3, <3>4, <4>1 DEF callVars
    <3>. QED  BY <2>1, <2>4, <3>1, <3>4 DEF callVars
  <2>6. ASSUME NEW c \in Commands, TimeOut(c)
        PROVE  WaitingIsPending'
    BY <2>2, <2>6 DEF TimeOut
  <2>. QED
    BY <2>1, <2>3, <2>5, <2>6
       DEF Next, ServerNext, AcceptConnection, ResendCommand, CloseConnection,
           Network, serverVars, callVars, vars
<1>. QED  BY <1>1, <1>2, PTL DEF Spec

-----------------------------------------------------------------------------
(* The writer.                                                              *)

\* Connections are opened and accepted in order, and opened before accepted.
OpenedInOrder ==
  \A j, k \in Conns : j < k /\ link[k] # "unused" => link[j] # "unused"
AcceptedInOrder ==
  \A j, k \in Conns : j < k /\ handler[k] # "none" => handler[j] # "none"
AcceptedIsOpened == \A k \in Conns : handler[k] # "none" => link[k] # "unused"

\* The writer belongs to the task of the newest connection, which runs.
WriterIsNewest ==
  writer # NoConn =>
    handler[writer] = "running" /\ \A j \in Conns : j > writer => handler[j] = "none"

\* Without a writer a running task is one that a connection which has ended
\* since superseded.
SupersededOnly ==
  writer = NoConn =>
    \A k \in Conns : handler[k] = "running" =>
      \E n \in Conns : n > k /\ handler[n] = "finished"

\* Only the socket of the Lua side is up, and the later connections are unused.
SocketIsNewest ==
  /\ socket # NoConn => link[socket] # "unused"
  /\ \A k \in Conns : link[k] = "up" =>
       k = socket /\ \A j \in Conns : j > k => link[j] = "unused"

\* Behind a task that has ended nothing arrives any more.
EndedIsSilent ==
  \A k \in Conns : handler[k] = "finished" =>
    \A j \in Conns : j <= k => toPy[j] = <<>> /\ link[j] = "down"

WriterInv ==
  /\ TypeOK /\ AcceptedInOrder /\ WriterIsNewest /\ SupersededOnly
  /\ OpenedInOrder /\ AcceptedIsOpened
  /\ SocketIsNewest /\ EndedIsSilent /\ NewestOwnsWriter /\ ConnectedHasWriter

LEMMA ConnsArithmetic ==
  /\ \A j \in Conns : j \in Nat /\ j > 0 /\ j # NoConn
  /\ NoConn = 0
  BY WireAssumption DEF Conns, NoConn

LEMMA WriterLua ==
  ASSUME WriterInv, LuaNext, UNCHANGED serverVars
  PROVE  WriterInv'
<1>1. /\ AcceptedInOrder' /\ WriterIsNewest' /\ SupersededOnly'
      /\ NewestOwnsWriter' /\ ConnectedHasWriter'
  BY DEF WriterInv, serverVars, AcceptedInOrder, WriterIsNewest, SupersededOnly,
         NewestOwnsWriter, ConnectedHasWriter
<1>2. TypeOK'
  BY LuaTypeStep DEF WriterInv
<1>. DEFINE Opened == OpenedInOrder' /\ AcceptedIsOpened'
<1>8. ASSUME \A j \in Conns : link'[j] = "unused" <=> link[j] = "unused"
      PROVE  Opened
  BY <1>8 DEF WriterInv, OpenedInOrder, AcceptedIsOpened, serverVars
<1>. HIDE DEF Opened
<1>3. CASE UNCHANGED <<link, toPy, socket>>
  BY <1>1, <1>2, <1>3, <1>8
     DEF WriterInv, SocketIsNewest, EndedIsSilent, serverVars, Opened
<1>4. CASE Connect
  <2>1. PICK k \in Conns :
          /\ link[k] = "unused" /\ \A j \in 1..(k - 1) : link[j] # "unused"
          /\ socket' = k
          /\ link' = [link EXCEPT ![k] = "up"]
    BY <1>4 DEF Connect
  <2>2. socket = NoConn /\ toPy' = toPy /\ handler' = handler
    BY <1>4 DEF Connect, serverVars
  <2>3. \A j \in Conns : link[j] # "up"
    BY <2>2, ConnsArithmetic DEF WriterInv, SocketIsNewest
  <2>4. \A j \in Conns : link'[j] = IF j = k THEN "up" ELSE link[j]
    BY <2>1 DEF WriterInv, TypeOK, WireTypeOK
  <2>5. \A j \in Conns : j > k => link[j] = "unused"
    BY <2>1, ConnsArithmetic DEF WriterInv, OpenedInOrder
  <2>6. SocketIsNewest'
    BY <2>1, <2>3, <2>4, <2>5, ConnsArithmetic DEF SocketIsNewest
  <2>7. EndedIsSilent'
    BY <2>1, <2>2, <2>4 DEF WriterInv, EndedIsSilent
  <2>8. OpenedInOrder'
    <3>1. \A j \in Conns : j < k => link[j] # "unused"
      BY <2>1 DEF Conns
    <3>. QED  BY <2>4, <3>1 DEF WriterInv, OpenedInOrder
  <2>9. AcceptedIsOpened'
    BY <2>2, <2>4 DEF WriterInv, AcceptedIsOpened
  <2>. QED  BY <1>1, <1>2, <2>6, <2>7, <2>8, <2>9 DEF WriterInv
<1>5. CASE Disconnect
  <2>1. link' = link /\ toPy' = toPy /\ handler' = handler
        /\ socket # NoConn /\ link[socket] = "down" /\ socket' = NoConn
    BY <1>5 DEF Disconnect, serverVars
  <2>2. \A j \in Conns : link[j] # "up"
    BY <2>1 DEF WriterInv, SocketIsNewest
  <2>. QED  BY <1>1, <1>2, <1>8, <2>1, <2>2
            DEF WriterInv, SocketIsNewest, EndedIsSilent, Opened
<1>6. CASE FlushMessage
  <2>1. /\ UNCHANGED <<link, socket, handler>>
        /\ socket \in Conns
        /\ toPy' = SendToPy(socket, <<LineOf(Head(outQueue))>>)
    BY <1>6 DEF FlushMessage, serverVars, WriterInv, TypeOK, LuaTypeOK
  <2>2. \A j \in Conns : toPy'[j] = toPy[j] \/ link[j] = "up"
    BY <2>1 DEF SendToPy, WriterInv, TypeOK, WireTypeOK
  <2>3. EndedIsSilent'
    BY <2>1, <2>2 DEF WriterInv, EndedIsSilent
  <2>. QED  BY <1>1, <1>2, <1>8, <2>1, <2>3 DEF WriterInv, SocketIsNewest, Opened
<1>7. CASE RestartMission
  <2>1. handler' = handler /\ socket' = NoConn
    BY <1>7, Zenon DEF RestartMission, serverVars
  <2>2. CASE socket = NoConn
    <3>1. link' = link /\ toPy' = toPy
      BY <1>7, <2>2 DEF RestartMission, wireVars
    <3>2. \A j \in Conns : link[j] # "up"
      BY <2>2, ConnsArithmetic DEF WriterInv, SocketIsNewest
    <3>. QED  BY <1>1, <1>2, <1>8, <2>1, <3>1, <3>2
              DEF WriterInv, SocketIsNewest, EndedIsSilent, Opened
  <2>3. CASE socket # NoConn
    <3>1. socket \in Conns
      BY <2>3 DEF WriterInv, TypeOK, LuaTypeOK
    <3>2. link' = [link EXCEPT ![socket] = "down"]
      BY <1>7, <2>3 DEF RestartMission
    <3>3. \A j \in Conns : link'[j] = IF j = socket THEN "down" ELSE link[j]
      BY <3>2 DEF WriterInv, TypeOK, WireTypeOK
    <3>4. \A j \in Conns : link'[j] # "up"
      BY <3>3 DEF WriterInv, SocketIsNewest
    <3>5. \A j \in Conns : toPy'[j] = toPy[j] \/ link[j] = "up"
      <4>1. link[socket] # "up" => toPy' = [toPy EXCEPT ![socket] = toPy[socket]]
        BY <1>7, <2>3 DEF RestartMission
      <4>2. \E t : toPy' = [toPy EXCEPT ![socket] = t]
        BY <1>7, <2>3 DEF RestartMission
      <4>. QED  BY <3>1, <4>1, <4>2 DEF WriterInv, TypeOK, WireTypeOK
    <3>6. EndedIsSilent'
      BY <2>1, <3>3, <3>5 DEF WriterInv, EndedIsSilent
    <3>7. \A j \in Conns : link'[j] = "unused" <=> link[j] = "unused"
      BY <2>3, <3>1, <3>3 DEF WriterInv, SocketIsNewest
    <3>. QED  BY <1>1, <1>2, <1>8, <2>1, <3>4, <3>6, <3>7
              DEF WriterInv, SocketIsNewest, Opened
  <2>. QED  BY <2>2, <2>3
<1>. QED
  BY <1>3, <1>4, <1>5, <1>6, <1>7
     DEF LuaNext, ReplayResult, ExecuteCommand, FlushPart, SendHeartbeat,
         SendEvent, AdvanceClock, wireVars

LEMMA WriterServer ==
  ASSUME WriterInv, ServerNext, UNCHANGED luaVars
  PROVE  WriterInv'
<1>1. TypeOK'
  BY ServerTypeStep DEF WriterInv
<1>. USE ConnsArithmetic
<1>2. ASSUME NEW k \in Conns, AcceptConnection(k)
      PROVE  WriterInv'
  <2>1. /\ link[k] # "unused" /\ handler[k] = "none"
        /\ \A j \in Conns : j < k => handler[j] # "none"
        /\ writer' = k /\ connected' = TRUE /\ socket' = socket
    BY <1>2 DEF AcceptConnection, luaVars
  <2>2. \A j \in Conns : handler'[j] = IF j = k THEN "running" ELSE handler[j]
    BY <1>2 DEF AcceptConnection, WriterInv, TypeOK, ServerTypeOK
  <2>3. /\ \A j \in Conns : link'[j] = IF j = writer THEN "down" ELSE link[j]
        /\ \A j \in Conns : j # writer => toPy'[j] = toPy[j]
    <3>1. CASE writer = NoConn
      BY <1>2, <3>1 DEF AcceptConnection, wireVars
    <3>2. CASE writer # NoConn
      BY <1>2, <3>2 DEF AcceptConnection, WriterInv, TypeOK, WireTypeOK
    <3>. QED  BY <3>1, <3>2
  <2>4. writer # NoConn => writer \in Conns /\ handler[writer] = "running" /\ link[writer] # "unused"
    BY DEF WriterInv, WriterIsNewest, TypeOK, ServerTypeOK, AcceptedIsOpened
  <2>5. \A j \in Conns : j > k => handler[j] = "none"
    BY <2>1 DEF WriterInv, AcceptedInOrder
  <2>6. AcceptedInOrder' /\ WriterIsNewest' /\ SupersededOnly' /\ NewestOwnsWriter'
        /\ ConnectedHasWriter'
    BY <2>1, <2>2, <2>5
       DEF WriterInv, AcceptedInOrder, WriterIsNewest, SupersededOnly,
           NewestOwnsWriter, ConnectedHasWriter
  <2>7. OpenedInOrder' /\ AcceptedIsOpened'
    BY <2>1, <2>2, <2>3, <2>4 DEF WriterInv, OpenedInOrder, AcceptedIsOpened
  <2>8. SocketIsNewest'
    <3>1. socket # NoConn => socket \in Conns
      BY DEF WriterInv, TypeOK, LuaTypeOK
    <3>. QED  BY <2>1, <2>3, <2>4, <3>1 DEF WriterInv, SocketIsNewest
  <2>9. EndedIsSilent'
    <3>1. \A n \in Conns : handler[n] = "finished" /\ writer # NoConn => n < writer
      <4>1. \A n \in Conns : n > writer \/ n < writer \/ n = writer
        BY DEF WriterInv, TypeOK, ServerTypeOK, Conns, NoConn
      <4>. QED  BY <2>4, <4>1 DEF WriterInv, WriterIsNewest
    <3>2. \A n, j \in Conns : handler[n] = "finished" /\ j <= n => j # writer
      BY <2>4, <3>1
    <3>. QED  BY <2>2, <2>3, <3>2 DEF WriterInv, EndedIsSilent
  <2>. QED  BY <1>1, <2>6, <2>7, <2>8, <2>9 DEF WriterInv
<1>3. ASSUME UNCHANGED <<link, toPy, handler, writer>>, connected' => writer # NoConn
      PROVE  WriterInv'
  BY <1>1, <1>3
     DEF WriterInv, AcceptedInOrder, WriterIsNewest, SupersededOnly,
         OpenedInOrder, AcceptedIsOpened, SocketIsNewest, EndedIsSilent,
         NewestOwnsWriter, ConnectedHasWriter, luaVars
<1>4. ASSUME NEW k \in Conns, CloseConnection(k)
      PROVE  WriterInv'
  <2>1. /\ handler[k] = "running" /\ link[k] = "down" /\ toPy[k] = <<>>
        /\ \A j \in Conns : j < k => toPy[j] = <<>>
        /\ writer' = IF writer = k THEN NoConn ELSE writer
        /\ connected' = IF writer = k THEN FALSE ELSE connected
        /\ link' = link /\ toPy' = toPy /\ socket' = socket
    BY <1>4 DEF CloseConnection, EarlierDrained, wireVars, luaVars
  <2>2. \A j \in Conns : handler'[j] = IF j = k THEN "finished" ELSE handler[j]
    BY <1>4 DEF CloseConnection, WriterInv, TypeOK, ServerTypeOK
  <2>3. AcceptedInOrder' /\ OpenedInOrder' /\ AcceptedIsOpened' /\ SocketIsNewest'
    BY <2>1, <2>2
       DEF WriterInv, AcceptedInOrder, OpenedInOrder, AcceptedIsOpened, SocketIsNewest
  <2>4. WriterIsNewest' /\ NewestOwnsWriter'
    <3>1. writer # NoConn => writer \in Conns
      BY DEF WriterInv, TypeOK, ServerTypeOK
    <3>2. WriterIsNewest'
      BY <2>1, <2>2, <3>1 DEF WriterInv, WriterIsNewest
    <3>3. ASSUME NEW n \in Conns, handler'[n] = "running",
                 \A j \in Conns : j > n => handler'[j] = "none"
          PROVE  writer' = n
      <4>1. n # k /\ handler[n] = "running" /\ \A j \in Conns : j > n => handler[j] = "none"
        BY <2>1, <2>2, <3>3
      <4>. QED  BY <2>1, <4>1 DEF WriterInv, NewestOwnsWriter
    <3>. QED  BY <3>2, <3>3 DEF NewestOwnsWriter
  <2>5. ConnectedHasWriter'
    BY <2>1 DEF WriterInv, ConnectedHasWriter
  <2>6. SupersededOnly'
    <3>1. CASE writer = k
      <4>1. \A j \in Conns : j > k => handler[j] = "none"
        BY <3>1 DEF WriterInv, WriterIsNewest
      <4>2. \A j \in Conns : handler'[j] = "running" => k > j
        BY <2>2, <4>1 DEF Conns
      <4>. QED  BY <2>2, <4>2 DEF SupersededOnly
    <3>2. CASE writer # k
      BY <2>1, <2>2, <3>2 DEF WriterInv, SupersededOnly
    <3>. QED  BY <3>1, <3>2
  <2>7. EndedIsSilent'
    <3>1. \A j \in Conns : j < k => link[j] = "down"
      <4>1. \A j \in Conns : j < k => link[j] # "unused"
        BY <2>1 DEF WriterInv, OpenedInOrder
      <4>2. \A j \in Conns : j < k => link[j] # "up"
        BY <2>1 DEF WriterInv, SocketIsNewest
      <4>. QED  BY <4>1, <4>2 DEF WriterInv, TypeOK, WireTypeOK
    <3>2. \A j \in Conns : j <= k => toPy[j] = <<>> /\ link[j] = "down"
      <4>1. \A j \in Conns : j <= k => j < k \/ j = k
        BY DEF Conns
      <4>. QED  BY <2>1, <3>1, <4>1
    <3>. QED  BY <2>1, <2>2, <3>2 DEF WriterInv, EndedIsSilent
  <2>. QED  BY <1>1, <2>3, <2>4, <2>5, <2>6, <2>7 DEF WriterInv
<1>5. ASSUME NEW k \in Conns, HandleLine(k)
      PROVE  WriterInv'
  <2>1. /\ handler[k] = "running" /\ toPy[k] # <<>>
        /\ toPy' = [toPy EXCEPT ![k] = Tail(@)]
        /\ UNCHANGED <<link, handler, writer, socket>>
    BY <1>5 DEF HandleLine, connVars, luaVars
  <2>2. \A j \in Conns : j # k => toPy'[j] = toPy[j]
    BY <2>1 DEF WriterInv, TypeOK, WireTypeOK
  <2>3. writer # NoConn
    BY <2>1 DEF WriterInv, SupersededOnly, EndedIsSilent
  <2>4. EndedIsSilent'
    BY <2>1, <2>2 DEF WriterInv, EndedIsSilent
  <2>. QED
    BY <1>1, <2>1, <2>3, <2>4
       DEF WriterInv, AcceptedInOrder, WriterIsNewest, SupersededOnly,
           OpenedInOrder, AcceptedIsOpened, SocketIsNewest, NewestOwnsWriter,
           ConnectedHasWriter
<1>6. ASSUME UNCHANGED <<link, toPy, handler, writer, connected>>
      PROVE  WriterInv'
  BY <1>3, <1>6 DEF WriterInv, ConnectedHasWriter
<1>7. ASSUME NEW k \in Conns, ResendCommand(k)
      PROVE  WriterInv'
  BY <1>6, <1>7 DEF ResendCommand
<1>8. ASSUME NEW c \in Commands, SendCommand(c) \/ TimeOut(c)
      PROVE  WriterInv'
  BY <1>6, <1>8 DEF SendCommand, TimeOut, wireVars, connVars
<1>. QED  BY <1>2, <1>4, <1>5, <1>7, <1>8 DEF ServerNext

LEMMA WriterStart == Init => WriterInv
<1>1. Init => /\ AcceptedInOrder /\ WriterIsNewest /\ SupersededOnly
              /\ NewestOwnsWriter /\ EndedIsSilent /\ AcceptedIsOpened
  BY DEF Init, ServerInit, AcceptedInOrder, WriterIsNewest, SupersededOnly,
         NewestOwnsWriter, EndedIsSilent, AcceptedIsOpened
<1>2. Init => OpenedInOrder /\ SocketIsNewest
  BY DEF Init, WireInit, LuaInit, OpenedInOrder, SocketIsNewest
<1>3. Init => ConnectedHasWriter
  BY Zenon DEF Init, ServerInit, ConnectedHasWriter
<1>. QED  BY <1>1, <1>2, <1>3, TypeInit DEF WriterInv

LEMMA WriterStep == WriterInv /\ [Next]_vars => WriterInv'
<1>1. ASSUME WriterInv, UNCHANGED vars
      PROVE  WriterInv'
  BY <1>1, TypeStep
     DEF vars, wireVars, luaVars, serverVars, WriterInv, AcceptedInOrder,
         WriterIsNewest, SupersededOnly, OpenedInOrder, AcceptedIsOpened,
         SocketIsNewest, EndedIsSilent, NewestOwnsWriter, ConnectedHasWriter
<1>2. ASSUME WriterInv, NEW k \in Conns, Break(k), UNCHANGED <<luaVars, serverVars>>
      PROVE  WriterInv'
  <2>1. /\ link[k] = "up" /\ UNCHANGED <<handler, writer, connected, socket>>
        /\ \A j \in Conns : link'[j] = IF j = k THEN "down" ELSE link[j]
        /\ \A j \in Conns : j # k => toPy'[j] = toPy[j]
    BY <1>2 DEF Break, WriterInv, TypeOK, WireTypeOK, luaVars, serverVars
  <2>2. TypeOK'
    BY <1>2, BreakTyped DEF WriterInv
  <2>3. OpenedInOrder' /\ AcceptedIsOpened'
    BY <1>2, <2>1 DEF WriterInv, OpenedInOrder, AcceptedIsOpened
  <2>4. SocketIsNewest' /\ EndedIsSilent'
    BY <1>2, <2>1 DEF WriterInv, SocketIsNewest, EndedIsSilent
  <2>. QED
    BY <1>2, <2>1, <2>2, <2>3, <2>4
       DEF WriterInv, AcceptedInOrder, WriterIsNewest, SupersededOnly,
           NewestOwnsWriter, ConnectedHasWriter
<1>. QED  BY <1>1, <1>2, WriterLua, WriterServer DEF Next, Network

\* The writer is that of the newest connection as long as its task runs, and
\* the mirror is connected only if there is a writer, however connections
\* succeed one another.
THEOREM WriterOwnership == Spec => [](NewestOwnsWriter /\ ConnectedHasWriter)
<1>1. WriterInv => NewestOwnsWriter /\ ConnectedHasWriter
  BY DEF WriterInv
<1>. QED  BY <1>1, WriterStart, WriterStep, PTL DEF Spec

-----------------------------------------------------------------------------
(* Acknowledgements.                                                        *)

\* An acknowledgement, wherever it is, reports an execution of its command.
OwnMessages ==
  {m \in Messages :
     m.type = "ack" => /\ m.run \in 1..Len(effects)
                       /\ effects[m.run].command = m.command}
OwnLines == OwnMessages \cup {Garbled}

ReplyInv ==
  /\ TypeOK
  /\ outQueue \in Seq(OwnMessages)
  /\ results \in Seq(OwnMessages)
  /\ toPy \in [Conns -> Seq(OwnLines)]
  /\ ReplyIsOwn

LEMMA SeqMonotone ==
  ASSUME NEW S, NEW T, S \subseteq T, NEW s \in Seq(S)
  PROVE  s \in Seq(T)
  OBVIOUS

LEMMA OwnFacts ==
  /\ EventMessages \subseteq OwnMessages /\ Heartbeats \subseteq OwnMessages
  /\ Snapshots \subseteq OwnMessages /\ OwnMessages \subseteq Messages
<1>1. \A m \in EventMessages \cup Heartbeats \cup Snapshots : m.type # "ack"
  BY DEF EventMessages, Heartbeats, Snapshots
<1>. QED  BY <1>1, MessagesTyped DEF OwnMessages

\* The rest follows from what the executions and the queues keep.
LEMMA OwnStep ==
  ASSUME ReplyInv, TypeOK',
         effects' = effects,
         outQueue' \in Seq(OwnMessages),
         results' \in Seq(OwnMessages),
         toPy' \in [Conns -> Seq(OwnLines)],
         ReplyIsOwn'
  PROVE  ReplyInv'
<1>1. OwnMessages' = OwnMessages
  BY DEF OwnMessages
<1>2. OwnLines' = OwnLines
  BY <1>1 DEF OwnLines
<1>. QED  BY <1>1, <1>2 DEF ReplyInv

LEMMA OwnExecute ==
  ASSUME ReplyInv, TypeOK', ExecuteCommand, UNCHANGED serverVars
  PROVE  ReplyInv'
<1>. DEFINE c == Head(toLua[socket])
            r == Len(effects) + 1
            ack == Reply("ack", c, mission, r, now)
            snapshot == Reply("snapshot", c, mission, r, now)
            done == [mission |-> mission, command |-> c]
            E == [mission : Nat, command : Commands]
<1>1. c \in Commands /\ mission \in Nat /\ now \in Nat /\ effects \in Seq(E) /\ r \in Nat
  BY DEF ExecuteCommand, ReplyInv, TypeOK, WireTypeOK, LuaTypeOK
<1>2. /\ effects' = Append(effects, done)
      /\ results' = LastN(Append(results, ack), CommandResultCacheLimit)
      /\ \/ outQueue' = Send(Send(outQueue, snapshot), ack)
         \/ outQueue' = Send(outQueue, ack)
      /\ toPy' = toPy /\ call' = call /\ reply' = reply
  BY DEF ExecuteCommand, serverVars
<1>3. /\ ack \in Acks /\ ack \in Messages /\ snapshot \in Snapshots
      /\ ack.run = r /\ ack.command = c
  <2>1. ack \in Acks /\ snapshot \in Snapshots
    <3>. HIDE DEF c, r
    <3>. QED  BY <1>1, MessagesTyped
  <2>. QED  BY <2>1, MessagesTyped DEF Reply
<1>4. /\ Len(effects') = Len(effects) + 1 /\ effects'[r] = done
      /\ \A i \in 1..Len(effects) : i \in 1..Len(effects') /\ effects'[i] = effects[i]
      /\ DOMAIN effects = 1..Len(effects) /\ DOMAIN effects' = 1..Len(effects')
      /\ r \in 1..Len(effects')
  <2>. done \in E
    BY <1>1
  <2>. HIDE DEF done, E
  <2>. QED  BY <1>1, <1>2
<1>5. done.command = c
  OBVIOUS
<1>. HIDE DEF c, r, ack, snapshot, done, E
<1>6. OwnMessages \subseteq OwnMessages'
  BY <1>4 DEF OwnMessages
<1>7. ack \in OwnMessages'
  BY <1>3, <1>4, <1>5 DEF OwnMessages
<1>8. snapshot \in OwnMessages'
  BY <1>3, <1>6, OwnFacts
<1>9. outQueue \in Seq(OwnMessages') /\ results \in Seq(OwnMessages')
  BY <1>6, SeqMonotone DEF ReplyInv
<1>. DEFINE O == OwnMessages'
<1>. HIDE DEF O
<1>10. outQueue \in Seq(O) /\ results \in Seq(O) /\ ack \in O /\ snapshot \in O
  BY <1>7, <1>8, <1>9 DEF O
<1>11. outQueue' \in Seq(O)
  <2>1. Len(outQueue) <= MaxOutQueueMessages
    BY DEF ReplyInv, TypeOK, LuaTypeOK
  <2>2. Send(outQueue, ack) \in Seq(O)
    BY <1>10, <2>1, SendTyped
  <2>3. /\ Send(outQueue, snapshot) \in Seq(O)
        /\ Len(Send(outQueue, snapshot)) <= MaxOutQueueMessages
    BY <1>10, <2>1, SendTyped
  <2>4. Send(Send(outQueue, snapshot), ack) \in Seq(O)
    BY <1>10, <2>3, SendTyped
  <2>. QED  BY <1>2, <2>2, <2>4
<1>12. results' \in Seq(O)
  <2>1. Append(results, ack) \in Seq(O) /\ CommandResultCacheLimit \in Nat
    BY <1>10, MooseBridgeAssumption
  <2>. QED  BY <1>2, <2>1, LastNProperties
<1>13. toPy' \in [Conns -> Seq(OwnLines')]
  <2>1. OwnLines \subseteq OwnLines'
    BY <1>6 DEF OwnLines
  <2>2. \A k \in Conns : toPy[k] \in Seq(OwnLines)
    BY DEF ReplyInv
  <2>3. \A k \in Conns : toPy[k] \in Seq(OwnLines')
    BY <2>1, <2>2, SeqMonotone
  <2>. QED  BY <1>2, <2>3 DEF ReplyInv
<1>14. ReplyIsOwn'
  <2>1. \A d \in Commands : call[d] = "acked" =>
          reply[d] \in 1..Len(effects) /\ effects[reply[d]].command = d
    BY <1>4 DEF ReplyInv, ReplyIsOwn
  <2>. QED  BY <1>2, <1>4, <2>1 DEF ReplyIsOwn
<1>. QED  BY <1>11, <1>12, <1>13, <1>14 DEF ReplyInv, O

LEMMA OwnLua ==
  ASSUME ReplyInv, LuaNext, UNCHANGED serverVars
  PROVE  ReplyInv'
<1>1. TypeOK'
  BY LuaTypeStep DEF ReplyInv
<1>2. effects' = effects => ReplyIsOwn'
  BY DEF ReplyInv, ReplyIsOwn, serverVars
<1>3. /\ outQueue \in Seq(OwnMessages) /\ results \in Seq(OwnMessages)
      /\ toPy \in [Conns -> Seq(OwnLines)]
      /\ Len(outQueue) <= MaxOutQueueMessages
  BY DEF ReplyInv, TypeOK, LuaTypeOK
<1>4. journal \in Seq(OwnMessages)
  BY SeqMonotone, OwnFacts DEF ReplyInv, TypeOK, LuaTypeOK
<1>5. \A m \in OwnMessages : LineOf(m) \in OwnLines
  BY DEF LineOf, OwnLines
<1>6. CASE Connect
  <2>1. ReplayedQueue \in Seq(OwnMessages)
    BY <1>3, <1>4, ReplayedQueueTyped
  <2>. QED  BY <1>1, <1>2, <1>3, <1>6, <2>1, OwnStep DEF Connect
<1>7. CASE Disconnect
  <2>1. Kept(outQueue, DOMAIN outQueue \ Lossy(outQueue)) \in Seq(OwnMessages)
    BY <1>3, RetainedTyped
  <2>. QED  BY <1>1, <1>2, <1>3, <1>7, <2>1, OwnStep DEF Disconnect
<1>8. CASE ReplayResult
  <2>1. PICK i \in DOMAIN results : outQueue' = Send(outQueue, results[i])
    BY <1>8 DEF ReplayResult
  <2>2. results[i] \in OwnMessages
    BY <1>3, <2>1
  <2>3. outQueue' \in Seq(OwnMessages)
    BY <1>3, <2>1, <2>2, SendTyped
  <2>. QED  BY <1>1, <1>2, <1>3, <1>8, <2>3, OwnStep DEF ReplayResult
<1>9. CASE ExecuteCommand
  BY <1>1, <1>9, OwnExecute
<1>10. CASE FlushMessage
  <2>1. /\ outQueue # <<>> /\ outQueue' = Tail(outQueue) /\ socket # NoConn
        /\ toPy' = SendToPy(socket, <<LineOf(Head(outQueue))>>)
        /\ effects' = effects /\ results' = results
    BY <1>10 DEF FlushMessage
  <2>2. Tail(outQueue) \in Seq(OwnMessages) /\ Head(outQueue) \in OwnMessages
    BY <1>3, <2>1
  <2>3. <<LineOf(Head(outQueue))>> \in Seq(OwnLines)
    BY <1>5, <2>2
  <2>4. toPy' \in [Conns -> Seq(OwnLines)]
    <3>. DEFINE sent == <<LineOf(Head(outQueue))>>
    <3>. HIDE DEF sent
    <3>1. sent \in Seq(OwnLines) /\ toPy' = SendToPy(socket, sent)
      BY <2>1, <2>3 DEF sent
    <3>2. socket \in Conns
      BY <2>1 DEF ReplyInv, TypeOK, LuaTypeOK
    <3>3. toPy[socket] \o sent \in Seq(OwnLines)
      BY <1>3, <3>1, <3>2
    <3>. QED  BY <1>3, <3>1, <3>3 DEF SendToPy
  <2>. QED  BY <1>1, <1>2, <1>3, <2>1, <2>2, <2>4, OwnStep
<1>11. CASE FlushPart
  BY <1>1, <1>2, <1>3, <1>11, OwnStep DEF FlushPart, wireVars
<1>12. CASE SendHeartbeat
  <2>1. Heartbeat(mission, now) \in OwnMessages
    BY MessagesTyped, OwnFacts DEF ReplyInv, TypeOK, LuaTypeOK
  <2>2. outQueue' \in Seq(OwnMessages)
    BY <1>3, <1>12, <2>1, SendTyped DEF SendHeartbeat
  <2>. QED  BY <1>1, <1>2, <1>3, <1>12, <2>2, OwnStep DEF SendHeartbeat, wireVars
<1>13. ASSUME NEW e \in Events, SendEvent(e)
       PROVE  ReplyInv'
  <2>1. EventMessage(e, mission, now) \in OwnMessages
    BY MessagesTyped, OwnFacts DEF ReplyInv, TypeOK, LuaTypeOK, EventNames
  <2>2. outQueue' \in Seq(OwnMessages)
    BY <1>3, <1>13, <2>1, SendTyped DEF SendEvent
  <2>. QED  BY <1>1, <1>2, <1>3, <1>13, <2>2, OwnStep DEF SendEvent, wireVars
<1>14. CASE AdvanceClock
  BY <1>1, <1>2, <1>3, <1>14, OwnStep DEF AdvanceClock, wireVars
<1>15. CASE RestartMission
  <2>. DEFINE ended == EventMessage(MissionEnded, mission, now)
              last == Enqueue(outQueue, ended)
              lines == [i \in DOMAIN last |-> IF i = 1 THEN LineOf(last[1]) ELSE last[i]]
  <2>1. last \in Seq(OwnMessages)
    <3>1. ended \in OwnMessages
      BY MessagesTyped, OwnFacts DEF ReplyInv, TypeOK, LuaTypeOK, EventNames
    <3>. HIDE DEF ended
    <3>. QED  BY <1>3, <3>1, EnqueueTyped
  <2>2. lines \in Seq(OwnLines)
    <3>. HIDE DEF last
    <3>1. \A i \in 1..Len(last) : last[i] \in OwnLines /\ LineOf(last[i]) \in OwnLines
      BY <1>5, <2>1 DEF OwnLines
    <3>2. lines \in [1..Len(last) -> OwnLines] /\ Len(last) \in Nat
      BY <2>1, <3>1
    <3>. QED  BY <3>2
  <2>3. outQueue' = <<>> /\ results' = <<>> /\ effects' = effects
    BY <1>15, Zenon DEF RestartMission
  <2>4. toPy' \in [Conns -> Seq(OwnLines)]
    <3>1. CASE socket = NoConn
      BY <1>3, <1>15, <3>1 DEF RestartMission, wireVars
    <3>2. CASE socket # NoConn
      <4>1. PICK s \in IF link[socket] = "up"
                       THEN Arriving(toPy[socket] \o lines) ELSE {toPy[socket]} :
              toPy' = [toPy EXCEPT ![socket] = s]
        <5>. HIDE DEF lines
        <5>. QED  BY <1>15, <3>2 DEF RestartMission, lines, last, ended
      <4>. HIDE DEF lines
      <4>2. toPy[socket] \in Seq(OwnLines)
        BY <1>3, <3>2 DEF ReplyInv, TypeOK, LuaTypeOK
      <4>3. toPy[socket] \o lines \in Seq(OwnLines)
        BY <2>2, <4>2
      <4>4. s \in Seq(OwnLines)
        BY <4>1, <4>2, <4>3, ArrivingTyped
      <4>. QED  BY <1>3, <4>1, <4>4
    <3>. QED  BY <3>1, <3>2
  <2>. QED  BY <1>1, <1>2, <2>3, <2>4, EmptyTyped, OwnStep
<1>. QED
  BY <1>6, <1>7, <1>8, <1>9, <1>10, <1>11, <1>12, <1>13, <1>14, <1>15 DEF LuaNext

LEMMA RepliesOwned == Spec => []ReplyInv
<1>1. Init => ReplyInv
  <2>1. Init => /\ outQueue \in Seq(OwnMessages) /\ results \in Seq(OwnMessages)
                /\ toPy \in [Conns -> Seq(OwnLines)]
    BY EmptyTyped DEF Init, WireInit, LuaInit
  <2>2. Init => ReplyIsOwn
    BY DEF Init, ServerInit, ReplyIsOwn
  <2>. QED  BY <2>1, <2>2, TypeInit DEF ReplyInv
<1>2. ReplyInv /\ [Next]_vars => ReplyInv'
  <2>. SUFFICES ASSUME ReplyInv, [Next]_vars, TypeOK'
                PROVE  ReplyInv'
    BY TypeStep DEF ReplyInv
  <2>1. ASSUME effects' = effects, outQueue' = outQueue, results' = results,
               toPy' \in [Conns -> Seq(OwnLines)], ReplyIsOwn'
        PROVE  ReplyInv'
    BY <2>1, OwnStep DEF ReplyInv
  <2>2. effects' = effects /\ UNCHANGED <<call, reply>> => ReplyIsOwn'
    BY DEF ReplyInv, ReplyIsOwn
  <2>3. toPy \in [Conns -> Seq(OwnLines)]
    BY DEF ReplyInv
  <2>4. CASE UNCHANGED vars
    BY <2>1, <2>2, <2>3, <2>4 DEF vars, wireVars, luaVars, serverVars
  <2>5. ASSUME NEW k \in Conns, Break(k), UNCHANGED <<luaVars, serverVars>>
        PROVE  ReplyInv'
    <3>1. PICK heard \in Arriving(toPy[k]) : toPy' = [toPy EXCEPT ![k] = heard]
      BY <2>5 DEF Break
    <3>2. heard \in Seq(OwnLines)
      BY <2>3, <3>1, ArrivingTyped
    <3>. QED  BY <2>1, <2>2, <2>3, <2>5, <3>1, <3>2 DEF luaVars, serverVars
  <2>6. ASSUME NEW k \in Conns, HandleLine(k), UNCHANGED luaVars
        PROVE  ReplyInv'
    <3>. DEFINE m == Head(toPy[k])
    <3>1. toPy[k] \in Seq(OwnLines) /\ toPy[k] # <<>> /\ toPy' = [toPy EXCEPT ![k] = Tail(@)]
      BY <2>3, <2>6 DEF HandleLine
    <3>2. m \in OwnLines /\ Tail(toPy[k]) \in Seq(OwnLines)
      BY <3>1
    <3>3. toPy' \in [Conns -> Seq(OwnLines)]
      BY <2>3, <3>1, <3>2
    <3>4. effects' = effects /\ outQueue' = outQueue /\ results' = results
      BY <2>6 DEF luaVars
    <3>5. \/ UNCHANGED callVars
          \/ m # Garbled /\ (MissionBoundary({}) \/ MissionBoundary({m}) \/ WithinMission(m))
      BY <2>6 DEF HandleLine
    <3>. HIDE DEF m
    <3>6. ASSUME NEW next, MissionBoundary(next)
          PROVE  ReplyIsOwn'
      <4>1. reply' = reply /\ call' = CallsFailed
        BY <3>6 DEF MissionBoundary
      <4>2. \A c \in Commands : call'[c] = "acked" => call[c] = "acked"
        BY <4>1 DEF CallsFailed
      <4>. QED  BY <3>4, <4>1, <4>2 DEF ReplyInv, ReplyIsOwn
    <3>7. ASSUME m # Garbled, WithinMission(m)
          PROVE  ReplyIsOwn'
      <4>1. CASE m.type = "ack" /\ Waiting(m.command)
        <5>1. m \in OwnMessages
          BY <3>2, <3>7 DEF OwnLines
        <5>2. m.run \in 1..Len(effects) /\ effects[m.run].command = m.command
          BY <4>1, <5>1 DEF OwnMessages
        <5>3. DOMAIN effects = 1..Len(effects)
          BY DEF ReplyInv, TypeOK, LuaTypeOK
        <5>4. call' = [call EXCEPT ![m.command] = "acked"]
              /\ reply' = [reply EXCEPT ![m.command] = m.run]
          BY <3>7, <4>1 DEF WithinMission
        <5>5. call \in [Commands -> CallStates] /\ reply \in [Commands -> Nat]
          BY DEF ReplyInv, TypeOK, ServerTypeOK
        <5>6. \A c \in Commands : c # m.command => call'[c] = call[c] /\ reply'[c] = reply[c]
          BY <5>4, <5>5
        <5>7. m.command \in Commands => reply'[m.command] = m.run
          BY <5>4, <5>5
        <5>. QED  BY <3>4, <5>2, <5>3, <5>6, <5>7 DEF ReplyInv, ReplyIsOwn
      <4>2. CASE ~(m.type = "ack" /\ Waiting(m.command))
        BY <2>2, <3>4, <3>7, <4>2 DEF WithinMission, callVars
      <4>. QED  BY <4>1, <4>2
    <3>8. ReplyIsOwn'
      BY <2>2, <3>4, <3>5, <3>6, <3>7 DEF callVars
    <3>. QED  BY <2>1, <3>3, <3>4, <3>8
  <2>7. ASSUME NEW k \in Conns, AcceptConnection(k), UNCHANGED luaVars
        PROVE  ReplyInv'
    <3>1. toPy' \in [Conns -> Seq(OwnLines)]
      <4>1. CASE writer = NoConn
        BY <2>3, <2>7, <4>1 DEF AcceptConnection, wireVars
      <4>2. CASE writer # NoConn
        <5>1. PICK read \in Arriving(toPy[writer]) : toPy' = [toPy EXCEPT ![writer] = read]
          BY <2>7, <4>2 DEF AcceptConnection
        <5>2. writer \in Conns
          BY <4>2 DEF ReplyInv, TypeOK, ServerTypeOK
        <5>3. read \in Seq(OwnLines)
          BY <2>3, <5>1, <5>2, ArrivingTyped
        <5>. QED  BY <2>3, <5>1, <5>3
      <4>. QED  BY <4>1, <4>2
    <3>. QED  BY <2>1, <2>2, <2>7, <3>1 DEF AcceptConnection, luaVars, callVars
  <2>8. ASSUME NEW k \in Conns, ResendCommand(k) \/ CloseConnection(k), UNCHANGED luaVars
        PROVE  ReplyInv'
    BY <2>1, <2>2, <2>3, <2>8
       DEF ResendCommand, CloseConnection, luaVars, wireVars, callVars
  <2>9. ASSUME NEW c \in Commands, SendCommand(c) \/ TimeOut(c), UNCHANGED luaVars
        PROVE  ReplyInv'
    <3>1. \E s \in {"waiting", "timed_out"} :
             call' = [call EXCEPT ![c] = s] /\ reply' = reply
      BY <2>9 DEF SendCommand, TimeOut
    <3>2. \A d \in Commands : call'[d] = "acked" => call[d] = "acked"
      BY <3>1 DEF ReplyInv, TypeOK, ServerTypeOK
    <3>3. toPy' = toPy /\ effects' = effects /\ outQueue' = outQueue /\ results' = results
      BY <2>9 DEF SendCommand, TimeOut, luaVars, wireVars
    <3>4. ReplyIsOwn'
      BY <3>1, <3>2, <3>3 DEF ReplyInv, ReplyIsOwn
    <3>. QED  BY <2>1, <2>3, <3>3, <3>4
  <2>. QED
    BY <2>4, <2>5, <2>6, <2>7, <2>8, <2>9, OwnLua DEF Next, ServerNext, Network
<1>. QED  BY <1>1, <1>2, PTL DEF Spec

\* A caller never gets the acknowledgement of another command, nor one for a
\* command that was not executed.
THEOREM RepliesAreOwn == Spec => []ReplyIsOwn
<1>1. ReplyInv => ReplyIsOwn
  BY DEF ReplyInv
<1>. QED  BY <1>1, RepliesOwned, PTL

-----------------------------------------------------------------------------
(* The promise to callers, while one mission runs and no result is evicted. *)

OneMission == MaxMissions <= 1 /\ mission = 1
NothingEvicted ==
  IsFiniteSet(Commands) /\ Cardinality(Commands) <= CommandResultCacheLimit

\* Of every execution the result is cached, so no command is executed twice.
ResultsOfEffects ==
  /\ Len(results) = Len(effects)
  /\ \A i \in 1..Len(effects) : results[i].command = effects[i].command
ExecutedOnce ==
  \A i, j \in 1..Len(effects) : effects[i].command = effects[j].command => i = j

OnceInv == TypeOK /\ OneMission /\ ResultsOfEffects /\ ExecutedOnce

LEMMA OnceExecute ==
  ASSUME OnceInv, NothingEvicted, ExecuteCommand
  PROVE  /\ \A i \in 1..Len(effects) : effects[i].command # Head(toLua[socket])
         /\ ResultsOfEffects' /\ ExecutedOnce' /\ OneMission'
<1>. DEFINE c == Head(toLua[socket])
            ack == Reply("ack", c, mission, Len(effects) + 1, now)
            limit == CommandResultCacheLimit
            n == Len(effects)
            done == [mission |-> mission, command |-> c]
            E == [mission : Nat, command : Commands]
<1>1. /\ results \in Seq(Acks) /\ effects \in Seq(E)
      /\ n \in Nat /\ mission \in Nat /\ limit \in Nat /\ Len(results) = n
      /\ \A i \in 1..n : results[i].command = effects[i].command
      /\ \A i, j \in 1..n : effects[i].command = effects[j].command => i = j
  BY MooseBridgeAssumption
     DEF OnceInv, ResultsOfEffects, ExecutedOnce, TypeOK, LuaTypeOK
<1>2. c \in Commands /\ ack.command = c /\ ack \in Acks
  BY <1>1 DEF OnceInv, TypeOK, LuaTypeOK, WireTypeOK, ExecuteCommand, Reply, Acks
<1>3. /\ effects' = Append(effects, done)
      /\ results' = LastN(Append(results, ack), limit)
      /\ mission' = mission
  BY DEF ExecuteCommand
<1>4. \A i \in 1..n : results[i].command # c
  BY <1>1 DEF ExecuteCommand, Cached
<1>5. \A i \in 1..n : effects[i].command # c
  BY <1>1, <1>4
<1>6. done \in E /\ done.command = c
  BY <1>1, <1>2
<1>7. \A i \in 1..n : effects[i].command \in Commands
  <2>1. \A i \in 1..n : effects[i] \in E
    <3>. HIDE DEF E
    <3>. QED  BY <1>1
  <2>. QED  BY <2>1
<1>. HIDE DEF c, ack, limit, done, E
<1>8. /\ Len(effects') = n + 1
      /\ \A i \in 1..n : effects'[i] = effects[i]
      /\ effects'[n + 1] = done
  BY <1>1, <1>3, <1>6
<1>. HIDE DEF n
<1>9. \A i \in 1..(n + 1) : i \in 1..n \/ i = n + 1
  BY <1>1
<1>10. ExecutedOnce'
  <2>1. \A i, j \in 1..(n + 1) : effects'[i].command = effects'[j].command => i = j
    BY <1>1, <1>5, <1>6, <1>8, <1>9
  <2>. QED  BY <1>8, <2>1 DEF ExecutedOnce
<1>11. n + 1 <= limit
  <2>. DEFINE f == [i \in 1..(n + 1) |-> IF i \in 1..n THEN effects[i].command ELSE c]
  <2>1. f \in [1..(n + 1) -> Commands]
    BY <1>2, <1>7
  <2>2. \A i, j \in 1..(n + 1) : f[i] = f[j] => i = j
    BY <1>1, <1>5, <1>9
  <2>. HIDE DEF f
  <2>3. f \in Injection(1..(n + 1), Commands)
    BY <2>1, <2>2 DEF Injection, IsInjective
  <2>4. Cardinality(1..(n + 1)) <= Cardinality(Commands)
    BY <2>3, FS_Injection DEF NothingEvicted
  <2>5. Cardinality(1..(n + 1)) = n + 1
    <3>1. n + 1 \in Int /\ 1 \in Int /\ ~(1 > n + 1) /\ n + 1 - 1 + 1 = n + 1
      BY <1>1
    <3>. QED  BY <3>1, FS_Interval
  <2>6. Cardinality(Commands) \in Nat
    BY FS_CardinalityType DEF NothingEvicted
  <2>. QED  BY <1>1, <2>4, <2>5, <2>6 DEF NothingEvicted, limit
<1>12. results' = Append(results, ack)
  <2>1. Len(Append(results, ack)) = n + 1
    BY <1>1, <1>2
  <2>2. ~(n + 1 > limit)
    BY <1>1, <1>11
  <2>. QED  BY <1>3, <2>1, <2>2 DEF LastN
<1>13. /\ Len(results') = n + 1
       /\ \A i \in 1..n : results'[i] = results[i]
       /\ results'[n + 1] = ack
  BY <1>1, <1>2, <1>12
<1>14. ResultsOfEffects'
  <2>1. \A i \in 1..(n + 1) : results'[i].command = effects'[i].command
    BY <1>1, <1>2, <1>6, <1>8, <1>9, <1>13
  <2>. QED  BY <1>8, <1>13, <2>1 DEF ResultsOfEffects
<1>. QED  BY <1>3, <1>5, <1>10, <1>14 DEF OnceInv, OneMission, c, n

LEMMA OnceStep ==
  ASSUME OnceInv, NothingEvicted, [Next]_vars
  PROVE  OnceInv'
<1>1. TypeOK'
  BY TypeStep DEF OnceInv
<1>2. ASSUME UNCHANGED <<mission, results, effects>>
      PROVE  OnceInv'
  BY <1>1, <1>2 DEF OnceInv, OneMission, ResultsOfEffects, ExecutedOnce
<1>3. CASE ExecuteCommand
  BY <1>1, <1>3, OnceExecute DEF OnceInv
<1>4. ~RestartMission
  BY MooseBridgeAssumption DEF OnceInv, OneMission, RestartMission
<1>5. CASE LuaNext
  BY <1>2, <1>3, <1>4, <1>5
     DEF LuaNext, Connect, Disconnect, ReplayResult, FlushMessage, FlushPart,
         SendHeartbeat, SendEvent, AdvanceClock
<1>. QED  BY <1>2, <1>5 DEF Next, luaVars, vars


\* Only commands that were called are under way to Lua or to be replayed.
Called == {c \in Commands : call[c] # "idle"}
CalledInv ==
  /\ TypeOK /\ WaitingIsPending
  /\ toLua \in [Conns -> Seq(Called)] /\ resend \in [Conns -> Seq(Called)]

LEMMA CalledForGood ==
  ASSUME TypeOK, [Next]_vars
  PROVE  Called \subseteq Called'
<1>1. call \in [Commands -> CallStates]
  BY DEF TypeOK, ServerTypeOK
<1>2. CASE call' = call
  BY <1>2 DEF Called
<1>3. ASSUME NEW c, NEW s \in {"waiting", "acked", "timed_out"},
             call' = [call EXCEPT ![c] = s]
      PROVE  Called \subseteq Called'
  BY <1>1, <1>3 DEF Called
<1>4. CASE call' = CallsFailed
  BY <1>4 DEF Called, CallsFailed
<1>5. ASSUME NEW k \in Conns, HandleLine(k)
      PROVE  Called \subseteq Called'
  <2>. DEFINE m == Head(toPy[k])
  <2>1. call' = call \/ call' = CallsFailed \/ call' = [call EXCEPT ![m.command] = "acked"]
    BY <1>5 DEF HandleLine, MissionBoundary, WithinMission, callVars
  <2>. HIDE DEF m
  <2>. QED  BY <1>2, <1>3, <1>4, <2>1
<1>. QED
  BY <1>2, <1>3, <1>5
     DEF Next, Network, ServerNext, AcceptConnection, ResendCommand, CloseConnection,
         SendCommand, TimeOut, callVars, serverVars, vars

LEMMA CalledStep ==
  ASSUME CalledInv, WaitingIsPending', [Next]_vars
  PROVE  CalledInv'
<1>. DEFINE K == Called'
<1>1. Called \subseteq K
  BY CalledForGood DEF CalledInv
<1>2. TypeOK'
  BY TypeStep DEF CalledInv
<1>3. /\ \A k \in Conns : toLua[k] \in Seq(Called) /\ resend[k] \in Seq(Called)
      /\ DOMAIN toLua = Conns /\ DOMAIN resend = Conns
      /\ toLua = [k \in Conns |-> toLua[k]] /\ resend = [k \in Conns |-> resend[k]]
  BY DEF CalledInv
<1>4. pending \in Seq(Called)
  <2>1. pending \in Seq(Commands)
    BY DEF CalledInv, TypeOK, ServerTypeOK
  <2>2. \A i \in 1..Len(pending) : pending[i] \in Called
    <3>1. \A i \in 1..Len(pending) : Waiting(pending[i]) /\ pending[i] \in Commands
      BY <2>1 DEF Waiting
    <3>. QED  BY <3>1 DEF CalledInv, WaitingIsPending, Called
  <2>. QED  BY <2>1, <2>2
<1>5. SUFFICES toLua' \in [Conns -> Seq(K)] /\ resend' \in [Conns -> Seq(K)]
  BY <1>2 DEF CalledInv
<1>. HIDE DEF K
<1>6. /\ toLua \in [Conns -> Seq(K)] /\ resend \in [Conns -> Seq(K)]
      /\ pending \in Seq(K)
  <2>1. \A k \in Conns : toLua[k] \in Seq(K) /\ resend[k] \in Seq(K)
    BY <1>1, <1>3, SeqMonotone
  <2>. QED  BY <1>1, <1>3, <1>4, <2>1, SeqMonotone
<1>7. CASE UNCHANGED <<toLua, resend>>
  BY <1>6, <1>7
<1>8. ASSUME NEW k \in Conns, NEW s \in Seq(K), toLua' = [toLua EXCEPT ![k] = s]
      PROVE  toLua' \in [Conns -> Seq(K)]
  BY <1>6, <1>8
<1>9. ASSUME NEW k \in Conns, NEW c \in K, toLua' = SendToLua(k, <<c>>)
      PROVE  toLua' \in [Conns -> Seq(K)]
  <2>1. toLua[k] \o <<c>> \in Seq(K)
    BY <1>6
  <2>. QED  BY <1>6, <1>9, <2>1 DEF SendToLua
<1>10. ASSUME LuaNext, UNCHANGED serverVars
       PROVE  toLua' \in [Conns -> Seq(K)] /\ resend' \in [Conns -> Seq(K)]
  <2>1. resend' = resend /\ (socket # NoConn => socket \in Conns)
    BY <1>10 DEF serverVars, CalledInv, TypeOK, LuaTypeOK
  <2>2. \/ toLua' = toLua
        \/ socket # NoConn /\ toLua' = [toLua EXCEPT ![socket] = <<>>]
        \/ /\ socket # NoConn /\ toLua[socket] # <<>>
           /\ toLua' = [toLua EXCEPT ![socket] = Tail(toLua[socket])]
    <3>1. CASE RestartMission
      BY <3>1 DEF RestartMission, wireVars
    <3>2. CASE ~RestartMission
      BY <1>10, <3>2
         DEF LuaNext, Connect, Disconnect, ReplayResult, ExecuteCommand, FlushMessage,
             FlushPart, SendHeartbeat, SendEvent, AdvanceClock, wireVars
    <3>. QED  BY <3>1, <3>2
  <2>3. <<>> \in Seq(K)
    BY EmptyTyped
  <2>4. socket # NoConn /\ toLua[socket] # <<>> => Tail(toLua[socket]) \in Seq(K)
    BY <1>6, <2>1
  <2>. QED  BY <1>6, <1>8, <2>1, <2>2, <2>3, <2>4
<1>11. ASSUME NEW k \in Conns, Break(k), UNCHANGED <<luaVars, serverVars>>
       PROVE  toLua' \in [Conns -> Seq(K)] /\ resend' \in [Conns -> Seq(K)]
  <2>1. PICK s \in Arriving(toLua[k]) : toLua' = [toLua EXCEPT ![k] = s]
    BY <1>11 DEF Break
  <2>2. s \in Seq(K)
    BY <1>6, <2>1, ArrivingTyped
  <2>. QED  BY <1>6, <1>8, <1>11, <2>1, <2>2 DEF serverVars
<1>12. ASSUME NEW k \in Conns, AcceptConnection(k)
       PROVE  toLua' \in [Conns -> Seq(K)] /\ resend' \in [Conns -> Seq(K)]
  <2>1. resend' \in [Conns -> Seq(K)]
    BY <1>6, <1>12 DEF AcceptConnection
  <2>2. CASE writer = NoConn
    BY <1>6, <1>12, <2>1, <2>2 DEF AcceptConnection, wireVars
  <2>3. CASE writer # NoConn
    <3>1. writer \in Conns
      BY <2>3 DEF CalledInv, TypeOK, ServerTypeOK
    <3>2. PICK s \in IF link[writer] = "up" THEN Arriving(toLua[writer]) ELSE {toLua[writer]} :
            toLua' = [toLua EXCEPT ![writer] = s]
      BY <1>12, <2>3 DEF AcceptConnection
    <3>3. s \in Seq(K)
      BY <1>6, <3>1, <3>2, ArrivingTyped
    <3>. QED  BY <1>8, <2>1, <3>1, <3>2, <3>3
  <2>. QED  BY <2>2, <2>3
<1>13. ASSUME NEW k \in Conns, ResendCommand(k)
       PROVE  toLua' \in [Conns -> Seq(K)] /\ resend' \in [Conns -> Seq(K)]
  <2>1. resend[k] \in Seq(K) /\ resend[k] # <<>>
    BY <1>6, <1>13 DEF ResendCommand
  <2>2. Head(resend[k]) \in K /\ Tail(resend[k]) \in Seq(K) /\ <<>> \in Seq(K)
    BY <2>1, EmptyTyped
  <2>3. resend' = [resend EXCEPT ![k] = Tail(resend[k])] \/ resend' = [resend EXCEPT ![k] = <<>>]
    BY <1>13 DEF ResendCommand
  <2>4. toLua' = toLua \/ toLua' = SendToLua(k, <<Head(resend[k])>>)
    BY <1>13 DEF ResendCommand
  <2>. QED  BY <1>6, <1>9, <2>2, <2>3, <2>4
<1>14. ASSUME NEW c \in Commands, SendCommand(c)
       PROVE  toLua' \in [Conns -> Seq(K)] /\ resend' \in [Conns -> Seq(K)]
  <2>1. /\ resend' = resend /\ toLua' = SendToLua(writer, <<c>>)
        /\ call' = [call EXCEPT ![c] = "waiting"] /\ writer \in Conns
    BY <1>14 DEF SendCommand, connVars, CalledInv, TypeOK, ServerTypeOK
  <2>2. c \in K
    BY <2>1 DEF CalledInv, TypeOK, ServerTypeOK, Called, K
  <2>. QED  BY <1>6, <1>9, <2>1, <2>2
<1>15. ASSUME NEW k \in Conns, CloseConnection(k) \/ HandleLine(k)
       PROVE  UNCHANGED <<toLua, resend>>
  BY <1>15 DEF CloseConnection, HandleLine, connVars, wireVars
<1>16. ASSUME NEW c \in Commands, TimeOut(c)
       PROVE  UNCHANGED <<toLua, resend>>
  BY <1>16 DEF TimeOut, connVars, wireVars
<1>17. CASE UNCHANGED vars
  BY <1>7, <1>17 DEF vars, wireVars, serverVars
<1>. QED
  BY <1>7, <1>10, <1>11, <1>12, <1>13, <1>14, <1>15, <1>16, <1>17
     DEF Next, Network, ServerNext


Stages == {"idle", "waiting", "returned", "abandoned"}
StageOf(s) ==
  CASE s = "idle"    -> "idle"
    [] s = "waiting" -> "waiting"
    [] s = "acked"   -> "returned"
    [] OTHER         -> "abandoned"
Runs(ran, c) == {i \in DOMAIN ran : ran[i].command = c}

LEMMA PromiseFunctions ==
  /\ CallState = [c \in Commands |-> StageOf(call[c])]
  /\ CallState' = [c \in Commands |-> StageOf(call'[c])]
  /\ Times = [c \in Commands |-> Cardinality(Runs(effects, c))]
  /\ Times' = [c \in Commands |-> Cardinality(Runs(effects', c))]
  BY DEF CallState, Times, StageOf, Runs

LEMMA StageFacts ==
  /\ StageOf("idle") = "idle" /\ StageOf("waiting") = "waiting"
  /\ StageOf("acked") = "returned" /\ StageOf("timed_out") = "abandoned"
  /\ StageOf("mission_ended") = "abandoned"
  /\ \A s : s # "idle" => StageOf(s) # "idle"
  BY DEF StageOf

\* How often a command has had its effect, so far.
LEMMA RunsOnce ==
  ASSUME OnceInv, NEW c \in Commands
  PROVE  /\ \A i \in DOMAIN effects : effects[i].command = c => Cardinality(Runs(effects, c)) = 1
         /\ (\A i \in DOMAIN effects : effects[i].command # c) => Cardinality(Runs(effects, c)) = 0
<1>1. DOMAIN effects = 1..Len(effects)
  BY DEF OnceInv, TypeOK, LuaTypeOK
<1>2. ASSUME NEW i \in DOMAIN effects, effects[i].command = c
      PROVE  Cardinality(Runs(effects, c)) = 1
  <2>1. \A j \in DOMAIN effects : effects[j].command = c => j = i
    BY <1>1, <1>2 DEF OnceInv, ExecutedOnce
  <2>2. Runs(effects, c) = {i}
    BY <1>2, <2>1 DEF Runs
  <2>. QED  BY <2>2, FS_Singleton
<1>3. ASSUME \A i \in DOMAIN effects : effects[i].command # c
      PROVE  Cardinality(Runs(effects, c)) = 0
  <2>1. Runs(effects, c) = {}
    BY <1>3 DEF Runs
  <2>. QED  BY <2>1, FS_EmptySet
<1>. QED  BY <1>2, <1>3

PromiseInv == OnceInv /\ CalledInv /\ ReplyInv

LEMMA PromiseEffect ==
  ASSUME PromiseInv, OnceInv', NothingEvicted, ExecuteCommand, call' = call
  PROVE  \E c \in Commands : Promise!TakeEffect(c)
<1>. DEFINE c == Head(toLua[socket])
            n == Len(effects)
            done == [mission |-> mission, command |-> c]
            E == [mission : Nat, command : Commands]
<1>1. OnceInv /\ CalledInv
  BY DEF PromiseInv
<1>2. c \in Called
  <2>1. /\ socket \in Conns /\ toLua[socket] # <<>> /\ toLua[socket] \in Seq(Called)
    BY <1>1 DEF ExecuteCommand, OnceInv, TypeOK, LuaTypeOK, CalledInv
  <2>. QED  BY <2>1
<1>3. c \in Commands /\ call[c] # "idle"
  BY <1>2 DEF Called
<1>4. /\ effects \in Seq(E) /\ n \in Nat /\ done \in E /\ done.command = c
      /\ effects' = Append(effects, done)
  BY <1>1, <1>3 DEF ExecuteCommand, OnceInv, TypeOK, LuaTypeOK
<1>5. \A i \in 1..n : effects[i].command # c
  BY <1>1, OnceExecute
<1>. HIDE DEF c, done, E
<1>6. /\ DOMAIN effects = 1..n /\ DOMAIN effects' = 1..(n + 1)
      /\ \A i \in 1..n : effects'[i] = effects[i]
      /\ effects'[n + 1] = done
  BY <1>4
<1>. HIDE DEF n
<1>7. Cardinality(Runs(effects, c)) = 0
  BY <1>1, <1>3, <1>5, <1>6, RunsOnce
<1>8. n + 1 \in DOMAIN effects' /\ \A i \in DOMAIN effects' : i \in 1..n \/ i = n + 1
  BY <1>4, <1>6
<1>9. Cardinality(Runs(effects', c)) = 1
  <2>1. Runs(effects', c) = {n + 1}
    BY <1>4, <1>5, <1>6, <1>8 DEF Runs
  <2>. QED  BY <2>1, FS_Singleton
<1>10. ASSUME NEW d \in Commands, d # c
       PROVE  Runs(effects', d) = Runs(effects, d)
  <2>1. \A i : i \in Runs(effects', d) <=> i \in Runs(effects, d)
    <3>1. ASSUME NEW i \in Runs(effects', d)
          PROVE  i \in Runs(effects, d)
      BY <1>4, <1>6, <1>8, <1>10, <3>1 DEF Runs
    <3>2. ASSUME NEW i \in Runs(effects, d)
          PROVE  i \in Runs(effects', d)
      <4>1. i \in 1..n /\ effects[i].command = d
        BY <1>6, <3>2 DEF Runs
      <4>2. i \in 1..(n + 1)
        BY <1>4, <4>1
      <4>. QED  BY <1>6, <4>1, <4>2 DEF Runs
    <3>. QED  BY <3>1, <3>2
  <2>. QED  BY <2>1, Zenon
<1>11. Times[c] = 0 /\ Times' = [Times EXCEPT ![c] = 1]
  <2>1. \A d \in Commands :
          Cardinality(Runs(effects', d)) = IF d = c THEN 1 ELSE Cardinality(Runs(effects, d))
    BY <1>9, <1>10
  <2>. QED  BY <1>3, <1>7, <2>1, PromiseFunctions
<1>12. CallState[c] # "idle" /\ CallState' = CallState
  BY <1>3, PromiseFunctions, StageFacts
<1>. QED  BY <1>3, <1>11, <1>12 DEF Promise!TakeEffect

LEMMA PromiseStutter ==
  ASSUME call' = call, effects' = effects
  PROVE  UNCHANGED Promise!vars
  BY DEF Promise!vars, CallState, Times

LEMMA PromiseMove ==
  ASSUME PromiseInv, effects' = effects, NEW c \in Commands, NEW s \in CallStates,
         call' = [call EXCEPT ![c] = s]
  PROVE  Times' = Times /\ CallState' = [CallState EXCEPT ![c] = StageOf(s)]
<1>1. call \in [Commands -> CallStates]
  BY DEF PromiseInv, OnceInv, TypeOK, ServerTypeOK
<1>2. \A d \in Commands : call'[d] = IF d = c THEN s ELSE call[d]
  BY <1>1
<1>3. Times' = Times
  BY DEF Times
<1>. QED  BY <1>2, <1>3, PromiseFunctions

LEMMA PromiseStart ==
  ASSUME PromiseInv, NEW c \in Commands, SendCommand(c), effects' = effects
  PROVE  Promise!Start(c)
<1>1. call[c] = "idle" /\ call' = [call EXCEPT ![c] = "waiting"] /\ "waiting" \in CallStates
  BY DEF SendCommand, CallStates
<1>2. Times' = Times /\ CallState' = [CallState EXCEPT ![c] = StageOf("waiting")]
  BY <1>1, PromiseMove
<1>. QED  BY <1>1, <1>2, PromiseFunctions, StageFacts DEF Promise!Start

\* The calls of S are given up.
LEMMA PromiseAbandon ==
  ASSUME PromiseInv, effects' = effects, NEW S \in SUBSET Commands,
         NEW s \in {"timed_out", "mission_ended"},
         \A c \in S : call[c] = "waiting",
         call' = [c \in Commands |-> IF c \in S THEN s ELSE call[c]]
  PROVE  Promise!Abandon(S)
<1>1. Times' = Times
  BY DEF Times
<1>2. \A c \in Commands : StageOf(call'[c]) = IF c \in S THEN "abandoned" ELSE StageOf(call[c])
  BY StageFacts
<1>3. CallState' = [c \in Commands |-> IF c \in S THEN "abandoned" ELSE CallState[c]]
  BY <1>2, PromiseFunctions
<1>4. \A c \in S : CallState[c] = "waiting"
  BY PromiseFunctions, StageFacts
<1>. QED  BY <1>1, <1>3, <1>4 DEF Promise!Abandon

LEMMA PromiseTimeOut ==
  ASSUME PromiseInv, NEW c \in Commands, TimeOut(c), effects' = effects
  PROVE  Promise!Abandon({c})
<1>1. call \in [Commands -> CallStates]
  BY DEF PromiseInv, OnceInv, TypeOK, ServerTypeOK
<1>2. call[c] = "waiting" /\ call' = [call EXCEPT ![c] = "timed_out"]
  BY DEF TimeOut
<1>3. call' = [d \in Commands |-> IF d \in {c} THEN "timed_out" ELSE call[d]]
  BY <1>1, <1>2
<1>. QED  BY <1>2, <1>3, PromiseAbandon

LEMMA PromiseBoundary ==
  ASSUME PromiseInv, NEW next, MissionBoundary(next), effects' = effects
  PROVE  \E S \in SUBSET Commands : Promise!Abandon(S)
<1>. DEFINE S == {c \in Commands : Waiting(c)}
<1>1. call' = [c \in Commands |-> IF c \in S THEN "mission_ended" ELSE call[c]]
  BY DEF MissionBoundary, CallsFailed
<1>2. \A c \in S : call[c] = "waiting"
  BY DEF PromiseInv, CalledInv, WaitingIsPending
<1>. HIDE DEF S
<1>3. S \in SUBSET Commands
  BY DEF S
<1>. QED  BY <1>1, <1>2, <1>3, PromiseAbandon

\* An acknowledgement that reaches its call tells of an execution of its command.
LEMMA PromiseReturn ==
  ASSUME PromiseInv, effects' = effects, NEW m \in OwnLines, m # Garbled,
         m.type = "ack", Waiting(m.command), WithinMission(m)
  PROVE  \E c \in Commands : Promise!Return(c)
<1>. DEFINE c == m.command
<1>1. m \in OwnMessages
  BY DEF OwnLines
<1>2. m.run \in 1..Len(effects) /\ effects[m.run].command = c
  BY <1>1 DEF OwnMessages
<1>3. DOMAIN effects = 1..Len(effects) /\ pending \in Seq(Commands)
  BY DEF PromiseInv, OnceInv, TypeOK, LuaTypeOK, ServerTypeOK
<1>4. c \in Commands
  BY <1>3 DEF Waiting
<1>5. call[c] = "waiting" /\ call' = [call EXCEPT ![c] = "acked"] /\ "acked" \in CallStates
  BY <1>4 DEF PromiseInv, CalledInv, WaitingIsPending, WithinMission, CallStates
<1>. HIDE DEF c
<1>6. Cardinality(Runs(effects, c)) = 1
  BY <1>2, <1>3, <1>4, RunsOnce DEF PromiseInv
<1>7. Times' = Times /\ CallState' = [CallState EXCEPT ![c] = StageOf("acked")]
  BY <1>4, <1>5, PromiseMove
<1>8. Times[c] = 1 /\ CallState[c] = "waiting" /\ StageOf("acked") = "returned"
  BY <1>4, <1>5, <1>6, PromiseFunctions, StageFacts
<1>. QED  BY <1>4, <1>7, <1>8 DEF Promise!Return

LEMMA PromiseStep ==
  ASSUME PromiseInv, OnceInv', NothingEvicted, [Next]_vars
  PROVE  [Promise!Next]_(Promise!vars)
<1>1. CASE UNCHANGED vars
  BY <1>1, PromiseStutter DEF vars, luaVars, serverVars
<1>2. ASSUME LuaNext, UNCHANGED serverVars
      PROVE  [Promise!Next]_(Promise!vars)
  <2>1. call' = call
    BY <1>2 DEF serverVars
  <2>2. CASE ExecuteCommand
    BY <2>1, <2>2, PromiseEffect DEF Promise!Next
  <2>3. CASE ~ExecuteCommand
    <3>1. effects' = effects
      BY <1>2, <2>3
         DEF LuaNext, Connect, Disconnect, ReplayResult, FlushMessage, FlushPart,
             SendHeartbeat, SendEvent, AdvanceClock, RestartMission
    <3>. QED  BY <2>1, <3>1, PromiseStutter
  <2>. QED  BY <2>2, <2>3
<1>3. CASE Network /\ UNCHANGED <<luaVars, serverVars>>
  BY <1>3, PromiseStutter DEF luaVars, serverVars
<1>4. ASSUME ServerNext, UNCHANGED luaVars
      PROVE  [Promise!Next]_(Promise!vars)
  <2>1. effects' = effects
    BY <1>4 DEF luaVars
  <2>2. ASSUME NEW k \in Conns,
               AcceptConnection(k) \/ ResendCommand(k) \/ CloseConnection(k)
        PROVE  [Promise!Next]_(Promise!vars)
    <3>1. call' = call
      BY <2>2 DEF AcceptConnection, ResendCommand, CloseConnection, callVars
    <3>. QED  BY <2>1, <3>1, PromiseStutter
  <2>3. ASSUME NEW k \in Conns, HandleLine(k)
        PROVE  [Promise!Next]_(Promise!vars)
    <3>. DEFINE m == Head(toPy[k])
    <3>1. \/ UNCHANGED callVars
          \/ MissionBoundary({}) \/ MissionBoundary({m})
          \/ m # Garbled /\ WithinMission(m)
      BY <2>3 DEF HandleLine
    <3>2. m \in OwnLines
      <4>1. toPy[k] \in Seq(OwnLines) /\ toPy[k] # <<>>
        BY <2>3 DEF PromiseInv, ReplyInv, HandleLine
      <4>. QED  BY <4>1
    <3>. HIDE DEF m
    <3>3. CASE UNCHANGED callVars
      BY <2>1, <3>3, PromiseStutter DEF callVars
    <3>4. CASE MissionBoundary({}) \/ MissionBoundary({m})
      BY <2>1, <3>4, PromiseBoundary DEF Promise!Next
    <3>5. CASE m # Garbled /\ WithinMission(m)
      <4>1. CASE m.type = "ack" /\ Waiting(m.command)
        BY <2>1, <3>2, <3>5, <4>1, PromiseReturn DEF Promise!Next
      <4>2. CASE ~(m.type = "ack" /\ Waiting(m.command))
        BY <3>3, <3>5, <4>2 DEF WithinMission
      <4>. QED  BY <4>1, <4>2
    <3>. QED  BY <3>1, <3>3, <3>4, <3>5
  <2>4. ASSUME NEW c \in Commands, SendCommand(c)
        PROVE  [Promise!Next]_(Promise!vars)
    BY <2>1, <2>4, PromiseStart DEF Promise!Next
  <2>5. ASSUME NEW c \in Commands, TimeOut(c)
        PROVE  [Promise!Next]_(Promise!vars)
    BY <2>1, <2>5, PromiseTimeOut DEF Promise!Next
  <2>. QED  BY <1>4, <2>2, <2>3, <2>4, <2>5 DEF ServerNext
<1>. QED  BY <1>1, <1>2, <1>3, <1>4 DEF Next

\* While one mission runs and no result is evicted from the cache, the bridge
\* keeps its promise to the callers: replays, lost connections and late
\* acknowledgements included, a command has its effect at most once, after its
\* call, and a call ends once, with an acknowledgement only after the effect.
THEOREM CallsKeepPromiseHolds ==
  ASSUME MaxMissions <= 1,
         IsFiniteSet(Commands), Cardinality(Commands) <= CommandResultCacheLimit
  PROVE  Spec => CallsKeepPromise
<1>1. NothingEvicted
  BY DEF NothingEvicted
<1>2. Init => OnceInv
  <2>1. Init => OneMission /\ effects = <<>> /\ results = <<>>
    BY DEF Init, LuaInit, OneMission
  <2>2. effects = <<>> /\ results = <<>> => ResultsOfEffects /\ ExecutedOnce
    BY DEF ResultsOfEffects, ExecutedOnce
  <2>. QED  BY <2>1, <2>2, TypeInit DEF OnceInv
<1>3. OnceInv /\ [Next]_vars => OnceInv'
  BY <1>1, OnceStep
<1>4. Init /\ WaitingIsPending => CalledInv
  <2>1. Init => /\ toLua \in [Conns -> Seq(Called)]
                /\ resend \in [Conns -> Seq(Called)]
    BY EmptyTyped DEF Init, WireInit, ServerInit
  <2>. QED  BY <2>1, TypeInit DEF CalledInv
<1>5. CalledInv /\ WaitingIsPending' /\ [Next]_vars => CalledInv'
  BY CalledStep
<1>6. Init => Promise!Init
  <2>1. Init => call = [c \in Commands |-> "idle"] /\ effects = <<>>
    BY DEF Init, LuaInit, ServerInit
  <2>2. call = [c \in Commands |-> "idle"] => CallState = [c \in Commands |-> "idle"]
    BY PromiseFunctions, StageFacts
  <2>3. effects = <<>> => Times = [c \in Commands |-> 0]
    <3>1. ASSUME effects = <<>>, NEW c \in Commands
          PROVE  Cardinality(Runs(effects, c)) = 0
      <4>1. Runs(effects, c) = {}
        BY <3>1 DEF Runs
      <4>. QED  BY <4>1, FS_EmptySet
    <3>. QED  BY <3>1, PromiseFunctions
  <2>. QED  BY <2>1, <2>2, <2>3 DEF Promise!Init
<1>7. OnceInv /\ OnceInv' /\ CalledInv /\ ReplyInv /\ [Next]_vars
        => [Promise!Next]_(Promise!vars)
  BY <1>1, PromiseStep DEF PromiseInv
<1>. QED
  BY <1>2, <1>3, <1>4, <1>5, <1>6, <1>7, CallsAreRegistered, RepliesOwned, PTL
     DEF Spec, CallsKeepPromise, Promise!Spec


-----------------------------------------------------------------------------
(* Snapshots and their acknowledgements, on the first connection.           *)

RefreshAck(m) == m.type = "ack" /\ m.command \in SnapshotCommands
Snapshotted(s, r) == \E i \in 1..Len(s) : s[i].type = "snapshot" /\ s[i].run = r

\* In s an acknowledgement follows the snapshot of its run, unless that is in R.
Told(s, R) ==
  \A i \in 1..Len(s) : RefreshAck(s[i]) =>
    \/ s[i].run \in R
    \/ \E j \in 1..(i - 1) : s[j].type = "snapshot" /\ s[j].run = s[i].run

LEMMA ToldPrefix ==
  ASSUME NEW s \in Seq(Lines), NEW R, Told(s, R), NEW t \in Arriving(s)
  PROVE  Told(t, R)
<1>1. PICK n \in 0..Len(s) : t = SubSeq(s, 1, n)
  BY DEF Arriving
<1>2. Len(t) = n /\ \A i \in 1..n : t[i] = s[i] /\ i \in 1..Len(s)
  BY <1>1
<1>3. ASSUME NEW i \in 1..n, RefreshAck(t[i]), t[i].run \notin R
      PROVE  \E j \in 1..(i - 1) : t[j].type = "snapshot" /\ t[j].run = t[i].run
  <2>1. PICK j \in 1..(i - 1) : s[j].type = "snapshot" /\ s[j].run = s[i].run
    BY <1>2, <1>3 DEF Told
  <2>2. j \in 1..n
    BY <1>2
  <2>. QED  BY <1>2, <2>1, <2>2
<1>. QED  BY <1>2, <1>3 DEF Told

LEMMA ToldTail ==
  ASSUME NEW s \in Seq(Lines), s # <<>>, NEW R, Told(s, R), NEW Q, R \subseteq Q,
         Head(s).type = "snapshot" => Head(s).run \in Q
  PROVE  /\ Told(Tail(s), Q)
         /\ RefreshAck(Head(s)) => Head(s).run \in R
         /\ \A r : Snapshotted(s, r) => r \in Q \/ Snapshotted(Tail(s), r)
<1>. DEFINE t == Tail(s)
<1>1. /\ Len(s) \in Nat /\ Len(s) > 0 /\ Len(t) = Len(s) - 1 /\ Head(s) = s[1]
      /\ \A i \in 1..Len(t) : t[i] = s[i + 1] /\ i + 1 \in 1..Len(s)
  OBVIOUS
<1>2. \A j \in 1..Len(s) : j = 1 \/ (j - 1 \in 1..Len(t) /\ t[j - 1] = s[j])
  BY <1>1
<1>3. ASSUME NEW i \in 1..Len(t), RefreshAck(t[i]), t[i].run \notin Q
      PROVE  \E j \in 1..(i - 1) : t[j].type = "snapshot" /\ t[j].run = t[i].run
  <2>1. s[i + 1] = t[i] /\ i + 1 \in 1..Len(s) /\ s[i + 1].run \notin R
    BY <1>1, <1>3
  <2>2. PICK j \in 1..((i + 1) - 1) : s[j].type = "snapshot" /\ s[j].run = s[i + 1].run
    BY <1>3, <2>1 DEF Told
  <2>3. j # 1
    BY <1>1, <1>3, <2>1, <2>2
  <2>4. j - 1 \in 1..(i - 1) /\ t[j - 1] = s[j]
    BY <1>1, <1>2, <2>2, <2>3
  <2>. QED  BY <2>1, <2>2, <2>4
<1>4. RefreshAck(s[1]) => s[1].run \in R
  <2>1. 1 \in 1..Len(s) /\ ~\E j \in 1..(1 - 1) : TRUE
    BY <1>1
  <2>. QED  BY <2>1 DEF Told
<1>5. ASSUME NEW r, Snapshotted(s, r), r \notin Q
      PROVE  Snapshotted(t, r)
  <2>1. PICK j \in 1..Len(s) : s[j].type = "snapshot" /\ s[j].run = r
    BY <1>5 DEF Snapshotted
  <2>2. j # 1
    BY <1>1, <1>5, <2>1
  <2>. QED  BY <1>2, <2>1, <2>2 DEF Snapshotted
<1>. HIDE DEF t
<1>6. Told(t, Q)
  BY <1>3 DEF Told
<1>. QED  BY <1>1, <1>4, <1>5, <1>6 DEF t

LEMMA ToldMore ==
  ASSUME NEW s, NEW R, Told(s, R), NEW Q, R \subseteq Q
  PROVE  Told(s, Q)
  BY DEF Told

LEMMA ToldAppend ==
  ASSUME NEW s \in Seq(Lines), NEW R, Told(s, R), NEW m \in Lines
  PROVE  /\ (RefreshAck(m) => m.run \in R \/ Snapshotted(s, m.run)) => Told(Append(s, m), R)
         /\ \A r : Snapshotted(s, r) => Snapshotted(Append(s, m), r)
         /\ m.type = "snapshot" => Snapshotted(Append(s, m), m.run)
<1>. DEFINE t == Append(s, m)
            n == Len(s)
<1>1. /\ n \in Nat /\ Len(t) = n + 1 /\ t[n + 1] = m
      /\ \A i \in 1..n : t[i] = s[i] /\ i \in 1..Len(t)
      /\ n + 1 \in 1..Len(t)
      /\ \A i \in 1..Len(t) : i \in 1..n \/ i = n + 1
  OBVIOUS
<1>. HIDE DEF t
<1>2. ASSUME RefreshAck(m) => m.run \in R \/ Snapshotted(s, m.run)
      PROVE  Told(t, R)
  <2>1. ASSUME NEW i \in 1..Len(t), RefreshAck(t[i]), t[i].run \notin R
        PROVE  \E j \in 1..(i - 1) : t[j].type = "snapshot" /\ t[j].run = t[i].run
    <3>1. CASE i \in 1..n
      <4>1. t[i] = s[i]
        BY <1>1, <3>1
      <4>2. PICK j \in 1..(i - 1) : s[j].type = "snapshot" /\ s[j].run = s[i].run
        BY <2>1, <3>1, <4>1 DEF Told, n
      <4>3. j \in 1..n
        BY <1>1, <3>1, <4>2
      <4>. QED  BY <1>1, <4>1, <4>2, <4>3
    <3>2. CASE i = n + 1
      <4>1. t[i] = m /\ i - 1 = n
        BY <1>1, <3>2
      <4>2. PICK j \in 1..n : s[j].type = "snapshot" /\ s[j].run = m.run
        BY <1>2, <2>1, <4>1 DEF Snapshotted, n
      <4>. QED  BY <1>1, <4>1, <4>2
    <3>. QED  BY <1>1, <2>1, <3>1, <3>2
  <2>. QED  BY <2>1 DEF Told
<1>3. ASSUME NEW r, Snapshotted(s, r)
      PROVE  Snapshotted(t, r)
  BY <1>1, <1>3 DEF Snapshotted, n
<1>4. m.type = "snapshot" => Snapshotted(t, m.run)
  BY <1>1 DEF Snapshotted
<1>. QED  BY <1>2, <1>3, <1>4 DEF t


\* What is left to arrive over connection k while it lasts.
Stream(k) == toPy[k] \o outQueue

\* The head of the queue is the message begun on the wire, if any is.
Whole ==
  IF offset THEN outQueue # <<>> /\ fragment = {Head(outQueue)} ELSE fragment = {}

FirstOnly == \A k \in Conns : k > 1 => link[k] = "unused"
HeardTold == \A k \in Conns : Told(toPy[k], mirrored)
StreamTold == \A k \in Conns : link[k] = "up" => Told(Stream(k), mirrored)
ResultsTold ==
  \A k \in Conns : link[k] = "up" =>
    \A i \in 1..Len(results) : RefreshAck(results[i]) =>
      results[i].run \in mirrored \/ Snapshotted(Stream(k), results[i].run)
SilentBefore ==
  (\A k \in Conns : link[k] = "unused") =>
    results = <<>> /\ \A i \in 1..Len(outQueue) : outQueue[i].type # "ack"
RepliesMirrored == \A c \in SnapshotCommands : call[c] = "acked" => reply[c] \in mirrored

FirstInv ==
  /\ HeardTold /\ StreamTold /\ ResultsTold /\ SilentBefore /\ RepliesMirrored
SnapshotInv == WriterInv /\ Whole /\ (FirstOnly => FirstInv)

\* The queue has room for a snapshot and its acknowledgement.
HasRoom == Len(outQueue) + 2 <= MaxOutQueueMessages

LEMMA ConcatAppend ==
  ASSUME NEW s \in Seq(Lines), NEW t \in Seq(Lines), NEW m \in Lines
  PROVE  s \o Append(t, m) = Append(s \o t, m)
<1>1. <<m>> \in Seq(Lines) /\ s \o t \in Seq(Lines)
  OBVIOUS
<1>2. Append(t, m) = t \o <<m>> /\ Append(s \o t, m) = (s \o t) \o <<m>>
  BY <1>1, AppendIsConcat
<1>. QED  BY <1>1, <1>2, ConcatAssociative

LEMMA ConcatHead ==
  ASSUME NEW s \in Seq(Lines), NEW t \in Seq(Lines), t # <<>>
  PROVE  (s \o <<Head(t)>>) \o Tail(t) = s \o t
<1>1. Head(t) \in Lines /\ Tail(t) \in Seq(Lines)
  OBVIOUS
<1>. DEFINE h == <<Head(t)>>
            u == Tail(t)
<1>2. h \in Seq(Lines) /\ u \in Seq(Lines) /\ t = h \o u
  BY <1>1
<1>3. (s \o h) \o u = s \o t
  <2>. HIDE DEF h, u
  <2>1. (s \o h) \o u = s \o (h \o u)
    BY <1>2, ConcatAssociative
  <2>. QED  BY <1>2, <2>1
<1>. QED  BY <1>3

LEMMA ConcatTail ==
  ASSUME NEW s \in Seq(Lines), NEW t \in Seq(Lines), s # <<>>
  PROVE  Tail(s) \o t = Tail(s \o t) /\ Head(s \o t) = Head(s) /\ s \o t # <<>>
<1>1. s \o t \in Seq(Lines) /\ Len(s \o t) = Len(s) + Len(t) /\ Len(s) \in Nat \ {0}
      /\ Len(t) \in Nat
  OBVIOUS
<1>2. s \o t # <<>>
  BY <1>1
<1>3. Head(s \o t) = Head(s)
  BY <1>1, <1>2
<1>4. Tail(s) \in Seq(Lines) /\ Tail(s \o t) \in Seq(Lines) /\ Len(Tail(s)) = Len(s) - 1
      /\ Len(Tail(s \o t)) = Len(s) + Len(t) - 1
  BY <1>1, <1>2
<1>. DEFINE a == Tail(s) \o t
            b == Tail(s \o t)
<1>5. a \in Seq(Lines) /\ Len(a) = Len(s) - 1 + Len(t)
  BY <1>1, <1>4
<1>6. \A i \in 1..Len(b) : a[i] = b[i]
  <2>. TAKE i \in 1..Len(b)
  <2>1. b[i] = (s \o t)[i + 1] /\ i + 1 \in 1..Len(s \o t)
    BY <1>1, <1>2, <1>4
  <2>2. CASE i <= Len(s) - 1
    BY <1>1, <1>4, <2>1, <2>2
  <2>3. CASE ~(i <= Len(s) - 1)
    BY <1>1, <1>4, <2>1, <2>3
  <2>. QED  BY <2>2, <2>3
<1>7. Len(a) = Len(b)
  BY <1>1, <1>4, <1>5
<1>. HIDE DEF a, b
<1>8. a = b
  BY <1>4, <1>5, <1>6, <1>7, SeqEqual DEF b
<1>. QED  BY <1>2, <1>3, <1>8 DEF a, b

LEMMA ConcatPrefix ==
  ASSUME NEW s \in Seq(Lines), NEW t \in Seq(Lines)
  PROVE  s \in Arriving(s \o t)
<1>1. s = SubSeq(s \o t, 1, Len(s))
  OBVIOUS
<1>2. Len(s) \in 0..Len(s \o t)
  OBVIOUS
<1>. QED  BY <1>1, <1>2 DEF Arriving

\* With room in the queue a message that is sent is appended, or is there, or
\* may be lost.
LEMMA SendRoom ==
  ASSUME NEW q \in Seq(Messages), Len(q) < MaxOutQueueMessages, NEW m
  PROVE  \/ Send(q, m) = Append(q, m)
         \/ Send(q, m) = q /\ (IsReliable(m) => \E i \in 1..Len(q) : q[i] = m)
<1>1. DOMAIN q = 1..Len(q)
  OBVIOUS
<1>. QED  BY <1>1 DEF Send, Enqueue

LEMMA NeverUnusedAgain ==
  ASSUME TypeOK, [Next]_vars
  PROVE  \A k \in Conns : link'[k] = "unused" => link[k] = "unused"
<1>1. link \in [Conns -> {"unused", "up", "down"}]
  BY DEF TypeOK, WireTypeOK
<1>2. ASSUME link' = link \/ \E j, s : s \in {"up", "down"} /\ link' = [link EXCEPT ![j] = s]
      PROVE  \A k \in Conns : link'[k] = "unused" => link[k] = "unused"
  BY <1>1, <1>2
<1>3. CASE LuaNext
  <2>1. CASE RestartMission
    BY <1>2, <2>1, Zenon DEF RestartMission, wireVars
  <2>2. CASE Connect
    BY <1>2, <2>2 DEF Connect
  <2>3. CASE ~RestartMission /\ ~Connect
    <3>1. link' = link
      BY <1>3, <2>3
         DEF LuaNext, Disconnect, ReplayResult, ExecuteCommand, FlushMessage, FlushPart,
             SendHeartbeat, SendEvent, AdvanceClock, wireVars
    <3>. QED  BY <1>2, <3>1
  <2>. QED  BY <2>1, <2>2, <2>3
<1>4. CASE ServerNext
  <2>1. ASSUME NEW k \in Conns, AcceptConnection(k)
        PROVE  link' = link \/ link' = [link EXCEPT ![writer] = "down"]
    BY <2>1 DEF AcceptConnection, wireVars
  <2>2. (\E k \in Conns : AcceptConnection(k)) \/ link' = link
    BY <1>4
       DEF ServerNext, ResendCommand, CloseConnection, HandleLine, SendCommand, TimeOut,
           wireVars
  <2>. QED  BY <1>2, <2>1, <2>2
<1>5. CASE Network
  BY <1>2, <1>5 DEF Network, Break
<1>. QED  BY <1>2, <1>3, <1>4, <1>5 DEF Next, vars, wireVars


SnapshotTypes ==
  /\ \A k \in Conns : toPy[k] \in Seq(Lines)
  /\ outQueue \in Seq(Lines) /\ outQueue \in Seq(Messages)
  /\ results \in Seq(Lines) /\ results \in Seq(Acks)
  /\ Len(outQueue) \in Nat /\ MaxOutQueueMessages \in Nat

LEMMA SnapshotTyped == TypeOK => SnapshotTypes
<1>1. Messages \subseteq Lines /\ Acks \subseteq Lines
  BY DEF Lines, Messages
<1>. QED
  BY <1>1, SeqMonotone, MooseBridgeAssumption
     DEF SnapshotTypes, TypeOK, WireTypeOK, LuaTypeOK

\* A step that adds what is no acknowledgement to the queue, or nothing.
LEMMA FirstAdd ==
  ASSUME SnapshotTypes, FirstInv,
         UNCHANGED <<link, toPy, mirrored, call, reply, results>>,
         NEW m \in Messages,
         m.type = "ack" => \E k \in Conns : link[k] # "unused",
         RefreshAck(m) => \A k \in Conns : link[k] = "up" =>
                            m.run \in mirrored \/ Snapshotted(Stream(k), m.run),
         outQueue' = outQueue \/ outQueue' = Append(outQueue, m)
  PROVE  FirstInv'
<1>1. HeardTold' /\ RepliesMirrored'
  BY DEF FirstInv, HeardTold, RepliesMirrored
<1>2. SilentBefore'
  <2>1. CASE outQueue' = outQueue
    BY <2>1 DEF FirstInv, SilentBefore
  <2>2. ASSUME outQueue' = Append(outQueue, m), \A k \in Conns : link[k] = "unused"
        PROVE  results' = <<>> /\ \A i \in 1..Len(outQueue') : outQueue'[i].type # "ack"
    <3>1. m.type # "ack" /\ results = <<>> /\ \A i \in 1..Len(outQueue) : outQueue[i].type # "ack"
      BY <2>2 DEF FirstInv, SilentBefore
    <3>. QED  BY <2>2, <3>1 DEF SnapshotTypes
  <2>. QED  BY <2>1, <2>2 DEF SilentBefore
<1>3. ASSUME NEW k \in Conns, link[k] = "up"
      PROVE  /\ Told(toPy'[k] \o outQueue', mirrored)
             /\ \A r : Snapshotted(Stream(k), r) => Snapshotted(toPy'[k] \o outQueue', r)
  <2>1. Told(Stream(k), mirrored) /\ toPy'[k] = toPy[k]
    BY <1>3 DEF FirstInv, StreamTold
  <2>2. CASE outQueue' = outQueue
    BY <2>1, <2>2 DEF Stream
  <2>3. CASE outQueue' = Append(outQueue, m)
    <3>. DEFINE s == toPy[k] \o outQueue
    <3>1. s \in Seq(Lines) /\ m \in Lines /\ s = Stream(k)
      BY DEF SnapshotTypes, Lines, Stream
    <3>2. toPy'[k] \o outQueue' = Append(s, m)
      <4>1. toPy[k] \in Seq(Lines) /\ outQueue \in Seq(Lines)
        BY DEF SnapshotTypes
      <4>2. toPy[k] \o Append(outQueue, m) = Append(s, m)
        BY <3>1, <4>1, ConcatAppend
      <4>. QED  BY <2>1, <2>3, <4>2
    <3>. HIDE DEF s
    <3>. QED  BY <1>3, <2>1, <3>1, <3>2, ToldAppend
  <2>. QED  BY <2>2, <2>3
<1>4. StreamTold' /\ ResultsTold'
  <2>1. ASSUME NEW k \in Conns, link'[k] = "up"
        PROVE  /\ Told(Stream(k)', mirrored')
               /\ \A i \in 1..Len(results') : RefreshAck(results'[i]) =>
                    results'[i].run \in mirrored' \/ Snapshotted(Stream(k)', results'[i].run)
    <3>1. link[k] = "up"
      BY <2>1
    <3>. QED  BY <1>3, <3>1 DEF FirstInv, ResultsTold, Stream
  <2>. QED  BY <2>1 DEF StreamTold, ResultsTold
<1>. QED  BY <1>1, <1>2, <1>4 DEF FirstInv

\* Once no connection is up, what was sent last tells all.
LEMMA FirstDown ==
  ASSUME FirstInv, UNCHANGED <<mirrored, call, reply>>,
         \A k \in Conns : link'[k] # "up",
         \E k \in Conns : link'[k] # "unused",
         \A k \in Conns : Told(toPy'[k], mirrored)
  PROVE  FirstInv'
<1>1. HeardTold' /\ RepliesMirrored'
  BY DEF FirstInv, HeardTold, RepliesMirrored
<1>2. StreamTold' /\ ResultsTold' /\ SilentBefore'
  BY DEF StreamTold, ResultsTold, SilentBefore
<1>. QED  BY <1>1, <1>2 DEF FirstInv

LEMMA SnapshotExecute ==
  ASSUME SnapshotInv, HasRoom, FirstOnly, ExecuteCommand, UNCHANGED serverVars
  PROVE  FirstInv' /\ Whole'
<1>. DEFINE c == Head(toLua[socket])
            r == Len(effects) + 1
            ack == Reply("ack", c, mission, r, now)
            snapshot == Reply("snapshot", c, mission, r, now)
            first == IF c \in SnapshotCommands THEN Send(outQueue, snapshot) ELSE outQueue
<1>1. FirstInv /\ WriterInv /\ TypeOK /\ SnapshotTypes /\ Whole
  BY SnapshotTyped DEF SnapshotInv, WriterInv
<1>2. c \in Commands /\ mission \in Nat /\ now \in Nat /\ r \in Nat /\ socket \in Conns
  BY <1>1 DEF ExecuteCommand, TypeOK, WireTypeOK, LuaTypeOK
<1>3. /\ outQueue' = Send(first, ack)
      /\ results' = LastN(Append(results, ack), CommandResultCacheLimit)
      /\ UNCHANGED <<toPy, link, mirrored, call, reply, offset, fragment, socket>>
  BY DEF ExecuteCommand, serverVars
<1>4. /\ ack \in Acks /\ ack.type = "ack" /\ ack.run = r /\ ack.command = c
      /\ snapshot.type = "snapshot" /\ snapshot.run = r
      /\ ack \in Messages /\ snapshot \in Messages /\ IsReliable(snapshot)
  <2>1. ack \in Acks /\ snapshot \in Snapshots
    <3>. HIDE DEF c, r
    <3>. QED  BY <1>2, MessagesTyped
  <2>. QED  BY <2>1, MessagesTyped DEF Reply, IsReliable
<1>. HIDE DEF c, r, ack, snapshot
<1>5. link[socket] # "unused" /\ Len(outQueue) < MaxOutQueueMessages
      /\ Len(outQueue) + 1 < MaxOutQueueMessages
  BY <1>1, <1>2, ConnsArithmetic DEF WriterInv, SocketIsNewest, SnapshotTypes, HasRoom
<1>6. ASSUME c \in SnapshotCommands
      PROVE  /\ first = outQueue \/ first = Append(outQueue, snapshot)
             /\ first = outQueue => \E i \in 1..Len(outQueue) : outQueue[i] = snapshot
  BY <1>1, <1>4, <1>5, <1>6, SendRoom DEF SnapshotTypes
<1>7. /\ first = outQueue \/ first = Append(outQueue, snapshot)
      /\ c \in SnapshotCommands /\ first = outQueue
           => \E i \in 1..Len(outQueue) : outQueue[i] = snapshot
  BY <1>6
<1>. HIDE DEF first
<1>8. /\ first \in Seq(Messages) /\ first \in Seq(Lines) /\ Len(first) < MaxOutQueueMessages
      /\ outQueue # <<>> => first # <<>> /\ Head(first) = Head(outQueue)
  <2>1. CASE first = outQueue
    BY <1>1, <1>5, <2>1 DEF SnapshotTypes
  <2>2. CASE first = Append(outQueue, snapshot)
    BY <1>1, <1>4, <1>5, <2>2, HeadTailAppend DEF SnapshotTypes, Lines
  <2>. QED  BY <1>7, <2>1, <2>2
<1>9. outQueue' = first \/ outQueue' = Append(first, ack)
  BY <1>3, <1>8, SendRoom
<1>10. outQueue # <<>> => outQueue' # <<>> /\ Head(outQueue') = Head(outQueue)
  BY <1>4, <1>8, <1>9, HeadTailAppend
<1>11. Whole'
  BY <1>1, <1>3, <1>10 DEF Whole
<1>12. ASSUME NEW k \in Conns, link[k] = "up"
       PROVE  /\ Told(toPy[k] \o outQueue', mirrored)
              /\ \A q : Snapshotted(Stream(k), q) => Snapshotted(toPy[k] \o outQueue', q)
              /\ c \in SnapshotCommands => Snapshotted(toPy[k] \o outQueue', r)
  <2>. DEFINE s == toPy[k] \o outQueue
              f == toPy[k] \o first
              e == toPy[k] \o outQueue'
  <2>1. /\ toPy[k] \in Seq(Lines) /\ outQueue \in Seq(Lines) /\ ack \in Lines /\ snapshot \in Lines
        /\ s \in Seq(Lines) /\ f \in Seq(Lines)
    BY <1>1, <1>4, <1>8 DEF SnapshotTypes, Lines
  <2>2. Told(s, mirrored) /\ Stream(k) = s
    BY <1>1, <1>12 DEF FirstInv, StreamTold, Stream
  <2>3. first = Append(outQueue, snapshot) => f = Append(s, snapshot)
    <3>1. toPy[k] \o Append(outQueue, snapshot) = Append(s, snapshot)
      BY <2>1, ConcatAppend
    <3>. QED  BY <3>1
  <2>4. e = f \/ e = Append(f, ack)
    <3>1. toPy[k] \o Append(first, ack) = Append(f, ack)
      BY <1>8, <2>1, ConcatAppend
    <3>. QED  BY <1>9, <3>1
  <2>5. ASSUME NEW i \in 1..Len(outQueue), outQueue[i] = snapshot
        PROVE  Snapshotted(s, r)
    <3>1. /\ Len(toPy[k]) + i \in 1..Len(s) /\ s[Len(toPy[k]) + i] = outQueue[i]
      BY <2>1
    <3>. HIDE DEF s
    <3>. QED  BY <1>4, <2>5, <3>1 DEF Snapshotted
  <2>. HIDE DEF s, f, e
  <2>6. ~RefreshAck(snapshot)
    BY <1>4 DEF RefreshAck
  <2>7. /\ Told(f, mirrored)
        /\ \A q : Snapshotted(s, q) => Snapshotted(f, q)
    <3>1. CASE first = outQueue
      BY <2>2, <3>1 DEF f, s
    <3>2. CASE first = Append(outQueue, snapshot)
      <4>1. /\ Told(Append(s, snapshot), mirrored)
            /\ \A q : Snapshotted(s, q) => Snapshotted(Append(s, snapshot), q)
        BY <2>1, <2>2, <2>6, ToldAppend
      <4>. QED  BY <2>3, <3>2, <4>1
    <3>. QED  BY <1>7, <3>1, <3>2
  <2>8. c \in SnapshotCommands => Snapshotted(f, r)
    <3>1. CASE first = outQueue
      BY <1>7, <2>5, <2>7, <3>1
    <3>2. CASE first = Append(outQueue, snapshot)
      <4>1. f = Append(s, snapshot)
        BY <2>3, <3>2
      <4>. QED  BY <1>4, <2>1, <2>2, <4>1, ToldAppend
    <3>. QED  BY <1>7, <3>1, <3>2
  <2>9. RefreshAck(ack) => Snapshotted(f, ack.run)
    BY <1>4, <2>8 DEF RefreshAck
  <2>10. Told(e, mirrored) /\ \A q : Snapshotted(f, q) => Snapshotted(e, q)
    <3>1. /\ Told(Append(f, ack), mirrored)
          /\ \A q : Snapshotted(f, q) => Snapshotted(Append(f, ack), q)
      BY <2>1, <2>7, <2>9, ToldAppend
    <3>. QED  BY <2>4, <2>7, <3>1
  <2>. QED  BY <2>2, <2>7, <2>8, <2>10 DEF e
<1>13. \A i \in 1..Len(results') : results'[i] = ack \/ \E j \in 1..Len(results) : results'[i] = results[j]
  <2>. DEFINE all == Append(results, ack)
              limit == CommandResultCacheLimit
  <2>1. /\ all \in Seq(Acks) /\ limit \in Nat /\ Len(all) = Len(results) + 1
        /\ \A j \in 1..Len(all) : all[j] = ack \/ \E i \in 1..Len(results) : all[j] = results[i]
    BY <1>1, <1>4, MooseBridgeAssumption DEF SnapshotTypes
  <2>. HIDE DEF all, limit
  <2>2. \A i \in 1..Len(LastN(all, limit)) :
          /\ LastN(all, limit)[i] = all[Len(all) - Len(LastN(all, limit)) + i]
          /\ Len(all) - Len(LastN(all, limit)) + i \in 1..Len(all)
    <3>. DEFINE l == LastN(all, limit)
    <3>1. Len(l) = IF Len(all) > limit THEN limit ELSE Len(all)
      BY <2>1, LastNProperties, Zenon
    <3>2. \A i \in 1..Len(l) : l[i] = all[Len(all) - Len(l) + i]
      BY <2>1, LastNProperties, Zenon
    <3>3. Len(all) \in Nat
      BY <2>1
    <3>. HIDE DEF l
    <3>4. \A i \in 1..Len(l) : Len(all) - Len(l) + i \in 1..Len(all)
      BY <2>1, <3>1, <3>3
    <3>. QED  BY <3>2, <3>4 DEF l
  <2>. QED  BY <1>3, <2>1, <2>2 DEF all, limit
<1>14. HeardTold' /\ RepliesMirrored' /\ SilentBefore'
  BY <1>1, <1>2, <1>3, <1>5 DEF FirstInv, HeardTold, RepliesMirrored, SilentBefore
<1>15. StreamTold' /\ ResultsTold'
  <2>1. ASSUME NEW k \in Conns, link'[k] = "up"
        PROVE  /\ Told(Stream(k)', mirrored')
               /\ \A i \in 1..Len(results') : RefreshAck(results'[i]) =>
                    results'[i].run \in mirrored' \/ Snapshotted(Stream(k)', results'[i].run)
    <3>1. link[k] = "up" /\ Stream(k)' = toPy[k] \o outQueue' /\ mirrored' = mirrored
      BY <1>3, <2>1 DEF Stream
    <3>2. ASSUME NEW i \in 1..Len(results'), RefreshAck(results'[i])
          PROVE  results'[i].run \in mirrored \/ Snapshotted(Stream(k)', results'[i].run)
      <4>1. CASE results'[i] = ack
        BY <1>4, <1>12, <3>1, <3>2, <4>1 DEF RefreshAck
      <4>2. ASSUME NEW j \in 1..Len(results), results'[i] = results[j]
            PROVE  results'[i].run \in mirrored \/ Snapshotted(Stream(k)', results'[i].run)
        <5>1. results[j].run \in mirrored \/ Snapshotted(Stream(k), results[j].run)
          BY <1>1, <3>1, <3>2, <4>2 DEF FirstInv, ResultsTold
        <5>. QED  BY <1>12, <3>1, <4>2, <5>1
      <4>. QED  BY <1>13, <4>1, <4>2
    <3>. QED  BY <1>12, <3>1, <3>2
  <2>. QED  BY <2>1 DEF StreamTold, ResultsTold
<1>. QED  BY <1>11, <1>14, <1>15 DEF FirstInv


LEMMA ToldSilent ==
  ASSUME NEW s \in Seq(Lines), NEW t \in Seq(Lines), NEW R, Told(s, R),
         \A i \in 1..Len(t) : t[i].type # "ack"
  PROVE  Told(s \o t, R)
<1>. DEFINE a == s \o t
<1>1. /\ Len(s) \in Nat /\ Len(t) \in Nat /\ Len(a) = Len(s) + Len(t)
      /\ \A i \in 1..Len(a) : a[i] = IF i <= Len(s) THEN s[i] ELSE t[i - Len(s)]
  OBVIOUS
<1>. HIDE DEF a
<1>2. ASSUME NEW i \in 1..Len(a), RefreshAck(a[i]), a[i].run \notin R
      PROVE  \E j \in 1..(i - 1) : a[j].type = "snapshot" /\ a[j].run = a[i].run
  <2>1. i <= Len(s)
    <3>1. ~(i <= Len(s)) => i - Len(s) \in 1..Len(t) /\ a[i] = t[i - Len(s)]
      BY <1>1
    <3>. QED  BY <1>2, <3>1 DEF RefreshAck
  <2>2. i \in 1..Len(s) /\ a[i] = s[i]
    BY <1>1, <2>1
  <2>3. PICK j \in 1..(i - 1) : s[j].type = "snapshot" /\ s[j].run = s[i].run
    BY <1>2, <2>2 DEF Told
  <2>4. a[j] = s[j]
    BY <1>1, <2>2, <2>3
  <2>. QED  BY <2>2, <2>3, <2>4
<1>. QED  BY <1>2 DEF Told, a

LEMMA WholeLine ==
  ASSUME Whole, outQueue # <<>>
  PROVE  LineOf(Head(outQueue)) = Head(outQueue)
BY DEF Whole, LineOf

\* What is sent last leaves the head of the queue as it is.
LEMMA WholeKept ==
  ASSUME SnapshotTypes, Whole, UNCHANGED <<offset, fragment>>, NEW m \in Messages,
         outQueue' = outQueue \/ outQueue' = Append(outQueue, m)
  PROVE  Whole'
<1>1. outQueue # <<>> => outQueue' # <<>> /\ Head(outQueue') = Head(outQueue)
  BY HeadTailAppend DEF SnapshotTypes
<1>. QED  BY <1>1 DEF Whole

LEMMA SnapshotConnect ==
  ASSUME SnapshotInv, Connect, FirstOnly, FirstOnly', UNCHANGED serverVars
  PROVE  FirstInv'
<1>1. FirstInv /\ SnapshotTypes /\ TypeOK
  BY SnapshotTyped DEF SnapshotInv, WriterInv
<1>2. PICK k \in Conns : link[k] = "unused" /\ link' = [link EXCEPT ![k] = "up"]
  BY DEF Connect
<1>3. /\ outQueue' = ReplayedQueue
      /\ UNCHANGED <<toPy, results, mirrored, call, reply>>
  BY DEF Connect, serverVars
<1>4. \A j \in Conns : link'[j] = IF j = k THEN "up" ELSE link[j]
  BY <1>1, <1>2 DEF TypeOK, WireTypeOK
<1>5. \A j \in Conns : link[j] = "unused"
  <2>1. \A j \in Conns : j = 1 \/ j > 1
    BY DEF Conns
  <2>2. k = 1
    BY <1>4, <2>1 DEF FirstOnly
  <2>. QED  BY <1>2, <1>4, <2>1, <2>2 DEF FirstOnly
<1>6. results = <<>> /\ \A i \in 1..Len(outQueue) : outQueue[i].type # "ack"
  BY <1>1, <1>5 DEF FirstInv, SilentBefore
<1>7. outQueue' \in Seq(Lines) /\ \A i \in 1..Len(outQueue') : outQueue'[i].type # "ack"
  <2>. DEFINE S == {m \in Lines : m.type # "ack"}
  <2>1. EventMessages \subseteq S
    BY DEF EventMessages, Lines, Messages
  <2>2. journal \in Seq(EventMessages)
    BY <1>1 DEF TypeOK, LuaTypeOK
  <2>3. journal \in Seq(S) /\ outQueue \in Seq(S)
    <3>1. \A i \in 1..Len(outQueue) : outQueue[i] \in S
      BY <1>1, <1>6 DEF SnapshotTypes
    <3>. HIDE DEF S
    <3>. QED  BY <1>1, <2>1, <2>2, <3>1 DEF SnapshotTypes
  <2>4. outQueue' \in Seq(S)
    <3>. HIDE DEF S
    <3>. QED  BY <1>3, <2>3, ReplayedQueueTyped
  <2>5. \A i \in 1..Len(outQueue') : outQueue'[i] \in S
    <3>. HIDE DEF S
    <3>. QED  BY <2>4
  <2>6. S \subseteq Lines
    OBVIOUS
  <2>7. outQueue' \in Seq(Lines)
    <3>. HIDE DEF S
    <3>. QED  BY <2>4, <2>6, SeqMonotone
  <2>. QED  BY <2>5, <2>7
<1>8. Told(toPy[k] \o outQueue', mirrored)
  BY <1>1, <1>7, ToldSilent DEF FirstInv, HeardTold, SnapshotTypes
<1>9. HeardTold' /\ RepliesMirrored'
  BY <1>1, <1>3 DEF FirstInv, HeardTold, RepliesMirrored
<1>10. StreamTold' /\ ResultsTold' /\ SilentBefore'
  BY <1>3, <1>4, <1>5, <1>6, <1>8 DEF StreamTold, ResultsTold, SilentBefore, Stream
<1>. QED  BY <1>9, <1>10 DEF FirstInv

LEMMA SnapshotFlush ==
  ASSUME SnapshotInv, FlushMessage, FirstOnly, UNCHANGED serverVars
  PROVE  FirstInv'
<1>1. FirstInv /\ SnapshotTypes /\ TypeOK /\ WriterInv /\ Whole
  BY SnapshotTyped DEF SnapshotInv, WriterInv
<1>2. /\ outQueue # <<>> /\ outQueue' = Tail(outQueue) /\ socket \in Conns
      /\ toPy' = SendToPy(socket, <<LineOf(Head(outQueue))>>)
      /\ UNCHANGED <<link, results, mirrored, call, reply>>
  BY <1>1 DEF FlushMessage, serverVars, TypeOK, LuaTypeOK
<1>3. link[socket] # "unused"
  BY <1>1, <1>2, ConnsArithmetic DEF WriterInv, SocketIsNewest
<1>4. \A k \in Conns : link[k] = "up" => k = socket
  BY <1>1 DEF WriterInv, SocketIsNewest
<1>5. CASE link[socket] # "up"
  <2>1. toPy' = toPy /\ \A k \in Conns : link'[k] # "up"
    BY <1>2, <1>4, <1>5 DEF SendToPy
  <2>. QED  BY <1>1, <1>2, <1>3, <2>1, FirstDown DEF FirstInv, HeardTold
<1>6. CASE link[socket] = "up"
  <2>. DEFINE h == Head(outQueue)
              t == toPy[socket] \o <<h>>
  <2>1. toPy' = [toPy EXCEPT ![socket] = t]
    BY <1>1, <1>2, <1>6, WholeLine DEF SendToPy
  <2>2. \A k \in Conns : toPy'[k] = IF k = socket THEN t ELSE toPy[k]
    BY <1>1, <2>1 DEF TypeOK, WireTypeOK
  <2>3. t \in Seq(Lines) /\ Tail(outQueue) \in Seq(Lines)
    BY <1>1, <1>2 DEF SnapshotTypes
  <2>4. t \o outQueue' = Stream(socket)
    BY <1>1, <1>2, ConcatHead DEF SnapshotTypes, Stream
  <2>. HIDE DEF t
  <2>5. Told(Stream(socket), mirrored)
    BY <1>1, <1>2, <1>6 DEF FirstInv, StreamTold
  <2>6. Told(t, mirrored)
    <3>1. t \in Arriving(Stream(socket))
      BY <1>2, <2>3, <2>4, ConcatPrefix
    <3>2. Stream(socket) \in Seq(Lines)
      BY <1>1, <1>2 DEF Stream, SnapshotTypes
    <3>. QED  BY <2>5, <3>1, <3>2, ToldPrefix
  <2>7. HeardTold' /\ RepliesMirrored'
    BY <1>1, <1>2, <2>2, <2>6 DEF FirstInv, HeardTold, RepliesMirrored
  <2>8. Stream(socket)' = Stream(socket) /\ socket' = socket
    BY <1>2, <2>2, <2>4 DEF Stream, FlushMessage
  <2>9. StreamTold' /\ ResultsTold' /\ SilentBefore'
    <3>1. \A k \in Conns : link'[k] = "up" => k = socket /\ toPy'[k] \o outQueue' = Stream(k)
      BY <1>2, <1>4, <2>2, <2>4
    <3>. QED
      BY <1>1, <1>2, <1>3, <3>1
         DEF FirstInv, StreamTold, ResultsTold, SilentBefore, Stream
  <2>. QED  BY <2>7, <2>9 DEF FirstInv
<1>. QED  BY <1>5, <1>6

LEMMA SnapshotRestart ==
  ASSUME SnapshotInv, HasRoom, RestartMission, FirstOnly, UNCHANGED serverVars
  PROVE  FirstInv'
<1>1. FirstInv /\ SnapshotTypes /\ TypeOK /\ WriterInv /\ Whole
  BY SnapshotTyped DEF SnapshotInv, WriterInv
<1>2. /\ outQueue' = <<>> /\ results' = <<>>
      /\ UNCHANGED <<mirrored, call, reply>>
  BY Zenon DEF RestartMission, serverVars
<1>3. CASE socket = NoConn
  <2>1. link' = link /\ toPy' = toPy
    BY <1>3 DEF RestartMission, wireVars
  <2>2. \A k \in Conns : link[k] # "up"
    BY <1>1, <1>3, ConnsArithmetic DEF WriterInv, SocketIsNewest
  <2>3. HeardTold' /\ RepliesMirrored' /\ StreamTold' /\ ResultsTold'
    BY <1>1, <1>2, <2>1, <2>2
       DEF FirstInv, HeardTold, RepliesMirrored, StreamTold, ResultsTold
  <2>4. SilentBefore'
    BY <1>2 DEF SilentBefore
  <2>. QED  BY <2>3, <2>4 DEF FirstInv
<1>4. CASE socket # NoConn
  <2>. DEFINE ended == EventMessage(MissionEnded, mission, now)
              last == Enqueue(outQueue, ended)
              lines == [i \in DOMAIN last |-> IF i = 1 THEN LineOf(last[1]) ELSE last[i]]
  <2>1. socket \in Conns
    BY <1>1, <1>4 DEF TypeOK, LuaTypeOK
  <2>2. link' = [link EXCEPT ![socket] = "down"]
    BY <1>4 DEF RestartMission
  <2>3. PICK s \in IF link[socket] = "up"
                   THEN Arriving(toPy[socket] \o lines) ELSE {toPy[socket]} :
          toPy' = [toPy EXCEPT ![socket] = s]
    <3>. HIDE DEF lines
    <3>. QED  BY <1>4 DEF RestartMission, lines, last, ended
  <2>4. ended \in Messages /\ ended \in Lines /\ ended.type = "event"
    <3>1. ended \in EventMessages
      BY <1>1, MessagesTyped DEF TypeOK, LuaTypeOK, EventNames
    <3>. QED  BY <3>1, MessagesTyped DEF EventMessages, Lines
  <2>. HIDE DEF ended
  <2>5. last = outQueue \/ last = Append(outQueue, ended)
    BY <1>1 DEF Enqueue, HasRoom, SnapshotTypes
  <2>6. last \in Seq(Lines) /\ (outQueue # <<>> => last # <<>> /\ Head(last) = Head(outQueue))
    BY <1>1, <2>4, <2>5, HeadTailAppend DEF SnapshotTypes
  <2>. HIDE DEF last
  <2>7. last # <<>> => LineOf(last[1]) = last[1]
    <3>1. CASE outQueue # <<>>
      BY <1>1, <2>6, <3>1, WholeLine
    <3>2. CASE outQueue = <<>>
      BY <1>1, <3>2 DEF Whole, LineOf
    <3>. QED  BY <3>1, <3>2
  <2>8. lines = last
    <3>1. last = [i \in DOMAIN last |-> last[i]]
      BY <2>6
    <3>2. 1 \in DOMAIN last => LineOf(last[1]) = last[1]
      BY <2>6, <2>7
    <3>3. \A i \in DOMAIN last : (IF i = 1 THEN LineOf(last[1]) ELSE last[i]) = last[i]
      BY <3>2
    <3>. QED  BY <3>1, <3>3
  <2>. HIDE DEF lines
  <2>9. Told(s, mirrored)
    <3>1. CASE link[socket] # "up"
      BY <1>1, <2>1, <2>3, <3>1 DEF FirstInv, HeardTold
    <3>2. CASE link[socket] = "up"
      <4>. DEFINE q == toPy[socket] \o outQueue
      <4>1. q \in Seq(Lines) /\ toPy[socket] \o last \in Seq(Lines)
            /\ toPy[socket] \in Seq(Lines) /\ outQueue \in Seq(Lines)
        BY <1>1, <2>1, <2>6 DEF SnapshotTypes
      <4>2. Told(q, mirrored)
        BY <1>1, <2>1, <3>2 DEF FirstInv, StreamTold, Stream
      <4>3. toPy[socket] \o Append(outQueue, ended) = Append(q, ended)
        BY <2>4, <4>1, ConcatAppend
      <4>. HIDE DEF q
      <4>4. Told(Append(q, ended), mirrored)
        BY <2>4, <4>1, <4>2, ToldAppend DEF RefreshAck
      <4>5. Told(toPy[socket] \o last, mirrored)
        BY <2>5, <4>2, <4>3, <4>4 DEF q
      <4>6. s \in Arriving(toPy[socket] \o last)
        BY <2>3, <2>8, <3>2
      <4>. QED  BY <4>1, <4>5, <4>6, ToldPrefix
    <3>. QED  BY <3>1, <3>2
  <2>10. \A k \in Conns : /\ link'[k] = IF k = socket THEN "down" ELSE link[k]
                          /\ toPy'[k] = IF k = socket THEN s ELSE toPy[k]
    BY <1>1, <2>2, <2>3 DEF TypeOK, WireTypeOK
  <2>11. \A k \in Conns : link'[k] # "up" /\ Told(toPy'[k], mirrored)
    BY <1>1, <2>9, <2>10 DEF WriterInv, SocketIsNewest, FirstInv, HeardTold
  <2>. QED  BY <1>1, <1>2, <2>1, <2>10, <2>11, FirstDown
<1>. QED  BY <1>3, <1>4

LEMMA SnapshotLua ==
  ASSUME SnapshotInv, HasRoom, LuaNext, UNCHANGED serverVars
  PROVE  SnapshotInv'
<1>1. WriterInv /\ TypeOK /\ SnapshotTypes /\ Whole /\ (FirstOnly => FirstInv)
  BY SnapshotTyped DEF SnapshotInv, WriterInv
<1>2. WriterInv'
  BY <1>1, WriterLua
<1>3. FirstOnly' => FirstOnly
  BY <1>1, NeverUnusedAgain DEF Next, FirstOnly
<1>4. UNCHANGED <<mirrored, call, reply>> /\ Len(outQueue) < MaxOutQueueMessages
  BY <1>1 DEF serverVars, HasRoom, SnapshotTypes
<1>5. SUFFICES Whole' /\ (FirstOnly /\ FirstOnly' => FirstInv')
  BY <1>2, <1>3 DEF SnapshotInv
<1>6. ASSUME NEW m \in Messages, outQueue' = Send(outQueue, m),
             UNCHANGED <<link, toPy, results, offset, fragment>>,
             m.type = "ack" => \E k \in Conns : link[k] # "unused",
             FirstOnly /\ RefreshAck(m) =>
               \A k \in Conns : link[k] = "up" =>
                 m.run \in mirrored \/ Snapshotted(Stream(k), m.run)
      PROVE  Whole' /\ (FirstOnly => FirstInv')
  <2>1. outQueue' = outQueue \/ outQueue' = Append(outQueue, m)
    BY <1>1, <1>4, <1>6, SendRoom DEF SnapshotTypes
  <2>2. Whole'
    BY <1>1, <1>6, <2>1, WholeKept
  <2>3. FirstOnly => FirstInv'
    BY <1>1, <1>4, <1>6, <2>1, FirstAdd
  <2>. QED  BY <2>2, <2>3
<1>7. CASE Connect
  BY <1>7, SnapshotConnect DEF Connect, Whole
<1>8. CASE Disconnect
  <2>1. /\ socket \in Conns /\ link[socket] = "down" /\ link' = link /\ toPy' = toPy
        /\ offset' = FALSE /\ fragment' = {}
    BY <1>1, <1>8 DEF Disconnect, TypeOK, LuaTypeOK
  <2>2. \A k \in Conns : link'[k] # "up"
    BY <1>1, <2>1 DEF WriterInv, SocketIsNewest
  <2>3. FirstOnly => FirstInv'
    BY <1>1, <1>4, <2>1, <2>2, FirstDown DEF FirstInv, HeardTold
  <2>. QED  BY <2>1, <2>3 DEF Whole
<1>9. CASE ReplayResult
  <2>1. PICK i \in DOMAIN results : outQueue' = Send(outQueue, results[i])
    BY <1>9 DEF ReplayResult
  <2>2. UNCHANGED <<link, toPy, results, offset, fragment>> /\ socket \in Conns
        /\ socket # NoConn
    BY <1>1, <1>9 DEF ReplayResult, TypeOK, LuaTypeOK
  <2>3. link[socket] # "unused"
    BY <1>1, <2>2 DEF WriterInv, SocketIsNewest
  <2>4. i \in 1..Len(results) /\ results[i] \in Messages
    BY <1>1, <2>1 DEF SnapshotTypes, Messages
  <2>5. FirstOnly /\ RefreshAck(results[i]) =>
          \A k \in Conns : link[k] = "up" =>
            results[i].run \in mirrored \/ Snapshotted(Stream(k), results[i].run)
    BY <1>1, <2>4 DEF FirstInv, ResultsTold
  <2>. QED  BY <1>6, <2>1, <2>2, <2>3, <2>4, <2>5
<1>10. CASE ExecuteCommand
  <2>1. FirstOnly => FirstInv' /\ Whole'
    BY <1>10, SnapshotExecute
  <2>2. Whole'
    <3>. DEFINE c == Head(toLua[socket])
                ack == Reply("ack", c, mission, Len(effects) + 1, now)
                snapshot == Reply("snapshot", c, mission, Len(effects) + 1, now)
    <3>1. ack \in Messages /\ snapshot \in Messages
      <4>1. c \in Commands /\ mission \in Nat /\ now \in Nat /\ Len(effects) + 1 \in Nat
        BY <1>1, <1>10 DEF ExecuteCommand, TypeOK, WireTypeOK, LuaTypeOK
      <4>. HIDE DEF c
      <4>. QED  BY <4>1, MessagesTyped
    <3>2. /\ \/ outQueue' = Send(Send(outQueue, snapshot), ack)
             \/ outQueue' = Send(outQueue, ack)
          /\ UNCHANGED <<offset, fragment>>
      BY <1>10 DEF ExecuteCommand
    <3>. HIDE DEF ack, snapshot
    <3>. DEFINE q == Send(outQueue, snapshot)
    <3>3. q = outQueue \/ q = Append(outQueue, snapshot)
      BY <1>1, <1>4, SendRoom DEF SnapshotTypes
    <3>4. /\ q \in Seq(Messages) /\ Len(q) < MaxOutQueueMessages
          /\ outQueue # <<>> => q # <<>> /\ Head(q) = Head(outQueue)
      <4>1. CASE q = outQueue
        BY <1>1, <1>4, <4>1 DEF SnapshotTypes
      <4>2. CASE q = Append(outQueue, snapshot)
        BY <1>1, <3>1, <4>2, HeadTailAppend DEF SnapshotTypes, HasRoom
      <4>. QED  BY <3>3, <4>1, <4>2
    <3>. HIDE DEF q
    <3>5. \/ outQueue' = q \/ outQueue' = Append(q, ack)
          \/ outQueue' = outQueue \/ outQueue' = Append(outQueue, ack)
      BY <1>1, <1>4, <3>2, <3>4, SendRoom DEF SnapshotTypes, q
    <3>6. outQueue # <<>> => outQueue' # <<>> /\ Head(outQueue') = Head(outQueue)
      <4>1. ASSUME NEW s \in Seq(Messages), s # <<>>
            PROVE  Append(s, ack) # <<>> /\ Head(Append(s, ack)) = Head(s)
        BY <3>1, <4>1, HeadTailAppend
      <4>2. outQueue \in Seq(Messages)
        BY <1>1 DEF SnapshotTypes
      <4>. QED  BY <3>4, <3>5, <4>1, <4>2
    <3>. QED  BY <1>1, <3>2, <3>6 DEF Whole
  <2>. QED  BY <2>1, <2>2
<1>11. CASE FlushMessage
  BY <1>11, SnapshotFlush DEF FlushMessage, Whole
<1>12. CASE FlushPart
  <2>1. /\ UNCHANGED <<link, toPy, outQueue, results>> /\ ~offset /\ outQueue # <<>>
        /\ offset' = TRUE /\ fragment' = IF fragment = {} THEN {Head(outQueue)} ELSE fragment
    BY <1>12 DEF FlushPart, wireVars
  <2>2. Whole'
    BY <1>1, <2>1 DEF Whole
  <2>3. FirstOnly => FirstInv'
    BY <1>1, <1>4, <2>1
       DEF FirstInv, HeardTold, StreamTold, ResultsTold, SilentBefore, RepliesMirrored, Stream
  <2>. QED  BY <2>2, <2>3
<1>13. CASE SendHeartbeat
  <2>1. Heartbeat(mission, now) \in Messages
    BY <1>1, MessagesTyped DEF TypeOK, LuaTypeOK
  <2>2. Heartbeat(mission, now).type = "heartbeat"
    BY DEF Heartbeat
  <2>. QED  BY <1>6, <1>13, <2>1, <2>2 DEF SendHeartbeat, wireVars, RefreshAck
<1>14. ASSUME NEW e \in Events, SendEvent(e)
       PROVE  Whole' /\ (FirstOnly /\ FirstOnly' => FirstInv')
  <2>1. EventMessage(e, mission, now) \in Messages
    BY <1>1, MessagesTyped DEF TypeOK, LuaTypeOK, EventNames
  <2>2. EventMessage(e, mission, now).type = "event"
    BY DEF EventMessage
  <2>. QED  BY <1>6, <1>14, <2>1, <2>2 DEF SendEvent, wireVars, RefreshAck
<1>15. CASE AdvanceClock
  <2>1. UNCHANGED <<link, toPy, outQueue, results, offset, fragment>>
    BY <1>15 DEF AdvanceClock, wireVars
  <2>. QED
    BY <1>1, <1>4, <2>1
       DEF Whole, FirstInv, HeardTold, StreamTold, ResultsTold, SilentBefore,
           RepliesMirrored, Stream
<1>16. CASE RestartMission
  <2>1. offset' = FALSE /\ fragment' = {}
    BY <1>16, Zenon DEF RestartMission
  <2>. QED  BY <1>16, <2>1, SnapshotRestart DEF Whole
<1>. QED
  BY <1>7, <1>8, <1>9, <1>10, <1>11, <1>12, <1>13, <1>14, <1>15, <1>16 DEF LuaNext


\* Connections that go down leave a part of what was under way.
LEMMA FirstCut ==
  ASSUME FirstInv, UNCHANGED <<outQueue, results, mirrored, call, reply>>,
         \A k \in Conns : link'[k] = "up" => link[k] = "up" /\ toPy'[k] = toPy[k],
         \A k \in Conns : link'[k] = "unused" => link[k] = "unused",
         \A k \in Conns : Told(toPy'[k], mirrored)
  PROVE  FirstInv'
<1>1. HeardTold' /\ RepliesMirrored' /\ SilentBefore'
  BY DEF FirstInv, HeardTold, RepliesMirrored, SilentBefore
<1>2. StreamTold' /\ ResultsTold'
  BY DEF FirstInv, StreamTold, ResultsTold, Stream
<1>. QED  BY <1>1, <1>2 DEF FirstInv

LEMMA SnapshotHandle ==
  ASSUME SnapshotInv, FirstInv, NEW k \in Conns, HandleLine(k), UNCHANGED luaVars
  PROVE  FirstInv'
<1>. DEFINE m == Head(toPy[k])
<1>1. SnapshotTypes /\ TypeOK
  BY SnapshotTyped DEF SnapshotInv, WriterInv
<1>2. /\ toPy[k] \in Seq(Lines) /\ toPy[k] # <<>> /\ outQueue \in Seq(Lines)
      /\ \A j \in Conns : toPy'[j] = IF j = k THEN Tail(toPy[k]) ELSE toPy[j]
      /\ UNCHANGED <<outQueue, results, link>>
  BY <1>1 DEF SnapshotTypes, HandleLine, TypeOK, WireTypeOK, luaVars
<1>3. mirrored \subseteq mirrored' /\ (m.type = "snapshot" => m.run \in mirrored')
  <2>1. m = Garbled => m.type # "snapshot"
    BY DEF Garbled
  <2>2. Duplicate(m) => m.type = "event"
    BY DEF Duplicate
  <2>. QED  BY <2>1, <2>2 DEF HandleLine, historyVars
<1>4. \/ UNCHANGED callVars
      \/ MissionBoundary({}) \/ MissionBoundary({m})
      \/ m # Garbled /\ WithinMission(m)
  BY DEF HandleLine
<1>5. HeardTold /\ StreamTold /\ ResultsTold /\ SilentBefore /\ RepliesMirrored
  BY DEF FirstInv
<1>6. Told(Tail(toPy[k]), mirrored') /\ (RefreshAck(m) => m.run \in mirrored)
  <2>1. Told(toPy[k], mirrored)
    BY <1>5 DEF HeardTold
  <2>. QED  BY <1>2, <1>3, <2>1, ToldTail
<1>7. HeardTold'
  BY <1>2, <1>3, <1>5, <1>6, ToldMore DEF HeardTold
<1>8. ASSUME NEW j \in Conns, link[j] = "up"
      PROVE  /\ Told(toPy'[j] \o outQueue, mirrored')
             /\ \A r : Snapshotted(Stream(j), r) =>
                  r \in mirrored' \/ Snapshotted(toPy'[j] \o outQueue, r)
  <2>1. Told(Stream(j), mirrored)
    BY <1>5, <1>8 DEF StreamTold
  <2>2. CASE j # k
    BY <1>2, <1>3, <2>1, <2>2, ToldMore DEF Stream
  <2>3. CASE j = k
    <3>. DEFINE s == toPy[k] \o outQueue
    <3>1. s \in Seq(Lines) /\ s # <<>> /\ Head(s) = m
      BY <1>2, ConcatTail
    <3>2. Tail(toPy[k]) \o outQueue = Tail(s)
      BY <1>2, ConcatTail
    <3>3. Told(s, mirrored) /\ Stream(j) = s
      BY <2>1, <2>3 DEF Stream
    <3>. HIDE DEF s, m
    <3>4. Told(Tail(s), mirrored') /\ \A r : Snapshotted(s, r) => r \in mirrored' \/ Snapshotted(Tail(s), r)
      BY <1>3, <3>1, <3>3, ToldTail
    <3>5. toPy'[j] \o outQueue = Tail(s)
      BY <1>2, <2>3, <3>2
    <3>. QED  BY <3>3, <3>4, <3>5
  <2>. QED  BY <2>2, <2>3
<1>9. StreamTold' /\ ResultsTold'
  <2>1. ASSUME NEW j \in Conns, link'[j] = "up"
        PROVE  /\ Told(Stream(j)', mirrored')
               /\ \A i \in 1..Len(results') : RefreshAck(results'[i]) =>
                    results'[i].run \in mirrored' \/ Snapshotted(Stream(j)', results'[i].run)
    <3>1. link[j] = "up" /\ Stream(j)' = toPy'[j] \o outQueue /\ results' = results
      BY <1>2, <2>1 DEF Stream
    <3>2. \A i \in 1..Len(results) : RefreshAck(results[i]) =>
            results[i].run \in mirrored \/ Snapshotted(Stream(j), results[i].run)
      BY <1>5, <3>1 DEF ResultsTold
    <3>. QED  BY <1>3, <1>8, <3>1, <3>2
  <2>. QED  BY <2>1 DEF StreamTold, ResultsTold
<1>10. SilentBefore'
  BY <1>2, <1>5 DEF SilentBefore
<1>11. RepliesMirrored'
  <2>. SUFFICES ASSUME NEW c \in SnapshotCommands, call'[c] = "acked"
                PROVE  reply'[c] \in mirrored'
    BY DEF RepliesMirrored
  <2>. HIDE DEF m
  <2>1. call[c] = "acked" => reply[c] \in mirrored'
    BY <1>3, <1>5 DEF RepliesMirrored
  <2>2. c \in Commands
    BY WireAssumption
  <2>3. CASE UNCHANGED callVars
    BY <2>1, <2>3 DEF callVars
  <2>4. CASE MissionBoundary({}) \/ MissionBoundary({m})
    <3>1. call' = CallsFailed /\ reply' = reply
      BY <2>4 DEF MissionBoundary
    <3>2. call[c] = "acked"
      BY <2>2, <3>1 DEF CallsFailed
    <3>. QED  BY <2>1, <3>1, <3>2
  <2>5. CASE WithinMission(m) /\ m.type = "ack" /\ Waiting(m.command)
    <3>1. /\ call' = [call EXCEPT ![m.command] = "acked"]
          /\ reply' = [reply EXCEPT ![m.command] = m.run]
      BY <2>5 DEF WithinMission
    <3>2. call \in [Commands -> CallStates] /\ reply \in [Commands -> Nat]
      BY <1>1 DEF TypeOK, ServerTypeOK
    <3>3. CASE c = m.command
      <4>1. m.run \in mirrored
        BY <1>6, <2>5, <3>3 DEF RefreshAck
      <4>2. reply'[c] = m.run
        BY <2>2, <3>1, <3>2, <3>3
      <4>. QED  BY <1>3, <4>1, <4>2
    <3>4. CASE c # m.command
      BY <2>1, <2>2, <3>1, <3>2, <3>4
    <3>. QED  BY <3>3, <3>4
  <2>6. CASE WithinMission(m) /\ ~(m.type = "ack" /\ Waiting(m.command))
    BY <2>3, <2>6 DEF WithinMission
  <2>. QED  BY <1>4, <2>3, <2>4, <2>5, <2>6
<1>. QED  BY <1>7, <1>9, <1>10, <1>11 DEF FirstInv

LEMMA SnapshotStep ==
  ASSUME SnapshotInv, HasRoom, [Next]_vars
  PROVE  SnapshotInv'
<1>1. WriterInv /\ TypeOK /\ SnapshotTypes /\ Whole /\ (FirstOnly => FirstInv)
  BY SnapshotTyped DEF SnapshotInv, WriterInv
<1>2. WriterInv'
  BY <1>1, WriterStep
<1>3. \A k \in Conns : link'[k] = "unused" => link[k] = "unused"
  BY <1>1, NeverUnusedAgain
<1>4. FirstOnly' => FirstOnly
  BY <1>3 DEF FirstOnly
<1>5. CASE LuaNext /\ UNCHANGED serverVars
  BY <1>5, SnapshotLua
<1>6. ASSUME UNCHANGED luaVars, FirstOnly => FirstInv'
      PROVE  SnapshotInv'
  <2>1. Whole'
    BY <1>1, <1>6 DEF Whole, luaVars
  <2>. QED  BY <1>2, <1>4, <1>6, <2>1 DEF SnapshotInv
<1>7. ASSUME NEW k \in Conns, NEW s, Told(toPy[k], mirrored) => Told(s, mirrored),
             toPy' = [toPy EXCEPT ![k] = s], link' = [link EXCEPT ![k] = "down"],
             UNCHANGED <<luaVars, mirrored, call, reply>>
      PROVE  SnapshotInv'
  <2>1. \A j \in Conns : /\ link'[j] = IF j = k THEN "down" ELSE link[j]
                         /\ toPy'[j] = IF j = k THEN s ELSE toPy[j]
    BY <1>1, <1>7 DEF TypeOK, WireTypeOK
  <2>2. FirstOnly => FirstInv'
    <3>1. FirstInv => \A j \in Conns : Told(toPy'[j], mirrored)
      BY <1>7, <2>1 DEF FirstInv, HeardTold
    <3>2. UNCHANGED <<outQueue, results, mirrored, call, reply>>
      BY <1>7 DEF luaVars
    <3>3. \A j \in Conns : link'[j] = "up" => link[j] = "up" /\ toPy'[j] = toPy[j]
      BY <2>1
    <3>. QED  BY <1>1, <1>3, <3>1, <3>2, <3>3, FirstCut
  <2>. QED  BY <1>6, <1>7, <2>2
<1>8. ASSUME NEW k \in Conns, Break(k), UNCHANGED <<luaVars, serverVars>>
      PROVE  SnapshotInv'
  <2>1. PICK s \in Arriving(toPy[k]) : toPy' = [toPy EXCEPT ![k] = s]
    BY <1>8 DEF Break
  <2>2. Told(toPy[k], mirrored) => Told(s, mirrored)
    BY <1>1, <2>1, ToldPrefix DEF SnapshotTypes
  <2>. QED  BY <1>7, <1>8, <2>1, <2>2 DEF Break, serverVars
<1>9. ASSUME NEW k \in Conns, AcceptConnection(k), UNCHANGED luaVars
      PROVE  SnapshotInv'
  <2>1. UNCHANGED <<mirrored, call, reply>>
    BY <1>9 DEF AcceptConnection, callVars, historyVars
  <2>2. CASE writer = NoConn
    <3>1. link' = link /\ toPy' = toPy
      BY <1>9, <2>2 DEF AcceptConnection, wireVars
    <3>. QED
      BY <1>1, <1>6, <1>9, <2>1, <3>1
         DEF FirstInv, HeardTold, StreamTold, ResultsTold, SilentBefore, RepliesMirrored,
             Stream, luaVars
  <2>3. CASE writer # NoConn
    <3>1. writer \in Conns
      BY <1>1, <2>3 DEF TypeOK, ServerTypeOK
    <3>2. PICK s \in Arriving(toPy[writer]) : toPy' = [toPy EXCEPT ![writer] = s]
      BY <1>9, <2>3 DEF AcceptConnection
    <3>3. Told(toPy[writer], mirrored) => Told(s, mirrored)
      BY <1>1, <3>1, <3>2, ToldPrefix DEF SnapshotTypes
    <3>4. link' = [link EXCEPT ![writer] = "down"]
      BY <1>9, <2>3 DEF AcceptConnection
    <3>. QED  BY <1>7, <1>9, <2>1, <3>1, <3>2, <3>3, <3>4
  <2>. QED  BY <2>2, <2>3
<1>10. ASSUME NEW k \in Conns, HandleLine(k), UNCHANGED luaVars
       PROVE  SnapshotInv'
  BY <1>1, <1>6, <1>10, SnapshotHandle
<1>11. ASSUME UNCHANGED <<luaVars, link, toPy, mirrored, reply>>,
              \A c \in Commands : call'[c] = "acked" => call[c] = "acked"
       PROVE  SnapshotInv'
  <2>1. SnapshotCommands \subseteq Commands
    BY WireAssumption
  <2>2. FirstOnly => FirstInv'
    BY <1>1, <1>11, <2>1
       DEF FirstInv, HeardTold, StreamTold, ResultsTold, SilentBefore, RepliesMirrored,
           Stream, luaVars
  <2>. QED  BY <1>6, <1>11, <2>2
<1>12. ASSUME NEW k \in Conns, ResendCommand(k) \/ CloseConnection(k), UNCHANGED luaVars
       PROVE  SnapshotInv'
  BY <1>11, <1>12 DEF ResendCommand, CloseConnection, wireVars, callVars, historyVars
<1>13. ASSUME NEW c \in Commands, SendCommand(c) \/ TimeOut(c), UNCHANGED luaVars
       PROVE  SnapshotInv'
  <2>1. \E s \in {"waiting", "timed_out"} : call' = [call EXCEPT ![c] = s]
    BY <1>13 DEF SendCommand, TimeOut
  <2>2. \A d \in Commands : call'[d] = "acked" => call[d] = "acked"
    BY <1>1, <2>1 DEF TypeOK, ServerTypeOK
  <2>3. UNCHANGED <<link, toPy, mirrored, reply>>
    BY <1>13 DEF SendCommand, TimeOut, wireVars, historyVars
  <2>. QED  BY <1>11, <1>13, <2>2, <2>3
<1>14. CASE UNCHANGED vars
  BY <1>11, <1>14 DEF vars, wireVars, serverVars
<1>. QED
  BY <1>5, <1>8, <1>9, <1>10, <1>12, <1>13, <1>14 DEF Next, ServerNext, Network

LEMMA SnapshotStart == Init => SnapshotInv
<1>1. Init => /\ toPy = [k \in Conns |-> <<>>] /\ link = [k \in Conns |-> "unused"]
              /\ outQueue = <<>> /\ results = <<>> /\ offset = FALSE /\ fragment = {}
              /\ call = [c \in Commands |-> "idle"]
  BY DEF Init, WireInit, LuaInit, ServerInit
<1>2. Init => Whole /\ StreamTold /\ ResultsTold /\ SilentBefore
  BY <1>1 DEF Whole, StreamTold, ResultsTold, SilentBefore
<1>3. Init => HeardTold
  <2>1. \A R : Told(<<>>, R)
    BY DEF Told
  <2>. QED  BY <1>1, <2>1 DEF HeardTold
<1>4. Init => RepliesMirrored
  BY <1>1, WireAssumption DEF RepliesMirrored
<1>. QED  BY <1>2, <1>3, <1>4, WriterStart DEF SnapshotInv, FirstInv

\* Unless the queue fills up, a snapshot command's call returns with the mirror
\* refreshed, as long as the first connection has lasted.
THEOREM SnapshotBeforeReplyHolds == Spec /\ []HasRoom => []SnapshotBeforeReply
<1>1. Init => SnapshotInv
  BY SnapshotStart
<1>2. SnapshotInv /\ HasRoom /\ [Next]_vars => SnapshotInv'
  BY SnapshotStep
<1>3. SnapshotInv => SnapshotBeforeReply
  BY DEF SnapshotInv, FirstInv, FirstOnly, RepliesMirrored, SnapshotBeforeReply
<1>. QED  BY <1>1, <1>2, <1>3, PTL DEF Spec


-----------------------------------------------------------------------------
(* Events of one mission after another.                                     *)

\* The lines whose event, if they carry one, is of mission n; the missions of
\* the events in s.
LinesOf(n) == {m \in Lines : m.type = "event" => m.mission = n}
Missions(s) == {s[i].mission : i \in {h \in 1..Len(s) : s[h].type = "event"}}

\* What Lua keeps is of the mission that runs, and so is what it sends; earlier
\* connections carry no later missions, and none is earlier than what the daemon
\* has applied.
QueueOfMission == outQueue \in Seq(LinesOf(mission)) /\ journal \in Seq(LinesOf(mission))
UnusedIsEmpty == \A k \in Conns : link[k] = "unused" => toPy[k] = <<>>
SentOfMission ==
  \A k \in Conns : \A x \in Missions(toPy[k]) :
    x <= mission /\ (link[k] = "up" => x = mission)
SentInOrder ==
  \A j, k \in Conns : j <= k =>
    \A x \in Missions(toPy[j]), y \in Missions(toPy[k]) : x <= y
AppliedBeforeSent ==
  \A i \in 1..Len(applied) :
    /\ applied[i].mission <= mission
    /\ \A k \in Conns : \A x \in Missions(toPy[k]) : applied[i].mission <= x

MissionInv ==
  /\ WriterInv /\ QueueOfMission /\ UnusedIsEmpty /\ SentOfMission /\ SentInOrder
  /\ AppliedBeforeSent /\ MissionsInOrder

LEMMA MissionsOf ==
  /\ Missions(<<>>) = {}
  /\ \A s \in Seq(Lines) : \A t \in Arriving(s) : Missions(t) \subseteq Missions(s)
  /\ \A n : \A s \in Seq(LinesOf(n)) : Missions(s) \subseteq {n}
<1>1. Missions(<<>>) = {}
  BY DEF Missions
<1>2. ASSUME NEW s \in Seq(Lines), NEW t \in Arriving(s)
      PROVE  Missions(t) \subseteq Missions(s)
  <2>1. PICK n \in 0..Len(s) : t = SubSeq(s, 1, n)
    BY <1>2 DEF Arriving
  <2>2. Len(t) = n /\ \A i \in 1..n : t[i] = s[i] /\ i \in 1..Len(s)
    BY <2>1
  <2>. QED  BY <2>2 DEF Missions
<1>3. ASSUME NEW n, NEW s \in Seq(LinesOf(n))
      PROVE  Missions(s) \subseteq {n}
  <2>1. \A i \in 1..Len(s) : s[i] \in LinesOf(n)
    BY ElementOfSeq
  <2>. QED  BY <2>1 DEF Missions, LinesOf
<1>. QED  BY <1>1, <1>2, <1>3

LEMMA MissionsConcat ==
  ASSUME NEW s \in Seq(Lines), NEW t \in Seq(Lines)
  PROVE  Missions(s \o t) \subseteq Missions(s) \cup Missions(t)
<1>. DEFINE a == s \o t
<1>1. /\ Len(s) \in Nat /\ Len(t) \in Nat /\ Len(a) = Len(s) + Len(t)
      /\ \A i \in 1..Len(a) : a[i] = IF i <= Len(s) THEN s[i] ELSE t[i - Len(s)]
  OBVIOUS
<1>. HIDE DEF a
<1>2. \A i \in 1..Len(a) : \/ i \in 1..Len(s) /\ a[i] = s[i]
                           \/ i - Len(s) \in 1..Len(t) /\ a[i] = t[i - Len(s)]
  BY <1>1
<1>3. Missions(a) \subseteq Missions(s) \cup Missions(t)
  BY <1>2 DEF Missions
<1>. QED  BY <1>3 DEF a

LEMMA MissionsTail ==
  ASSUME NEW s \in Seq(Lines), s # <<>>
  PROVE  /\ Missions(Tail(s)) \subseteq Missions(s)
         /\ Head(s).type = "event" => Head(s).mission \in Missions(s)
<1>. DEFINE t == Tail(s)
<1>1. /\ Len(s) \in Nat /\ Len(s) > 0 /\ Len(t) = Len(s) - 1 /\ Head(s) = s[1]
      /\ \A i \in 1..Len(t) : t[i] = s[i + 1] /\ i + 1 \in 1..Len(s)
  OBVIOUS
<1>. HIDE DEF t
<1>2. 1 \in 1..Len(s)
  BY <1>1
<1>3. Missions(t) \subseteq Missions(s)
  BY <1>1 DEF Missions
<1>4. Head(s).type = "event" => Head(s).mission \in Missions(s)
  BY <1>1, <1>2 DEF Missions
<1>. QED  BY <1>3, <1>4 DEF t

\* A step that applies nothing, and adds to the wire only what is of the mission,
\* on the connection that is up.
LEMMA MissionKept ==
  ASSUME MissionInv, WriterInv', applied' = applied, QueueOfMission',
         mission' = mission \/ (mission' = mission + 1 /\ \A k \in Conns : link'[k] # "up"),
         \A k \in Conns : link'[k] = "unused" => link[k] = "unused",
         \A k \in Conns : link'[k] = "up" => link[k] = "up" \/ link[k] = "unused",
         \A k \in Conns : link[k] = "unused" => toPy'[k] = <<>>,
         \A k \in Conns : link[k] # "up" => Missions(toPy'[k]) \subseteq Missions(toPy[k]),
         \A k \in Conns : link[k] = "up" => Missions(toPy'[k]) \subseteq Missions(toPy[k]) \cup {mission}
  PROVE  MissionInv'
<1>1. /\ mission \in Nat /\ applied \in Seq(EventIds) /\ Len(applied) \in Nat
      /\ \A i \in 1..Len(applied) : applied[i].mission \in Nat
  <2>1. mission \in Nat /\ applied \in Seq(EventIds)
    BY DEF MissionInv, WriterInv, TypeOK, LuaTypeOK, ServerTypeOK
  <2>2. \A i \in 1..Len(applied) : applied[i] \in EventIds
    BY <2>1, ElementOfSeq
  <2>. QED  BY <2>1, <2>2 DEF EventIds
<1>2. UnusedIsEmpty' /\ MissionsInOrder'
  BY DEF MissionInv, UnusedIsEmpty, MissionsInOrder
<1>3. \A k \in Conns : \A x \in Missions(toPy'[k]) :
        x \in Missions(toPy[k]) \/ (link[k] = "up" /\ x = mission)
  OBVIOUS
<1>4. \A k \in Conns : Missions(toPy[k]) \subseteq Int
  <2>1. ASSUME NEW k \in Conns
        PROVE  Missions(toPy[k]) \subseteq Int
    <3>1. toPy[k] \in Seq(Lines)
      BY DEF MissionInv, WriterInv, TypeOK, WireTypeOK
    <3>2. \A i \in 1..Len(toPy[k]) : toPy[k][i] \in Lines
      BY <3>1, ElementOfSeq
    <3>3. \A m \in Lines : m.type = "event" => m.mission \in Int
      BY DEF Lines, Messages, Acks, Snapshots, EventMessages, Heartbeats, Garbled
    <3>. QED  BY <3>2, <3>3 DEF Missions
  <2>. QED  BY <2>1
<1>5. SentOfMission'
  <2>1. ASSUME NEW k \in Conns, NEW x \in Missions(toPy'[k])
        PROVE  x <= mission' /\ (link'[k] = "up" => x = mission')
    <3>1. x <= mission /\ x \in Int /\ (link[k] = "up" => x = mission)
      <4>1. CASE link[k] = "up" /\ x = mission
        BY <1>1, <4>1
      <4>2. CASE x \in Missions(toPy[k])
        BY <1>4, <4>2 DEF MissionInv, SentOfMission
      <4>. QED  BY <1>3, <2>1, <4>1, <4>2
    <3>2. link[k] # "unused"
      BY <2>1, MissionsOf
    <3>. QED  BY <1>1, <3>1, <3>2
  <2>. QED  BY <2>1 DEF SentOfMission
<1>6. SentInOrder'
  <2>1. ASSUME NEW j \in Conns, NEW k \in Conns, j <= k,
               NEW x \in Missions(toPy'[j]), NEW y \in Missions(toPy'[k])
        PROVE  x <= y
    <3>1. link[k] # "unused"
      BY <2>1, MissionsOf
    <3>2. x <= mission /\ x \in Int /\ y \in Int
      BY <1>1, <1>3, <1>4, <2>1 DEF MissionInv, SentOfMission
    <3>3. CASE link[k] = "up"
      <4>1. y = mission
        BY <1>3, <2>1, <3>3 DEF MissionInv, SentOfMission
      <4>. QED  BY <3>2, <4>1
    <3>4. CASE link[k] # "up"
      <4>1. y \in Missions(toPy[k])
        BY <2>1, <3>4
      <4>2. link[j] # "up"
        <5>1. j # k => k > j
          BY <2>1, ConnsArithmetic
        <5>. QED  BY <3>1, <3>4, <5>1 DEF MissionInv, WriterInv, SocketIsNewest
      <4>3. x \in Missions(toPy[j])
        BY <2>1, <4>2
      <4>. QED  BY <2>1, <4>1, <4>3 DEF MissionInv, SentInOrder
    <3>. QED  BY <3>3, <3>4
  <2>. QED  BY <2>1 DEF SentInOrder
<1>7. AppliedBeforeSent'
  <2>1. ASSUME NEW i \in 1..Len(applied)
        PROVE  /\ applied[i].mission <= mission'
               /\ \A k \in Conns : \A x \in Missions(toPy'[k]) : applied[i].mission <= x
    <3>1. applied[i].mission <= mission /\ applied[i].mission \in Nat
      BY <1>1 DEF MissionInv, AppliedBeforeSent
    <3>2. applied[i].mission <= mission'
      BY <1>1, <3>1
    <3>3. \A k \in Conns : \A x \in Missions(toPy'[k]) : applied[i].mission <= x
      BY <1>3, <3>1 DEF MissionInv, AppliedBeforeSent
    <3>. QED  BY <3>2, <3>3
  <2>. QED  BY <2>1 DEF AppliedBeforeSent
<1>. QED  BY <1>2, <1>5, <1>6, <1>7 DEF MissionInv

LEMMA QueueMission ==
  ASSUME MissionInv
  PROVE  /\ SnapshotTypes /\ TypeOK /\ mission \in Nat /\ Len(outQueue) <= MaxOutQueueMessages
         /\ \A m \in LinesOf(mission) : Send(outQueue, m) \in Seq(LinesOf(mission))
         /\ \A m \in LinesOf(mission) : Enqueue(outQueue, m) \in Seq(LinesOf(mission))
         /\ Kept(outQueue, DOMAIN outQueue \ Lossy(outQueue)) \in Seq(LinesOf(mission))
         /\ ReplayedQueue \in Seq(LinesOf(mission))
         /\ \A c : {Reply("ack", c, mission, Len(effects) + 1, now),
                    Reply("snapshot", c, mission, Len(effects) + 1, now)} \cap Lines
                      \subseteq LinesOf(mission)
         /\ \A e \in EventNames : EventMessage(e, mission, now) \in LinesOf(mission)
         /\ Heartbeat(mission, now) \in LinesOf(mission)
         /\ \A i \in 1..Len(results) : results[i] \in LinesOf(mission)
<1>1. TypeOK /\ SnapshotTypes
  BY SnapshotTyped DEF MissionInv, WriterInv
<1>2. /\ outQueue \in Seq(LinesOf(mission)) /\ journal \in Seq(LinesOf(mission))
      /\ Len(outQueue) <= MaxOutQueueMessages /\ mission \in Nat /\ now \in Nat
  BY <1>1 DEF MissionInv, QueueOfMission, TypeOK, LuaTypeOK
<1>3. \A m \in LinesOf(mission) : /\ Send(outQueue, m) \in Seq(LinesOf(mission))
                                  /\ Enqueue(outQueue, m) \in Seq(LinesOf(mission))
  BY <1>2, SendTyped, EnqueueTyped
<1>4. /\ Kept(outQueue, DOMAIN outQueue \ Lossy(outQueue)) \in Seq(LinesOf(mission))
      /\ ReplayedQueue \in Seq(LinesOf(mission))
  BY <1>2, RetainedTyped, ReplayedQueueTyped
<1>5. \A c : {Reply("ack", c, mission, Len(effects) + 1, now),
              Reply("snapshot", c, mission, Len(effects) + 1, now)} \cap Lines
                \subseteq LinesOf(mission)
  BY DEF Reply, LinesOf
<1>6. /\ \A e \in EventNames : EventMessage(e, mission, now) \in LinesOf(mission)
      /\ Heartbeat(mission, now) \in LinesOf(mission)
  <2>1. /\ \A e \in EventNames : EventMessage(e, mission, now) \in Lines
        /\ Heartbeat(mission, now) \in Lines
    BY <1>2, MessagesTyped
  <2>2. /\ \A e \in EventNames : EventMessage(e, mission, now).mission = mission
        /\ Heartbeat(mission, now).type # "event"
    BY DEF EventMessage, Heartbeat
  <2>. QED  BY <2>1, <2>2 DEF LinesOf
<1>7. \A i \in 1..Len(results) : results[i] \in LinesOf(mission)
  <2>1. \A i \in 1..Len(results) : results[i] \in Acks
    BY <1>1, ElementOfSeq DEF SnapshotTypes
  <2>. QED  BY <2>1 DEF Acks, LinesOf, Lines, Messages
<1>. QED  BY <1>1, <1>2, <1>3, <1>4, <1>5, <1>6, <1>7

LEMMA GarbledOf == \A n : Garbled \in LinesOf(n)
BY DEF Garbled, LinesOf, Lines

LEMMA LineOfMission ==
  ASSUME NEW n, NEW m \in LinesOf(n)
  PROVE  LineOf(m) \in LinesOf(n)
BY GarbledOf DEF LineOf

\* What one message adds to the wire.
LEMMA MissionsSent ==
  ASSUME MissionInv, NEW t \in Seq(LinesOf(mission)), NEW k \in Conns
  PROVE  Missions(toPy[k] \o t) \subseteq Missions(toPy[k]) \cup {mission}
<1>1. LinesOf(mission) \subseteq Lines
  BY DEF LinesOf
<1>2. t \in Seq(Lines) /\ toPy[k] \in Seq(Lines)
  BY <1>1, SeqMonotone DEF MissionInv, WriterInv, TypeOK, WireTypeOK
<1>. QED  BY <1>2, MissionsConcat, MissionsOf

\* A mission that ends leaves what it sent, and no connection up.
LEMMA RestartWire ==
  ASSUME MissionInv, RestartMission
  PROVE  \A k \in Conns :
           /\ link'[k] # "up"
           /\ link[k] = "unused" => toPy'[k] = <<>>
           /\ link[k] # "up" => Missions(toPy'[k]) \subseteq Missions(toPy[k])
           /\ link[k] = "up" => Missions(toPy'[k]) \subseteq Missions(toPy[k]) \cup {mission}
<1>1. /\ TypeOK
      /\ \A k \in Conns : link[k] = "unused" => toPy[k] = <<>>
  BY DEF MissionInv, WriterInv, UnusedIsEmpty
<1>2. CASE socket = NoConn
  <2>1. link' = link /\ toPy' = toPy
    BY <1>2 DEF RestartMission, wireVars
  <2>2. \A k \in Conns : link[k] # "up"
    BY <1>2, ConnsArithmetic DEF MissionInv, WriterInv, SocketIsNewest
  <2>. QED  BY <1>1, <2>1, <2>2
<1>3. CASE socket # NoConn
  <2>. DEFINE last == Enqueue(outQueue, EventMessage(MissionEnded, mission, now))
              lines == [i \in DOMAIN last |-> IF i = 1 THEN LineOf(last[1]) ELSE last[i]]
  <2>1. socket \in Conns
    BY <1>1, <1>3 DEF TypeOK, LuaTypeOK
  <2>2. link' = [link EXCEPT ![socket] = "down"]
    BY <1>3 DEF RestartMission
  <2>3. PICK s \in IF link[socket] = "up"
                   THEN Arriving(toPy[socket] \o lines) ELSE {toPy[socket]} :
          toPy' = [toPy EXCEPT ![socket] = s]
    <3>. HIDE DEF lines
    <3>. QED  BY <1>3 DEF RestartMission, lines, last
  <2>4. last \in Seq(LinesOf(mission))
    BY QueueMission DEF EventNames
  <2>. HIDE DEF last
  <2>5. lines \in Seq(LinesOf(mission))
    <3>1. \A i \in 1..Len(last) : last[i] \in LinesOf(mission) /\ LineOf(last[i]) \in LinesOf(mission)
      BY <2>4, ElementOfSeq, LineOfMission
    <3>2. \A i \in 1..Len(last) : (IF i = 1 THEN LineOf(last[1]) ELSE last[i]) \in LinesOf(mission)
      BY <3>1
    <3>3. DOMAIN last = 1..Len(last) /\ Len(last) \in Nat
      BY <2>4
    <3>. QED  BY <3>2, <3>3
  <2>. HIDE DEF lines
  <2>6. link[socket] = "up" => Missions(s) \subseteq Missions(toPy[socket]) \cup {mission}
    <3>. SUFFICES ASSUME link[socket] = "up"
                  PROVE  Missions(s) \subseteq Missions(toPy[socket]) \cup {mission}
      OBVIOUS
    <3>1. toPy[socket] \o lines \in Seq(Lines)
      <4>1. LinesOf(mission) \subseteq Lines
        BY DEF LinesOf
      <4>2. lines \in Seq(Lines) /\ toPy[socket] \in Seq(Lines)
        BY <1>1, <2>1, <2>5, <4>1, SeqMonotone DEF TypeOK, WireTypeOK
      <4>. QED  BY <4>2
    <3>2. s \in Arriving(toPy[socket] \o lines)
      BY <2>3
    <3>3. Missions(s) \subseteq Missions(toPy[socket] \o lines)
      BY <3>1, <3>2, MissionsOf
    <3>4. Missions(toPy[socket] \o lines) \subseteq Missions(toPy[socket]) \cup {mission}
      BY <2>1, <2>5, MissionsSent
    <3>. QED  BY <3>3, <3>4
  <2>7. \A k \in Conns : /\ link'[k] = IF k = socket THEN "down" ELSE link[k]
                         /\ toPy'[k] = IF k = socket THEN s ELSE toPy[k]
    BY <1>1, <2>2, <2>3 DEF TypeOK, WireTypeOK
  <2>8. \A k \in Conns : link'[k] # "up"
    BY <2>7 DEF MissionInv, WriterInv, SocketIsNewest
  <2>9. link[socket] # "unused" /\ (link[socket] # "up" => s = toPy[socket])
    BY <2>3, <1>3 DEF MissionInv, WriterInv, SocketIsNewest
  <2>10. \A k \in Conns :
           /\ link[k] = "unused" => toPy'[k] = <<>>
           /\ link[k] # "up" => Missions(toPy'[k]) \subseteq Missions(toPy[k])
           /\ link[k] = "up" => Missions(toPy'[k]) \subseteq Missions(toPy[k]) \cup {mission}
    BY <1>1, <2>6, <2>7, <2>9
  <2>. QED  BY <2>8, <2>10
<1>. QED  BY <1>2, <1>3

LEMMA MissionLua ==
  ASSUME MissionInv, LuaNext, UNCHANGED serverVars
  PROVE  MissionInv'
<1>1. /\ WriterInv' /\ applied' = applied
      /\ \A k \in Conns : link'[k] = "unused" => link[k] = "unused"
  BY WriterLua, NeverUnusedAgain DEF MissionInv, WriterInv, Next, serverVars
<1>2. /\ TypeOK /\ outQueue \in Seq(LinesOf(mission)) /\ journal \in Seq(LinesOf(mission))
      /\ \A k \in Conns : link[k] = "unused" => toPy[k] = <<>>
  BY DEF MissionInv, WriterInv, QueueOfMission, UnusedIsEmpty
<1>3. ASSUME UNCHANGED <<link, toPy, mission>>, QueueOfMission'
      PROVE  MissionInv'
  BY <1>1, <1>2, <1>3, MissionKept
<1>4. CASE Connect
  <2>1. QueueOfMission' /\ mission' = mission /\ toPy' = toPy
    BY <1>2, <1>4, QueueMission DEF Connect, QueueOfMission
  <2>2. \A k \in Conns : link'[k] = "up" => link[k] = "up" \/ link[k] = "unused"
    BY <1>2, <1>4 DEF Connect, TypeOK, WireTypeOK
  <2>. QED  BY <1>1, <1>2, <2>1, <2>2, MissionKept
<1>5. CASE Disconnect
  BY <1>2, <1>3, <1>5, QueueMission DEF Disconnect, QueueOfMission
<1>6. CASE ReplayResult
  <2>1. PICK i \in DOMAIN results : outQueue' = Send(outQueue, results[i])
    BY <1>6 DEF ReplayResult
  <2>2. results[i] \in LinesOf(mission)
    <3>1. results \in Seq(Acks)
      BY <1>2 DEF TypeOK, LuaTypeOK
    <3>2. i \in 1..Len(results)
      BY <2>1, <3>1
    <3>. QED  BY <3>2, QueueMission
  <2>. QED  BY <1>2, <1>3, <1>6, <2>1, <2>2, QueueMission DEF ReplayResult, QueueOfMission
<1>7. CASE ExecuteCommand
  <2>. DEFINE c == Head(toLua[socket])
              ack == Reply("ack", c, mission, Len(effects) + 1, now)
              snapshot == Reply("snapshot", c, mission, Len(effects) + 1, now)
  <2>1. ack \in LinesOf(mission) /\ snapshot \in LinesOf(mission)
    <3>1. c \in Commands /\ mission \in Nat /\ now \in Nat /\ Len(effects) + 1 \in Nat
      BY <1>2, <1>7 DEF ExecuteCommand, TypeOK, WireTypeOK, LuaTypeOK
    <3>. HIDE DEF c
    <3>2. ack \in Lines /\ snapshot \in Lines
      BY <3>1, MessagesTyped
    <3>. QED  BY <3>2, QueueMission
  <2>2. /\ outQueue' = Send(Send(outQueue, snapshot), ack) \/ outQueue' = Send(outQueue, ack)
        /\ UNCHANGED <<link, toPy, mission, journal>>
    BY <1>7 DEF ExecuteCommand
  <2>. HIDE DEF ack, snapshot
  <2>3. Send(outQueue, snapshot) \in Seq(LinesOf(mission)) /\ Send(outQueue, ack) \in Seq(LinesOf(mission))
        /\ Len(Send(outQueue, snapshot)) <= MaxOutQueueMessages
    <3>1. Len(outQueue) <= MaxOutQueueMessages
      BY <1>2 DEF TypeOK, LuaTypeOK
    <3>. QED  BY <1>2, <2>1, <3>1, SendTyped
  <2>4. outQueue' \in Seq(LinesOf(mission))
    BY <2>1, <2>2, <2>3, SendTyped
  <2>. QED  BY <1>2, <1>3, <2>2, <2>4 DEF QueueOfMission
<1>8. CASE FlushMessage
  <2>1. /\ toPy' = SendToPy(socket, <<LineOf(Head(outQueue))>>) /\ outQueue' = Tail(outQueue)
        /\ outQueue # <<>> /\ socket \in Conns /\ UNCHANGED <<link, mission, journal>>
    BY <1>2, <1>8 DEF FlushMessage, TypeOK, LuaTypeOK
  <2>2. Head(outQueue) \in LinesOf(mission) /\ Tail(outQueue) \in Seq(LinesOf(mission))
    BY <1>2, <2>1
  <2>3. <<LineOf(Head(outQueue))>> \in Seq(LinesOf(mission))
    <3>1. LineOf(Head(outQueue)) \in LinesOf(mission)
      BY <2>2, LineOfMission
    <3>. QED  BY <3>1
  <2>4. QueueOfMission'
    BY <1>2, <2>1, <2>2 DEF QueueOfMission
  <2>5. \A k \in Conns :
          toPy'[k] = IF link[k] = "up" /\ k = socket
                     THEN toPy[k] \o <<LineOf(Head(outQueue))>> ELSE toPy[k]
    BY <1>2, <2>1 DEF SendToPy, TypeOK, WireTypeOK
  <2>6. \A k \in Conns : Missions(toPy[k] \o <<LineOf(Head(outQueue))>>)
                           \subseteq Missions(toPy[k]) \cup {mission}
    BY <2>3, MissionsSent
  <2>7. /\ \A k \in Conns : link[k] = "unused" => toPy'[k] = <<>>
        /\ \A k \in Conns : link[k] # "up" => Missions(toPy'[k]) \subseteq Missions(toPy[k])
        /\ \A k \in Conns : link[k] = "up" => Missions(toPy'[k]) \subseteq Missions(toPy[k]) \cup {mission}
    BY <1>2, <2>5, <2>6
  <2>. QED  BY <1>1, <2>1, <2>4, <2>7, MissionKept
<1>9. CASE FlushPart
  BY <1>2, <1>3, <1>9 DEF FlushPart, wireVars, QueueOfMission
<1>10. CASE SendHeartbeat
  BY <1>2, <1>3, <1>10, QueueMission DEF SendHeartbeat, wireVars, QueueOfMission
<1>11. ASSUME NEW e \in Events, SendEvent(e)
       PROVE  MissionInv'
  <2>. DEFINE m == EventMessage(e, mission, now)
  <2>1. m \in LinesOf(mission)
    BY QueueMission DEF EventNames
  <2>2. /\ journal' = journal \/ journal' = Remember(m)
        /\ outQueue' = Send(outQueue, m) /\ UNCHANGED <<link, toPy, mission>>
    BY <1>11 DEF SendEvent, wireVars
  <2>. HIDE DEF m
  <2>3. Remember(m) \in Seq(LinesOf(mission))
    <3>1. Append(journal, m) \in Seq(LinesOf(mission)) /\ ReliableEventJournalLimit \in Nat
      BY <1>2, <2>1, MooseBridgeAssumption
    <3>. QED  BY <3>1, LastNProperties DEF Remember
  <2>4. QueueOfMission'
    BY <1>2, <2>1, <2>2, <2>3, QueueMission DEF QueueOfMission
  <2>. QED  BY <1>3, <2>2, <2>4
<1>12. CASE AdvanceClock
  BY <1>2, <1>3, <1>12 DEF AdvanceClock, wireVars, QueueOfMission
<1>13. CASE RestartMission
  <2>1. outQueue' = <<>> /\ journal' = <<>> /\ mission' = mission + 1
    BY <1>13, Zenon DEF RestartMission
  <2>2. QueueOfMission'
    BY <2>1 DEF QueueOfMission
  <2>. QED  BY <1>1, <1>2, <1>13, <2>1, <2>2, RestartWire, MissionKept
<1>. QED
  BY <1>4, <1>5, <1>6, <1>7, <1>8, <1>9, <1>10, <1>11, <1>12, <1>13 DEF LuaNext


\* The event the daemon applies is no earlier than those before it, and no later
\* than any that is under way.
LEMMA MissionApply ==
  ASSUME MissionInv, WriterInv', NEW k \in Conns, HandleLine(k), UNCHANGED luaVars
  PROVE  MissionInv'
<1>. DEFINE m == Head(toPy[k])
<1>1. /\ toPy \in [Conns -> Seq(Lines)] /\ toPy[k] # <<>> /\ toPy[k] \in Seq(Lines)
      /\ toPy' = [toPy EXCEPT ![k] = Tail(@)] /\ link' = link /\ EarlierDrained(k)
      /\ UNCHANGED <<mission, outQueue, journal, socket>>
      /\ mission \in Nat /\ applied \in Seq(EventIds)
  BY DEF HandleLine, MissionInv, WriterInv, TypeOK, WireTypeOK, LuaTypeOK, ServerTypeOK, luaVars
<1>2. \A j \in Conns : toPy'[j] = IF j = k THEN Tail(toPy[k]) ELSE toPy[j]
  BY <1>1
<1>3. \A j \in Conns : Missions(toPy'[j]) \subseteq Missions(toPy[j])
  BY <1>1, <1>2, MissionsTail
<1>4. \/ applied' = applied
      \/ m.type = "event" /\ applied' = Append(applied, EventId(m))
  BY DEF HandleLine, historyVars
<1>5. QueueOfMission' /\ UnusedIsEmpty'
  BY <1>1, <1>2 DEF MissionInv, QueueOfMission, UnusedIsEmpty
<1>6. SentOfMission' /\ SentInOrder'
  BY <1>1, <1>3 DEF MissionInv, SentOfMission, SentInOrder
<1>7. CASE applied' = applied
  <2>1. AppliedBeforeSent' /\ MissionsInOrder'
    BY <1>1, <1>3, <1>7 DEF MissionInv, AppliedBeforeSent, MissionsInOrder
  <2>. QED  BY <1>5, <1>6, <2>1 DEF MissionInv
<1>8. CASE m.type = "event" /\ applied' = Append(applied, EventId(m))
  <2>. DEFINE n == m.mission
              L == Len(applied)
  <2>1. n \in Missions(toPy[k]) /\ EventId(m).mission = n
    BY <1>1, <1>8, MissionsTail DEF EventId
  <2>2. n <= mission /\ \A i \in 1..L : applied[i].mission <= n
    BY <2>1 DEF MissionInv, SentOfMission, AppliedBeforeSent
  <2>3. \A j \in Conns : \A x \in Missions(toPy'[j]) : n <= x
    <3>1. ASSUME NEW j \in Conns, NEW x \in Missions(toPy'[j])
          PROVE  n <= x
      <4>1. x \in Missions(toPy[j])
        BY <1>3, <3>1
      <4>2. j < k => toPy[j] = <<>>
        BY <1>1 DEF EarlierDrained
      <4>3. ~(j < k)
        BY <4>1, <4>2, MissionsOf
      <4>4. k <= j
        BY <4>3, ConnsArithmetic
      <4>. QED  BY <2>1, <4>1, <4>4 DEF MissionInv, SentInOrder
    <3>. QED  BY <3>1
  <2>. HIDE DEF m, n
  <2>4. /\ L \in Nat /\ Len(applied') = L + 1
        /\ \A i \in 1..L : applied'[i] = applied[i]
        /\ applied'[L + 1].mission = n
        /\ DOMAIN applied = 1..L /\ DOMAIN applied' = 1..(L + 1)
    BY <1>1, <1>8, <2>1
  <2>. HIDE DEF L
  <2>5. \A i \in 1..(L + 1) : i \in 1..L \/ i = L + 1
    BY <2>4
  <2>6. AppliedBeforeSent'
    <3>1. ASSUME NEW i \in 1..(L + 1)
          PROVE  /\ applied'[i].mission <= mission
                 /\ \A j \in Conns : \A x \in Missions(toPy'[j]) : applied'[i].mission <= x
      <4>1. CASE i = L + 1
        BY <2>2, <2>3, <2>4, <4>1
      <4>2. CASE i \in 1..L
        BY <1>3, <2>4, <4>2 DEF MissionInv, AppliedBeforeSent, L
      <4>. QED  BY <2>5, <3>1, <4>1, <4>2
    <3>. QED  BY <1>1, <2>4, <3>1 DEF AppliedBeforeSent
  <2>7. MissionsInOrder'
    <3>1. ASSUME NEW i \in 1..(L + 1), NEW j \in 1..(L + 1), i < j
          PROVE  applied'[i].mission <= applied'[j].mission
      <4>1. i \in 1..L
        BY <2>4, <3>1
      <4>2. CASE j = L + 1
        BY <2>2, <2>4, <4>1, <4>2 DEF L
      <4>3. CASE j \in 1..L
        BY <2>4, <3>1, <4>1, <4>3 DEF MissionInv, MissionsInOrder
      <4>. QED  BY <2>5, <3>1, <4>2, <4>3
    <3>. QED  BY <2>4, <3>1 DEF MissionsInOrder
  <2>. QED  BY <1>5, <1>6, <2>6, <2>7 DEF MissionInv
<1>. QED  BY <1>4, <1>7, <1>8

LEMMA MissionStep == MissionInv /\ [Next]_vars => MissionInv'
<1>. SUFFICES ASSUME MissionInv, [Next]_vars
              PROVE  MissionInv'
  OBVIOUS
<1>1. /\ WriterInv /\ WriterInv' /\ TypeOK
      /\ \A k \in Conns : link'[k] = "unused" => link[k] = "unused"
      /\ \A k \in Conns : link[k] = "unused" => toPy[k] = <<>>
  BY WriterStep, NeverUnusedAgain DEF MissionInv, WriterInv, UnusedIsEmpty
<1>2. CASE LuaNext /\ UNCHANGED serverVars
  BY <1>2, MissionLua
<1>3. ASSUME UNCHANGED <<luaVars, applied>>,
             toPy' = toPy \/ \E k \in Conns : \E s \in Arriving(toPy[k]) :
                               toPy' = [toPy EXCEPT ![k] = s],
             \A k \in Conns : link'[k] = "up" => link[k] = "up"
      PROVE  MissionInv'
  <2>1. QueueOfMission' /\ mission' = mission
    BY <1>3 DEF luaVars, MissionInv, QueueOfMission
  <2>2. \A k \in Conns : toPy[k] \in Seq(Lines)
    BY <1>1 DEF TypeOK, WireTypeOK
  <2>3. \A k \in Conns : toPy'[k] = toPy[k] \/ toPy'[k] \in Arriving(toPy[k])
    BY <1>1, <1>3 DEF TypeOK, WireTypeOK
  <2>4. \A k \in Conns : Missions(toPy'[k]) \subseteq Missions(toPy[k])
    BY <2>2, <2>3, MissionsOf
  <2>5. \A k \in Conns : link[k] = "unused" => toPy'[k] = <<>>
    <3>1. \A s \in Arriving(<<>>) : s = <<>>
      BY DEF Arriving
    <3>. QED  BY <1>1, <2>3, <3>1
  <2>. QED  BY <1>1, <1>3, <2>1, <2>4, <2>5, MissionKept
<1>4. ASSUME NEW k \in Conns, Break(k), UNCHANGED <<luaVars, serverVars>>
      PROVE  MissionInv'
  <2>1. \E s \in Arriving(toPy[k]) : toPy' = [toPy EXCEPT ![k] = s]
    BY <1>4 DEF Break
  <2>2. \A j \in Conns : link'[j] = "up" => link[j] = "up"
    BY <1>1, <1>4 DEF Break, TypeOK, WireTypeOK
  <2>. QED  BY <1>3, <1>4, <2>1, <2>2 DEF serverVars
<1>5. ASSUME NEW k \in Conns, AcceptConnection(k), UNCHANGED luaVars
      PROVE  MissionInv'
  <2>1. applied' = applied
    BY <1>5 DEF AcceptConnection, historyVars
  <2>2. CASE writer = NoConn
    BY <1>3, <1>5, <2>1, <2>2 DEF AcceptConnection, wireVars
  <2>3. CASE writer # NoConn
    <3>1. writer \in Conns
      BY <1>1, <2>3 DEF TypeOK, ServerTypeOK
    <3>2. \E s \in Arriving(toPy[writer]) : toPy' = [toPy EXCEPT ![writer] = s]
      BY <1>5, <2>3 DEF AcceptConnection
    <3>3. link' = [link EXCEPT ![writer] = "down"]
      BY <1>5, <2>3 DEF AcceptConnection
    <3>4. \A j \in Conns : link'[j] = "up" => link[j] = "up"
      BY <1>1, <3>3 DEF TypeOK, WireTypeOK
    <3>. QED  BY <1>3, <1>5, <2>1, <3>1, <3>2, <3>4
  <2>. QED  BY <2>2, <2>3
<1>6. ASSUME UNCHANGED <<luaVars, applied, toPy, link>>
      PROVE  MissionInv'
  BY <1>3, <1>6
<1>7. ASSUME NEW k \in Conns, ResendCommand(k) \/ CloseConnection(k), UNCHANGED luaVars
      PROVE  MissionInv'
  BY <1>6, <1>7 DEF ResendCommand, CloseConnection, wireVars, historyVars
<1>8. ASSUME NEW k \in Conns, HandleLine(k), UNCHANGED luaVars
      PROVE  MissionInv'
  BY <1>1, <1>8, MissionApply
<1>9. ASSUME NEW c \in Commands, SendCommand(c) \/ TimeOut(c), UNCHANGED luaVars
      PROVE  MissionInv'
  BY <1>6, <1>9 DEF SendCommand, TimeOut, wireVars, historyVars
<1>10. CASE UNCHANGED vars
  BY <1>6, <1>10 DEF vars, wireVars, serverVars
<1>. QED
  BY <1>2, <1>4, <1>5, <1>7, <1>8, <1>9, <1>10 DEF Next, ServerNext, Network

LEMMA MissionStart == Init => MissionInv
<1>. SUFFICES ASSUME Init PROVE MissionInv
  OBVIOUS
<1>1. /\ toPy = [k \in Conns |-> <<>>] /\ outQueue = <<>> /\ journal = <<>> /\ applied = <<>>
  BY DEF Init, WireInit, LuaInit, ServerInit
<1>2. \A k \in Conns : Missions(toPy[k]) = {}
  BY <1>1, MissionsOf
<1>3. QueueOfMission /\ UnusedIsEmpty /\ SentOfMission /\ SentInOrder
  BY <1>1, <1>2 DEF QueueOfMission, UnusedIsEmpty, SentOfMission, SentInOrder
<1>4. AppliedBeforeSent /\ MissionsInOrder
  BY <1>1 DEF AppliedBeforeSent, MissionsInOrder
<1>. QED  BY <1>3, <1>4, WriterStart DEF MissionInv

\* The daemon applies no event of a mission after one of a later mission, whatever
\* the limits: what a superseded connection still carries is handled first.
THEOREM MissionsStayInOrder == Spec => []MissionsInOrder
<1>1. MissionInv => MissionsInOrder
  BY DEF MissionInv
<1>. QED  BY <1>1, MissionStart, MissionStep, PTL DEF Spec


-----------------------------------------------------------------------------
(* Reliable events in the order they were raised.                           *)

Shows(m, n, e) == m.type = "event" /\ m.mission = n /\ m.event = e

\* Of the events raised before the b-th, r being those raised in mission n, the
\* reliable ones are in H or shown by s before position i.
Caught(s, i, b, H, n, r) ==
  \A a \in 1..(b - 1) : r[a] \in ReliableEvents =>
    r[a] \in H \/ \E h \in 1..(i - 1) : Shows(s[h], n, r[a])

\* In s a reliable event comes after those that were raised before it; s shows
\* every reliable event.
Ordered(s, H, n, r) ==
  \A i \in 1..Len(s) : s[i].type = "event" /\ s[i].mission = n /\ s[i].event \in ReliableEvents =>
    \E b \in 1..Len(r) : r[b] = s[i].event /\ Caught(s, i, b, H, n, r)
Full(s, H, n, r) == Caught(s, Len(s) + 1, Len(r) + 1, H, n, r)

\* The lines whose event, if it is a reliable one, is in r.
LinesIn(r) ==
  {m \in Lines : m.type = "event" /\ m.event \in ReliableEvents =>
                   \E b \in 1..Len(r) : r[b] = m.event}

LEMMA CaughtSame ==
  ASSUME NEW s, NEW t, NEW i, NEW b, NEW H, NEW Q, NEW n, NEW r, H \subseteq Q,
         Caught(s, i, b, H, n, r), \A h \in 1..(i - 1) : t[h] = s[h]
  PROVE  Caught(t, i, b, Q, n, r)
BY DEF Caught

LEMMA OrderedMore ==
  ASSUME NEW s, NEW H, NEW Q, NEW n, NEW r, H \subseteq Q
  PROVE  /\ Ordered(s, H, n, r) => Ordered(s, Q, n, r)
         /\ Full(s, H, n, r) => Full(s, Q, n, r)
BY CaughtSame DEF Ordered, Full

LEMMA OrderedPrefix ==
  ASSUME NEW s \in Seq(Lines), NEW H, NEW n, NEW r, Ordered(s, H, n, r),
         NEW t \in Arriving(s)
  PROVE  Ordered(t, H, n, r)
<1>1. PICK l \in 0..Len(s) : t = SubSeq(s, 1, l)
  BY DEF Arriving
<1>2. Len(t) = l /\ \A i \in 1..l : t[i] = s[i] /\ i \in 1..Len(s)
  BY <1>1
<1>3. ASSUME NEW i \in 1..l, t[i].type = "event", t[i].mission = n, t[i].event \in ReliableEvents
      PROVE  \E b \in 1..Len(r) : r[b] = t[i].event /\ Caught(t, i, b, H, n, r)
  <2>1. PICK b \in 1..Len(r) : r[b] = s[i].event /\ Caught(s, i, b, H, n, r)
    BY <1>2, <1>3 DEF Ordered
  <2>2. \A h \in 1..(i - 1) : h \in 1..l
    OBVIOUS
  <2>3. Caught(t, i, b, H, n, r)
    BY <1>2, <2>1, <2>2, CaughtSame
  <2>. QED  BY <1>2, <1>3, <2>1, <2>3
<1>. QED  BY <1>2, <1>3 DEF Ordered

LEMMA OrderedTail ==
  ASSUME NEW s \in Seq(Lines), s # <<>>, NEW H, NEW Q, NEW n, NEW r, H \subseteq Q,
         Ordered(s, H, n, r), \A e \in ReliableEvents : Shows(Head(s), n, e) => e \in Q
  PROVE  /\ Ordered(Tail(s), Q, n, r)
         /\ Full(s, H, n, r) => Full(Tail(s), Q, n, r)
<1>. DEFINE t == Tail(s)
            L == Len(t)
<1>1. /\ L \in Nat /\ Len(s) = L + 1 /\ Head(s) = s[1]
      /\ \A i \in 1..L : t[i] = s[i + 1] /\ i + 1 \in 1..Len(s)
  OBVIOUS
<1>. HIDE DEF t, L
<1>2. ASSUME NEW i \in 1..(L + 1), NEW b, Caught(s, i + 1, b, H, n, r)
      PROVE  Caught(t, i, b, Q, n, r)
  <2>1. ASSUME NEW a \in 1..(b - 1), r[a] \in ReliableEvents, r[a] \notin Q
        PROVE  \E h \in 1..(i - 1) : Shows(t[h], n, r[a])
    <3>1. PICK h \in 1..((i + 1) - 1) : Shows(s[h], n, r[a])
      BY <1>2, <2>1 DEF Caught
    <3>2. h # 1
      BY <1>1, <2>1, <3>1
    <3>3. h - 1 \in 1..(i - 1) /\ h - 1 \in 1..L /\ (h - 1) + 1 = h
      BY <1>1, <3>1, <3>2
    <3>. QED  BY <1>1, <3>1, <3>3
  <2>. QED  BY <2>1 DEF Caught
<1>3. ASSUME NEW i \in 1..L, t[i].type = "event", t[i].mission = n, t[i].event \in ReliableEvents
      PROVE  \E b \in 1..Len(r) : r[b] = t[i].event /\ Caught(t, i, b, Q, n, r)
  <2>1. PICK b \in 1..Len(r) : r[b] = s[i + 1].event /\ Caught(s, i + 1, b, H, n, r)
    BY <1>1, <1>3 DEF Ordered
  <2>2. i \in 1..(L + 1)
    BY <1>1
  <2>. QED  BY <1>1, <1>2, <1>3, <2>1, <2>2
<1>4. Ordered(t, Q, n, r)
  BY <1>3 DEF Ordered, L
<1>5. Full(s, H, n, r) => Full(t, Q, n, r)
  <2>1. L + 1 \in 1..(L + 1)
    BY <1>1
  <2>. QED  BY <1>1, <1>2, <2>1 DEF Full, L
<1>. QED  BY <1>4, <1>5 DEF t

\* What the first line shows was raised after events that are all in H.
LEMMA OrderedHead ==
  ASSUME NEW s \in Seq(Lines), s # <<>>, NEW H, NEW n, NEW r, Ordered(s, H, n, r),
         Head(s).type = "event", Head(s).mission = n, Head(s).event \in ReliableEvents
  PROVE  \E b \in 1..Len(r) : /\ r[b] = Head(s).event
                              /\ \A a \in 1..(b - 1) : r[a] \in ReliableEvents => r[a] \in H
<1>1. Head(s) = s[1] /\ 1 \in 1..Len(s) /\ ~\E h \in 1..(1 - 1) : TRUE
  OBVIOUS
<1>. QED  BY <1>1 DEF Ordered, Caught

LEMMA OrderedAppend ==
  ASSUME NEW s \in Seq(Lines), NEW m \in Lines, NEW H, NEW n, NEW r, Ordered(s, H, n, r),
         m.type = "event" /\ m.mission = n /\ m.event \in ReliableEvents =>
           \E b \in 1..Len(r) : r[b] = m.event /\ Caught(s, Len(s) + 1, b, H, n, r)
  PROVE  /\ Ordered(Append(s, m), H, n, r)
         /\ Full(s, H, n, r) => Full(Append(s, m), H, n, r)
<1>. DEFINE t == Append(s, m)
            L == Len(s)
<1>1. /\ L \in Nat /\ Len(t) = L + 1 /\ t[L + 1] = m /\ \A i \in 1..L : t[i] = s[i]
      /\ \A i \in 1..(L + 1) : i \in 1..L \/ i = L + 1
  OBVIOUS
<1>. HIDE DEF t
<1>2. ASSUME NEW i \in 1..(L + 1), NEW b, Caught(s, i, b, H, n, r)
      PROVE  Caught(t, i, b, H, n, r)
  <2>1. \A h \in 1..(i - 1) : h \in 1..L
    BY <1>1
  <2>. QED  BY <1>1, <1>2, <2>1, CaughtSame
<1>3. ASSUME NEW i \in 1..(L + 1), t[i].type = "event", t[i].mission = n, t[i].event \in ReliableEvents
      PROVE  \E b \in 1..Len(r) : r[b] = t[i].event /\ Caught(t, i, b, H, n, r)
  <2>1. CASE i \in 1..L
    <3>1. PICK b \in 1..Len(r) : r[b] = s[i].event /\ Caught(s, i, b, H, n, r)
      BY <1>1, <1>3, <2>1 DEF Ordered
    <3>. QED  BY <1>1, <1>2, <2>1, <3>1
  <2>2. CASE i = L + 1
    <3>1. PICK b \in 1..Len(r) : r[b] = m.event /\ Caught(s, L + 1, b, H, n, r)
      BY <1>1, <1>3, <2>2
    <3>. QED  BY <1>1, <1>2, <2>2, <3>1
  <2>. QED  BY <1>1, <2>1, <2>2
<1>4. Ordered(t, H, n, r)
  BY <1>1, <1>3 DEF Ordered
<1>5. ASSUME Full(s, H, n, r)
      PROVE  Full(t, H, n, r)
  <2>1. Caught(s, L + 1, Len(r) + 1, H, n, r)
    BY <1>5 DEF Full
  <2>2. \A h \in 1..((L + 1) - 1) : t[h] = s[h] /\ h \in 1..((L + 2) - 1)
    BY <1>1
  <2>3. Caught(t, L + 2, Len(r) + 1, H, n, r)
    BY <2>1, <2>2 DEF Caught
  <2>4. Len(t) + 1 = L + 2
    BY <1>1
  <2>. QED  BY <2>3, <2>4 DEF Full
<1>. QED  BY <1>4, <1>5 DEF t

\* One more event is raised.
LEMMA OrderedRaised ==
  ASSUME NEW s \in Seq(Lines), NEW H, NEW n, NEW r \in Seq(EventNames), NEW e \in EventNames,
         Ordered(s, H, n, r)
  PROVE  /\ Ordered(s, H, n, Append(r, e))
         /\ Full(s, H, n, r) => Caught(s, Len(s) + 1, Len(r) + 1, H, n, Append(r, e))
         /\ Full(s, H, n, r) /\ e \notin ReliableEvents => Full(s, H, n, Append(r, e))
<1>. DEFINE q == Append(r, e)
            R == Len(r)
<1>1. /\ R \in Nat /\ Len(q) = R + 1 /\ q[R + 1] = e /\ \A a \in 1..R : q[a] = r[a]
      /\ \A a \in 1..(R + 1) : a \in 1..R \/ a = R + 1
  OBVIOUS
<1>. HIDE DEF q
<1>2. ASSUME NEW i, NEW b \in 1..(R + 1), Caught(s, i, b, H, n, r)
      PROVE  Caught(s, i, b, H, n, q)
  <2>1. \A a \in 1..(b - 1) : a \in 1..R
    BY <1>1
  <2>. QED  BY <1>1, <1>2, <2>1 DEF Caught
<1>3. Ordered(s, H, n, q)
  <2>1. \A b \in 1..R : b \in 1..(R + 1)
    BY <1>1
  <2>. QED  BY <1>1, <1>2, <2>1 DEF Ordered
<1>4. ASSUME Full(s, H, n, r)
      PROVE  Caught(s, Len(s) + 1, R + 1, H, n, q)
  <2>1. R + 1 \in 1..(R + 1)
    BY <1>1
  <2>. QED  BY <1>2, <1>4, <2>1 DEF Full
<1>5. ASSUME Full(s, H, n, r), e \notin ReliableEvents
      PROVE  Full(s, H, n, q)
  <2>1. \A a \in 1..((R + 2) - 1) : a \in 1..((R + 1) - 1) \/ a = R + 1
    BY <1>1
  <2>2. Caught(s, Len(s) + 1, R + 2, H, n, q)
    BY <1>1, <1>4, <1>5, <2>1 DEF Caught
  <2>3. Len(q) + 1 = R + 2
    BY <1>1
  <2>. QED  BY <2>2, <2>3 DEF Full
<1>. QED  BY <1>3, <1>4, <1>5 DEF q

\* It is sent, too.
LEMMA OrderedEvent ==
  ASSUME NEW s \in Seq(Lines), NEW H, NEW n, NEW r \in Seq(EventNames), NEW e \in EventNames,
         Ordered(s, H, n, r), Full(s, H, n, r), NEW m \in Lines, Shows(m, n, e)
  PROVE  /\ Ordered(Append(s, m), H, n, Append(r, e))
         /\ Full(Append(s, m), H, n, Append(r, e))
<1>. DEFINE q == Append(r, e)
            t == Append(s, m)
            R == Len(r)
            L == Len(s)
<1>1. /\ R \in Nat /\ Len(q) = R + 1 /\ q[R + 1] = e /\ R + 1 \in 1..Len(q)
      /\ L \in Nat /\ Len(t) = L + 1 /\ t[L + 1] = m /\ \A i \in 1..L : t[i] = s[i]
      /\ m.event = e
  BY DEF Shows
<1>2. Ordered(s, H, n, q) /\ Caught(s, L + 1, R + 1, H, n, q)
  BY OrderedRaised
<1>. HIDE DEF q, t
<1>3. Ordered(t, H, n, q)
  BY <1>1, <1>2, OrderedAppend DEF t
<1>4. Full(t, H, n, q)
  <2>1. ASSUME NEW a \in 1..((R + 2) - 1), q[a] \in ReliableEvents, q[a] \notin H
        PROVE  \E h \in 1..((L + 2) - 1) : Shows(t[h], n, q[a])
    <3>1. CASE a = R + 1
      <4>1. L + 1 \in 1..((L + 2) - 1)
        BY <1>1
      <4>. QED  BY <1>1, <3>1, <4>1
    <3>2. CASE a # R + 1
      <4>1. a \in 1..((R + 1) - 1)
        BY <1>1, <3>2
      <4>2. PICK h \in 1..((L + 1) - 1) : Shows(s[h], n, q[a])
        BY <1>2, <2>1, <4>1 DEF Caught
      <4>3. h \in 1..L /\ h \in 1..((L + 2) - 1)
        BY <1>1
      <4>. QED  BY <1>1, <4>2, <4>3
    <3>. QED  BY <3>1, <3>2
  <2>2. Len(t) + 1 = L + 2 /\ Len(q) + 1 = R + 2
    BY <1>1
  <2>. QED  BY <2>1, <2>2 DEF Full, Caught
<1>. QED  BY <1>3, <1>4 DEF q, t

\* After lines that show every reliable event, any that were raised may follow.
LEMMA OrderedConcat ==
  ASSUME NEW s \in Seq(Lines), NEW H, NEW n, NEW r \in Seq(EventNames), Ordered(s, H, n, r),
         Full(s, H, n, r), NEW t \in Seq(LinesIn(r))
  PROVE  Ordered(s \o t, H, n, r) /\ Full(s \o t, H, n, r)
<1>. DEFINE u == s \o t
            L == Len(s)
<1>0. t \in Seq(Lines) /\ \A i \in 1..Len(t) : t[i] \in LinesIn(r)
  <2>1. LinesIn(r) \subseteq Lines
    BY DEF LinesIn
  <2>. QED  BY <2>1, SeqMonotone, ElementOfSeq
<1>1. /\ L \in Nat /\ Len(t) \in Nat /\ Len(u) = L + Len(t) /\ Len(r) \in Nat
      /\ \A i \in 1..L : u[i] = s[i]
      /\ \A i \in 1..Len(u) : i \in 1..L \/ (i > L /\ i - L \in 1..Len(t) /\ u[i] = t[i - L])
  BY <1>0
<1>. HIDE DEF u
<1>2. ASSUME NEW i \in Nat, i > L, NEW b \in 1..(Len(r) + 1)
      PROVE  Caught(u, i, b, H, n, r)
  <2>1. ASSUME NEW a \in 1..(b - 1), r[a] \in ReliableEvents, r[a] \notin H
        PROVE  \E h \in 1..(i - 1) : Shows(u[h], n, r[a])
    <3>1. a \in 1..((Len(r) + 1) - 1)
      BY <1>1
    <3>2. PICK h \in 1..((L + 1) - 1) : Shows(s[h], n, r[a])
      BY <2>1, <3>1 DEF Full, Caught
    <3>3. h \in 1..L /\ h \in 1..(i - 1)
      BY <1>1, <1>2
    <3>. QED  BY <1>1, <3>2, <3>3
  <2>. QED  BY <2>1 DEF Caught
<1>3. ASSUME NEW i \in 1..Len(u), u[i].type = "event", u[i].mission = n, u[i].event \in ReliableEvents
      PROVE  \E b \in 1..Len(r) : r[b] = u[i].event /\ Caught(u, i, b, H, n, r)
  <2>1. CASE i \in 1..L
    <3>1. PICK b \in 1..Len(r) : r[b] = s[i].event /\ Caught(s, i, b, H, n, r)
      BY <1>1, <1>3, <2>1 DEF Ordered
    <3>2. \A h \in 1..(i - 1) : u[h] = s[h]
      <4>1. \A h \in 1..(i - 1) : h \in 1..L
        <5>1. L \in Nat
          BY <1>1
        <5>. HIDE DEF L
        <5>. QED  BY <2>1, <5>1
      <4>. QED  BY <1>1, <4>1
    <3>. QED  BY <1>1, <2>1, <3>1, <3>2, CaughtSame
  <2>2. CASE i > L /\ i - L \in 1..Len(t) /\ u[i] = t[i - L]
    <3>1. PICK b \in 1..Len(r) : r[b] = u[i].event
      BY <1>0, <1>3, <2>2 DEF LinesIn
    <3>2. b \in 1..(Len(r) + 1) /\ i \in Nat
      BY <1>1
    <3>. QED  BY <1>2, <2>2, <3>1, <3>2
  <2>. QED  BY <1>1, <2>1, <2>2
<1>4. Ordered(u, H, n, r)
  BY <1>3 DEF Ordered
<1>5. Full(u, H, n, r)
  <2>1. Len(u) + 1 \in Nat /\ Len(u) + 1 > L /\ Len(r) + 1 \in 1..(Len(r) + 1)
    BY <1>1
  <2>. QED  BY <1>2, <2>1 DEF Full
<1>. QED  BY <1>4, <1>5 DEF u

\* The reliable events of the mission that the daemon has applied; every connection,
\* and what follows on the one that is up, has them behind it.
Heard ==
  {e \in ReliableEvents :
     \E i \in 1..Len(applied) : applied[i] = [mission |-> mission, event |-> e]}

QueueRaised == outQueue \in Seq(LinesIn(raised))
JournalOrdered == Ordered(journal, {}, mission, raised) /\ Full(journal, {}, mission, raised)
SentOrdered == \A k \in Conns : Ordered(toPy[k], Heard, mission, raised)
StreamOrdered ==
  \A k \in Conns : link[k] = "up" =>
    Ordered(Stream(k), Heard, mission, raised) /\ Full(Stream(k), Heard, mission, raised)

\* Every line to come, wherever it waits, is in order after what has been applied.
OrderInv ==
  /\ seen = applied /\ QueueRaised
  /\ JournalOrdered /\ SentOrdered /\ StreamOrdered /\ ReliableInOrder

\* The queue has room, no event of the mission has left the journal and the daemon
\* remembers every event it has applied.
WithinLimits ==
  /\ HasRoom
  /\ Len(journal) < ReliableEventJournalLimit
  /\ Len(seen) < SeenLimit

\* A queue that can follow what is under way.
GoodQueue(q) ==
  /\ q \in Seq(Messages) /\ q \in Seq(LinesIn(raised))
  /\ \A k \in Conns : link[k] = "up" =>
       /\ Ordered(toPy[k] \o q, Heard, mission, raised)
       /\ Full(toPy[k] \o q, Heard, mission, raised)

LEMMA OrderTypes ==
  ASSUME TypeOK
  PROVE  /\ SnapshotTypes
         /\ link \in [Conns -> {"unused", "up", "down"}] /\ toPy \in [Conns -> Seq(Lines)]
         /\ mission \in Nat /\ now \in Nat /\ socket \in Conns \cup {NoConn}
         /\ raised \in Seq(EventNames) /\ journal \in Seq(EventMessages)
         /\ journal \in Seq(Lines) /\ journal \in Seq(Messages)
         /\ Len(outQueue) <= MaxOutQueueMessages
         /\ seen \in Seq(EventIds) /\ applied \in Seq(EventIds)
         /\ Messages \subseteq Lines /\ EventMessages \subseteq Messages
<1>1. Messages \subseteq Lines /\ EventMessages \subseteq Messages /\ EventMessages \subseteq Lines
  BY DEF Lines, Messages
<1>. QED
  BY <1>1, SnapshotTyped, SeqMonotone DEF TypeOK, WireTypeOK, LuaTypeOK, ServerTypeOK

LEMMA GoodNow ==
  ASSUME TypeOK, OrderInv
  PROVE  GoodQueue(outQueue)
BY OrderTypes DEF GoodQueue, OrderInv, QueueRaised, StreamOrdered, Stream, SnapshotTypes

\* A message that is no event may be sent.
LEMMA GoodSend ==
  ASSUME TypeOK, NEW q, GoodQueue(q), Len(q) < MaxOutQueueMessages,
         NEW m \in Messages, m.type # "event"
  PROVE  GoodQueue(Send(q, m))
<1>1. Send(q, m) = q \/ Send(q, m) = Append(q, m)
  BY SendRoom DEF GoodQueue
<1>2. m \in Lines /\ m \in LinesIn(raised) /\ q \in Seq(Messages) /\ q \in Seq(LinesIn(raised))
      /\ q \in Seq(Lines)
  BY OrderTypes, SeqMonotone DEF LinesIn, GoodQueue
<1>3. ASSUME NEW k \in Conns, link[k] = "up"
      PROVE  /\ Ordered(toPy[k] \o Append(q, m), Heard, mission, raised)
             /\ Full(toPy[k] \o Append(q, m), Heard, mission, raised)
  <2>. DEFINE s == toPy[k] \o q
  <2>1. Ordered(s, Heard, mission, raised) /\ Full(s, Heard, mission, raised)
    BY <1>3 DEF GoodQueue
  <2>2. toPy[k] \in Seq(Lines) /\ q \in Seq(Lines) /\ m \in Lines
    BY <1>2, OrderTypes
  <2>3. s \in Seq(Lines)
    BY <2>2
  <2>4. toPy[k] \o Append(q, m) = Append(s, m)
    BY <2>2, ConcatAppend
  <2>. HIDE DEF s
  <2>. QED  BY <2>1, <2>2, <2>3, <2>4, OrderedAppend
<1>4. Append(q, m) \in Seq(Messages) /\ Append(q, m) \in Seq(LinesIn(raised))
  BY <1>2
<1>5. GoodQueue(Append(q, m))
  BY <1>3, <1>4 DEF GoodQueue
<1>. QED  BY <1>1, <1>5

\* A step that raises and applies nothing.
LEMMA OrderKept ==
  ASSUME OrderInv, UNCHANGED <<mission, raised, journal, seen, applied>>, QueueRaised',
         \A k \in Conns : Ordered(toPy'[k], Heard, mission, raised),
         \A k \in Conns : link'[k] = "up" =>
           /\ Ordered(toPy'[k] \o outQueue', Heard, mission, raised)
           /\ Full(toPy'[k] \o outQueue', Heard, mission, raised)
  PROVE  OrderInv'
<1>1. Heard' = Heard
  BY DEF Heard
<1>2. JournalOrdered' /\ SentOrdered' /\ StreamOrdered'
  BY <1>1 DEF OrderInv, JournalOrdered, SentOrdered, StreamOrdered, Stream
<1>3. ReliableInOrder'
  <2>1. ReliableInOrder /\ mission' = mission /\ raised' = raised /\ applied' = applied
    BY DEF OrderInv
  <2>. QED  BY <2>1 DEF ReliableInOrder
<1>. QED  BY <1>2, <1>3 DEF OrderInv

\* A step that sends what is no event.
LEMMA OrderSend ==
  ASSUME OrderInv, UNCHANGED <<mission, raised, journal, seen, applied, link, toPy>>,
         GoodQueue(outQueue')
  PROVE  OrderInv'
<1>1. QueueRaised'
  BY DEF GoodQueue, QueueRaised
<1>2. /\ \A k \in Conns : Ordered(toPy'[k], Heard, mission, raised)
      /\ \A k \in Conns : link'[k] = "up" =>
           /\ Ordered(toPy'[k] \o outQueue', Heard, mission, raised)
           /\ Full(toPy'[k] \o outQueue', Heard, mission, raised)
  BY DEF GoodQueue, OrderInv, SentOrdered
<1>. QED  BY <1>1, <1>2, OrderKept

\* The journal, then what was pending: on the new connection nothing is missing.
LEMMA OrderConnect ==
  ASSUME MissionInv, OrderInv, HasRoom', Connect, UNCHANGED serverVars
  PROVE  OrderInv'
<1>. DEFINE P == {i \in DOMAIN outQueue :
                    /\ IsReliable(outQueue[i])
                    /\ \A j \in DOMAIN journal : journal[j] # outQueue[i]}
            kept == Kept(outQueue, P)
            all == journal \o kept
<1>1. /\ TypeOK /\ OrderInv /\ outQueue \in Seq(Lines) /\ outQueue \in Seq(LinesIn(raised))
      /\ journal \in Seq(Lines) /\ raised \in Seq(EventNames) /\ MaxOutQueueMessages \in Nat
      /\ toPy \in [Conns -> Seq(Lines)]
  BY OrderTypes DEF MissionInv, WriterInv, OrderInv, QueueRaised, SnapshotTypes
<1>2. PICK k \in Conns : link[k] = "unused" /\ link' = [link EXCEPT ![k] = "up"]
  BY DEF Connect
<1>3. /\ outQueue' = LastN(all, MaxOutQueueMessages) /\ socket = NoConn
      /\ UNCHANGED <<toPy, mission, raised, journal, seen, applied>>
  <2>1. outQueue' = ReplayedQueue /\ socket = NoConn
        /\ UNCHANGED <<toPy, mission, raised, journal, seen, applied>>
    BY DEF Connect, serverVars
  <2>2. ReplayedQueue = LastN(all, MaxOutQueueMessages)
    BY Zenon DEF ReplayedQueue
  <2>. QED  BY <2>1, <2>2
<1>4. P \in SUBSET (1..Len(outQueue))
  <2>1. DOMAIN outQueue = 1..Len(outQueue)
    BY <1>1
  <2>. QED  BY <2>1
<1>. HIDE DEF P
<1>5. kept \in Seq(LinesIn(raised)) /\ kept \in Seq(Lines)
  BY <1>1, <1>4, KeptProperties
<1>. HIDE DEF kept
<1>6. all \in Seq(Lines)
  BY <1>1, <1>5
<1>7. Ordered(all, {}, mission, raised) /\ Full(all, {}, mission, raised)
  BY <1>1, <1>5, OrderedConcat DEF OrderInv, JournalOrdered
<1>8. Ordered(all, Heard, mission, raised) /\ Full(all, Heard, mission, raised)
  BY <1>7, OrderedMore
<1>. HIDE DEF all
<1>9. outQueue' = all
  <2>1. CASE Len(all) > MaxOutQueueMessages
    <3>1. Len(outQueue') = MaxOutQueueMessages
      BY <1>1, <1>3, <1>6, <2>1, LastNProperties
    <3>. QED  BY <1>1, <3>1 DEF HasRoom
  <2>2. CASE ~(Len(all) > MaxOutQueueMessages)
    BY <1>3, <2>2 DEF LastN
  <2>. QED  BY <2>1, <2>2
<1>10. \A j \in Conns : /\ link[j] # "up" /\ toPy'[j] = toPy[j]
                        /\ link'[j] = IF j = k THEN "up" ELSE link[j]
  BY <1>1, <1>2, <1>3, ConnsArithmetic
     DEF MissionInv, WriterInv, SocketIsNewest, TypeOK, WireTypeOK
<1>11. toPy[k] = <<>>
  BY <1>2 DEF MissionInv, UnusedIsEmpty
<1>12. toPy[k] \o outQueue' = all
  BY <1>6, <1>9, <1>11
<1>13. QueueRaised'
  <2>1. journal \in Seq(LinesIn(raised))
    <3>1. \A i \in 1..Len(journal) : journal[i] \in LinesIn(raised)
      <4>1. ASSUME NEW i \in 1..Len(journal), journal[i].event \in ReliableEvents
            PROVE  \E b \in 1..Len(raised) : raised[b] = journal[i].event
        <5>1. journal[i] \in EventMessages /\ journal[i] \in LinesOf(mission)
          BY <1>1, OrderTypes, ElementOfSeq DEF MissionInv, QueueOfMission
        <5>2. journal[i].type = "event" /\ journal[i].mission = mission
          BY <5>1 DEF EventMessages, LinesOf
        <5>. QED  BY <4>1, <5>2 DEF OrderInv, JournalOrdered, Ordered
      <4>2. \A i \in 1..Len(journal) : journal[i] \in Lines
        BY <1>1, ElementOfSeq
      <4>. QED  BY <4>1, <4>2 DEF LinesIn
    <3>. QED  BY <1>1, <3>1, SeqOfElements
  <2>2. all \in Seq(LinesIn(raised))
    BY <1>5, <2>1 DEF all
  <2>. QED  BY <1>3, <1>9, <2>2 DEF QueueRaised
<1>14. /\ \A j \in Conns : Ordered(toPy'[j], Heard, mission, raised)
       /\ \A j \in Conns : link'[j] = "up" =>
            /\ Ordered(toPy'[j] \o outQueue', Heard, mission, raised)
            /\ Full(toPy'[j] \o outQueue', Heard, mission, raised)
  BY <1>3, <1>8, <1>10, <1>12 DEF OrderInv, SentOrdered
<1>. QED  BY <1>3, <1>13, <1>14, OrderKept

LEMMA OrderFlush ==
  ASSUME MissionInv, OrderInv, Whole, FlushMessage, UNCHANGED serverVars
  PROVE  OrderInv'
<1>1. /\ TypeOK /\ outQueue \in Seq(Lines) /\ toPy \in [Conns -> Seq(Lines)]
      /\ outQueue \in Seq(LinesIn(raised))
  BY OrderTypes DEF MissionInv, WriterInv, SnapshotTypes, OrderInv, QueueRaised
<1>2. /\ outQueue # <<>> /\ outQueue' = Tail(outQueue) /\ socket \in Conns
      /\ toPy' = SendToPy(socket, <<LineOf(Head(outQueue))>>)
      /\ UNCHANGED <<link, mission, raised, journal, seen, applied>>
  BY <1>1 DEF FlushMessage, serverVars, historyVars, TypeOK, LuaTypeOK
<1>3. \A k \in Conns : link[k] = "up" => k = socket
  BY DEF MissionInv, WriterInv, SocketIsNewest
<1>4. QueueRaised'
  <2>1. Tail(outQueue) \in Seq(LinesIn(raised))
    BY <1>1, <1>2
  <2>. QED  BY <1>2, <2>1 DEF QueueRaised
<1>5. CASE link[socket] # "up"
  <2>1. toPy' = toPy /\ \A k \in Conns : link'[k] # "up"
    BY <1>2, <1>3, <1>5 DEF SendToPy
  <2>2. \A k \in Conns : Ordered(toPy'[k], Heard, mission, raised)
    BY <2>1 DEF OrderInv, SentOrdered
  <2>. QED  BY <1>2, <1>4, <2>1, <2>2, OrderKept
<1>6. CASE link[socket] = "up"
  <2>. DEFINE h == Head(outQueue)
              t == toPy[socket] \o <<h>>
  <2>1. toPy' = [toPy EXCEPT ![socket] = t]
    BY <1>1, <1>2, <1>6, WholeLine DEF SendToPy
  <2>2. \A k \in Conns : toPy'[k] = IF k = socket THEN t ELSE toPy[k]
    BY <1>1, <2>1
  <2>3. t \in Seq(Lines) /\ Tail(outQueue) \in Seq(Lines)
    BY <1>1, <1>2
  <2>4. t \o outQueue' = Stream(socket)
    BY <1>1, <1>2, ConcatHead DEF Stream
  <2>. HIDE DEF t
  <2>5. /\ Ordered(Stream(socket), Heard, mission, raised)
        /\ Full(Stream(socket), Heard, mission, raised)
    BY <1>2, <1>6 DEF OrderInv, StreamOrdered
  <2>6. Ordered(t, Heard, mission, raised)
    <3>1. t \in Arriving(Stream(socket))
      BY <1>2, <2>3, <2>4, ConcatPrefix
    <3>2. Stream(socket) \in Seq(Lines)
      BY <1>1, <1>2 DEF Stream
    <3>. QED  BY <2>5, <3>1, <3>2, OrderedPrefix
  <2>7. \A k \in Conns : Ordered(toPy'[k], Heard, mission, raised)
    BY <2>2, <2>6 DEF OrderInv, SentOrdered
  <2>8. \A k \in Conns : link'[k] = "up" => toPy'[k] \o outQueue' = Stream(socket)
    BY <1>2, <1>3, <2>2, <2>4
  <2>9. \A k \in Conns : link'[k] = "up" =>
          /\ Ordered(toPy'[k] \o outQueue', Heard, mission, raised)
          /\ Full(toPy'[k] \o outQueue', Heard, mission, raised)
    BY <2>5, <2>8
  <2>. QED  BY <1>2, <1>4, <2>7, <2>9, OrderKept
<1>. QED  BY <1>5, <1>6


\* An event is new; a reliable one enters the journal and, if there is a connection,
\* the queue behind all that was raised before it.
LEMMA OrderRaise ==
  ASSUME MissionInv, OrderInv, WithinLimits, NEW e \in Events, SendEvent(e),
         UNCHANGED serverVars
  PROVE  OrderInv'
<1>. DEFINE m == EventMessage(e, mission, now)
            q == Append(raised, e)
<1>1. /\ TypeOK /\ outQueue \in Seq(Lines) /\ outQueue \in Seq(LinesIn(raised))
      /\ outQueue \in Seq(Messages) /\ toPy \in [Conns -> Seq(Lines)]
      /\ raised \in Seq(EventNames) /\ e \in EventNames /\ journal \in Seq(Lines)
      /\ Len(outQueue) < MaxOutQueueMessages
  BY OrderTypes
     DEF MissionInv, WriterInv, SnapshotTypes, OrderInv, QueueRaised, WithinLimits, HasRoom,
         EventNames
<1>2. /\ \A i \in DOMAIN raised : raised[i] # e
      /\ raised' = q /\ outQueue' = Send(outQueue, m)
      /\ journal' = IF IsReliable(m) THEN Remember(m) ELSE journal
      /\ UNCHANGED <<link, toPy, mission, seen, applied, socket>>
  BY DEF SendEvent, serverVars, historyVars, wireVars
<1>3. m \in Lines /\ m \in Messages /\ Shows(m, mission, e) /\ m.type = "event" /\ m.event = e
  <2>1. m \in EventMessages
    BY <1>1, OrderTypes, MessagesTyped
  <2>2. m.type = "event" /\ m.mission = mission /\ m.event = e
    BY DEF EventMessage
  <2>. QED  BY <1>1, <2>1, <2>2, OrderTypes DEF Shows
<1>4. IsReliable(m) <=> e \in ReliableEvents
  BY <1>3, WireAssumption DEF IsReliable
<1>5. Len(raised) \in Nat /\ Len(q) = Len(raised) + 1 /\ q[Len(raised) + 1] = e
      /\ \A b \in 1..Len(raised) : q[b] = raised[b] /\ b \in 1..Len(q)
  BY <1>1
<1>. HIDE DEF m, q
<1>6. LinesIn(raised) \subseteq LinesIn(q) /\ m \in LinesIn(q)
  <2>1. Len(raised) + 1 \in 1..Len(q)
    BY <1>5
  <2>. QED  BY <1>3, <1>5, <2>1 DEF LinesIn
<1>7. \/ outQueue' = Append(outQueue, m)
      \/ outQueue' = outQueue /\ e \notin ReliableEvents
  <2>1. \A i \in 1..Len(outQueue) : outQueue[i] \in LinesIn(raised)
    BY <1>1, ElementOfSeq
  <2>2. e \in ReliableEvents => \A i \in 1..Len(outQueue) : outQueue[i] # m
    <3>1. ASSUME e \in ReliableEvents, m \in LinesIn(raised)
          PROVE  FALSE
      <4>1. \E b \in 1..Len(raised) : raised[b] = e
        BY <1>3, <3>1 DEF LinesIn
      <4>2. DOMAIN raised = 1..Len(raised)
        BY <1>1
      <4>. QED  BY <1>2, <4>1, <4>2
    <3>. QED  BY <2>1, <3>1
  <2>. QED  BY <1>1, <1>2, <1>4, <2>2, SendRoom
<1>8. QueueRaised'
  <2>1. outQueue \in Seq(LinesIn(q))
    BY <1>1, <1>6, SeqMonotone
  <2>2. Append(outQueue, m) \in Seq(LinesIn(q))
    BY <1>6, <2>1
  <2>. QED  BY <1>2, <1>7, <2>1, <2>2 DEF QueueRaised
<1>9. Heard' = Heard
  BY <1>2 DEF Heard
<1>10. SentOrdered'
  <2>1. \A k \in Conns : Ordered(toPy[k], Heard, mission, q)
    BY <1>1, OrderedRaised DEF OrderInv, SentOrdered, q
  <2>. QED  BY <1>2, <1>9, <2>1 DEF SentOrdered
<1>11. ASSUME NEW s \in Seq(Lines), NEW H, NEW t,
              Ordered(s, H, mission, raised), Full(s, H, mission, raised),
              t = Append(s, m) \/ (t = s /\ e \notin ReliableEvents)
       PROVE  Ordered(t, H, mission, q) /\ Full(t, H, mission, q)
  BY <1>1, <1>3, <1>11, OrderedRaised, OrderedEvent DEF q
<1>12. JournalOrdered'
  <2>1. e \in ReliableEvents => journal' = Append(journal, m)
    <3>1. Len(Append(journal, m)) = Len(journal) + 1 /\ Len(journal) \in Nat
      BY <1>1, <1>3
    <3>2. ~(Len(Append(journal, m)) > ReliableEventJournalLimit)
      BY <3>1, MooseBridgeAssumption DEF WithinLimits
    <3>. QED  BY <1>2, <1>4, <3>2 DEF Remember, LastN
  <2>2. e \notin ReliableEvents => journal' = journal
    BY <1>2, <1>4
  <2>3. Ordered(journal', {}, mission, q) /\ Full(journal', {}, mission, q)
    BY <1>1, <1>11, <2>1, <2>2 DEF OrderInv, JournalOrdered
  <2>. QED  BY <1>2, <2>3 DEF JournalOrdered
<1>13. StreamOrdered'
  <2>1. ASSUME NEW k \in Conns, link[k] = "up"
        PROVE  /\ Ordered(toPy[k] \o outQueue', Heard, mission, q)
               /\ Full(toPy[k] \o outQueue', Heard, mission, q)
    <3>. DEFINE s == toPy[k] \o outQueue
    <3>1. Ordered(s, Heard, mission, raised) /\ Full(s, Heard, mission, raised)
      BY <2>1 DEF OrderInv, StreamOrdered, Stream
    <3>2. toPy[k] \in Seq(Lines) /\ s \in Seq(Lines)
      BY <1>1
    <3>3. toPy[k] \o Append(outQueue, m) = Append(s, m)
      BY <1>1, <1>3, <3>2, ConcatAppend
    <3>4. \/ toPy[k] \o outQueue' = Append(s, m)
          \/ toPy[k] \o outQueue' = s /\ e \notin ReliableEvents
      BY <1>7, <3>3
    <3>. HIDE DEF s
    <3>. QED  BY <1>11, <3>1, <3>2, <3>4
  <2>. QED  BY <1>2, <1>9, <2>1 DEF StreamOrdered, Stream
<1>14. ReliableInOrder'
  <2>1. ReliableInOrder /\ applied' = applied /\ mission' = mission /\ raised' = q
    BY <1>2 DEF OrderInv
  <2>2. ASSUME NEW j \in DOMAIN applied, applied[j].mission = mission,
               applied[j].event \in ReliableEvents
        PROVE  /\ \A i \in 1..(j - 1) : applied[i] # applied[j]
               /\ \E b \in 1..Len(q) :
                    /\ q[b] = applied[j].event
                    /\ \A a \in 1..(b - 1) : q[a] \in ReliableEvents =>
                         \E i \in 1..(j - 1) :
                           applied[i] = [mission |-> mission, event |-> q[a]]
    <3>1. /\ \A i \in 1..(j - 1) : applied[i] # applied[j]
          /\ \E b \in 1..Len(raised) :
               /\ raised[b] = applied[j].event
               /\ \A a \in 1..(b - 1) : raised[a] \in ReliableEvents =>
                    \E i \in 1..(j - 1) :
                      applied[i] = [mission |-> mission, event |-> raised[a]]
      BY <2>1, <2>2 DEF ReliableInOrder
    <3>2. PICK b \in 1..Len(raised) :
            /\ raised[b] = applied[j].event
            /\ \A a \in 1..(b - 1) : raised[a] \in ReliableEvents =>
                 \E i \in 1..(j - 1) :
                   applied[i] = [mission |-> mission, event |-> raised[a]]
      BY <3>1
    <3>3. /\ b \in 1..Len(q) /\ q[b] = raised[b]
          /\ \A a \in 1..(b - 1) : q[a] = raised[a]
      BY <1>5
    <3>. HIDE DEF q
    <3>4. /\ q[b] = applied[j].event
          /\ \A a \in 1..(b - 1) : q[a] \in ReliableEvents =>
               \E i \in 1..(j - 1) :
                 applied[i] = [mission |-> mission, event |-> q[a]]
      BY <3>2, <3>3
    <3>5. \E h \in 1..Len(q) :
            /\ q[h] = applied[j].event
            /\ \A a \in 1..(h - 1) : q[a] \in ReliableEvents =>
                 \E i \in 1..(j - 1) :
                   applied[i] = [mission |-> mission, event |-> q[a]]
      BY <3>3, <3>4, Zenon
    <3>. QED  BY <3>1, <3>5
  <2>. QED  BY <2>1, <2>2 DEF ReliableInOrder
<1>15. (seen = applied)'
  BY <1>2 DEF OrderInv
<1>. QED  BY <1>8, <1>10, <1>12, <1>13, <1>14, <1>15 DEF OrderInv

\* Nothing of the mission that starts has been raised, sent or applied.
LEMMA OrderRestart ==
  ASSUME MissionInv, OrderInv, RestartMission, UNCHANGED serverVars
  PROVE  OrderInv'
<1>1. /\ TypeOK /\ mission \in Nat /\ toPy \in [Conns -> Seq(Lines)]
      /\ applied \in Seq(EventIds)
  BY OrderTypes DEF MissionInv, WriterInv
<1>2. /\ outQueue' = <<>> /\ journal' = <<>> /\ raised' = <<>> /\ mission' = mission + 1
      /\ UNCHANGED <<seen, applied>>
  BY Zenon DEF RestartMission, serverVars, historyVars
<1>3. \A k \in Conns : link'[k] # "up"
  BY RestartWire
<1>4. \A k \in Conns : \A x \in Missions(toPy'[k]) : x # mission + 1
  <2>1. ASSUME NEW k \in Conns, NEW x \in Missions(toPy'[k])
        PROVE  x # mission + 1
    <3>1. x \in Missions(toPy[k]) \/ x = mission
      BY <2>1, RestartWire
    <3>2. x <= mission \/ x = mission
      BY <3>1 DEF MissionInv, SentOfMission
    <3>. QED  BY <1>1, <3>2
  <2>. QED  BY <2>1
<1>5. \A H : Ordered(<<>>, H, mission + 1, <<>>) /\ Full(<<>>, H, mission + 1, <<>>)
  BY DEF Ordered, Full, Caught
<1>6. SentOrdered'
  <2>1. ASSUME NEW k \in Conns, NEW H
        PROVE  Ordered(toPy'[k], H, mission + 1, <<>>)
    <3>1. \A i \in 1..Len(toPy'[k]) : toPy'[k][i].type = "event" =>
            toPy'[k][i].mission \in Missions(toPy'[k])
      BY DEF Missions
    <3>. QED  BY <1>4, <3>1 DEF Ordered
  <2>. QED  BY <1>2, <2>1 DEF SentOrdered
<1>7. JournalOrdered' /\ StreamOrdered' /\ QueueRaised'
  BY <1>2, <1>3, <1>5 DEF JournalOrdered, StreamOrdered, QueueRaised
<1>8. ReliableInOrder'
  <2>1. \A j \in DOMAIN applied : applied[j].mission # mission + 1
    <3>1. ASSUME NEW j \in DOMAIN applied
          PROVE  applied[j].mission # mission + 1
      <4>1. j \in 1..Len(applied)
        BY <1>1
      <4>2. applied[j].mission <= mission
        BY <4>1 DEF MissionInv, AppliedBeforeSent
      <4>. QED  BY <1>1, <4>2
    <3>. QED  BY <3>1
  <2>. QED  BY <1>2, <2>1 DEF ReliableInOrder
<1>9. (seen = applied)'
  BY <1>2 DEF OrderInv
<1>. QED  BY <1>6, <1>7, <1>8, <1>9 DEF OrderInv

LEMMA OrderLua ==
  ASSUME MissionInv, OrderInv, Whole, WithinLimits, HasRoom', LuaNext, UNCHANGED serverVars
  PROVE  OrderInv'
<1>1. /\ TypeOK /\ SnapshotTypes /\ UNCHANGED <<seen, applied>> /\ GoodQueue(outQueue)
      /\ Len(outQueue) + 2 <= MaxOutQueueMessages
  BY SnapshotTyped, GoodNow
     DEF MissionInv, WriterInv, serverVars, historyVars, WithinLimits, HasRoom
<1>2. Len(outQueue) < MaxOutQueueMessages
  BY <1>1 DEF SnapshotTypes
<1>3. CASE Connect
  BY <1>3, OrderConnect
<1>4. CASE Disconnect
  <2>1. /\ socket \in Conns /\ link[socket] = "down" /\ UNCHANGED <<link, toPy>>
        /\ outQueue' = Kept(outQueue, DOMAIN outQueue \ Lossy(outQueue))
        /\ UNCHANGED <<mission, raised, journal>>
    BY <1>1, <1>4 DEF Disconnect, TypeOK, LuaTypeOK
  <2>2. \A k \in Conns : link'[k] # "up"
    BY <2>1 DEF MissionInv, WriterInv, SocketIsNewest
  <2>3. QueueRaised'
    <3>1. outQueue \in Seq(LinesIn(raised)) /\ Len(outQueue) <= MaxOutQueueMessages
      BY <1>1, OrderTypes DEF OrderInv, QueueRaised
    <3>2. Kept(outQueue, DOMAIN outQueue \ Lossy(outQueue)) \in Seq(LinesIn(raised))
      BY <3>1, RetainedTyped
    <3>. QED  BY <2>1, <3>2 DEF QueueRaised
  <2>4. \A k \in Conns : Ordered(toPy'[k], Heard, mission, raised)
    BY <2>1 DEF OrderInv, SentOrdered
  <2>. QED  BY <1>1, <2>1, <2>2, <2>3, <2>4, OrderKept
<1>5. CASE ReplayResult
  <2>1. PICK i \in DOMAIN results : outQueue' = Send(outQueue, results[i])
    BY <1>5 DEF ReplayResult
  <2>2. results[i] \in Acks
    BY <1>1, <2>1 DEF SnapshotTypes
  <2>3. results[i] \in Messages /\ results[i].type # "event"
    BY <2>2 DEF Acks, Messages
  <2>4. UNCHANGED <<link, toPy, mission, raised, journal>>
    BY <1>5 DEF ReplayResult
  <2>5. GoodQueue(Send(outQueue, results[i]))
    BY <1>1, <1>2, <2>3, GoodSend
  <2>. QED  BY <1>1, <2>1, <2>4, <2>5, OrderSend
<1>6. CASE ExecuteCommand
  <2>. DEFINE c == Head(toLua[socket])
              ack == Reply("ack", c, mission, Len(effects) + 1, now)
              snapshot == Reply("snapshot", c, mission, Len(effects) + 1, now)
  <2>1. /\ ack \in Messages /\ ack.type # "event"
        /\ snapshot \in Messages /\ snapshot.type # "event"
    <3>1. c \in Commands /\ mission \in Nat /\ now \in Nat /\ Len(effects) + 1 \in Nat
      BY <1>1, <1>6 DEF ExecuteCommand, TypeOK, WireTypeOK, LuaTypeOK
    <3>. HIDE DEF c
    <3>2. ack \in Messages /\ snapshot \in Messages
      BY <3>1, MessagesTyped
    <3>. QED  BY <3>2 DEF Reply
  <2>2. /\ outQueue' = Send(Send(outQueue, snapshot), ack) \/ outQueue' = Send(outQueue, ack)
        /\ UNCHANGED <<link, toPy, mission, raised, journal>>
    BY <1>6 DEF ExecuteCommand
  <2>. HIDE DEF ack, snapshot
  <2>3. GoodQueue(Send(outQueue, ack)) /\ GoodQueue(Send(outQueue, snapshot))
    BY <1>1, <1>2, <2>1, GoodSend
  <2>4. Len(Send(outQueue, snapshot)) < MaxOutQueueMessages
    <3>1. \/ Send(outQueue, snapshot) = outQueue
          \/ Send(outQueue, snapshot) = Append(outQueue, snapshot)
      BY <1>1, <1>2, SendRoom DEF SnapshotTypes
    <3>2. Len(Append(outQueue, snapshot)) = Len(outQueue) + 1
      BY <1>1 DEF SnapshotTypes
    <3>. QED  BY <1>1, <1>2, <3>1, <3>2 DEF SnapshotTypes
  <2>5. GoodQueue(Send(Send(outQueue, snapshot), ack))
    BY <1>1, <2>1, <2>3, <2>4, GoodSend
  <2>. QED  BY <1>1, <2>2, <2>3, <2>5, OrderSend
<1>7. CASE FlushMessage
  BY <1>7, OrderFlush
<1>8. CASE SendHeartbeat
  <2>. DEFINE m == Heartbeat(mission, now)
  <2>1. m \in Messages /\ m.type # "event"
    BY <1>1, MessagesTyped DEF Heartbeat, TypeOK, LuaTypeOK
  <2>2. outQueue' = Send(outQueue, m) /\ UNCHANGED <<link, toPy, mission, raised, journal>>
    BY <1>8 DEF SendHeartbeat, wireVars
  <2>. HIDE DEF m
  <2>3. GoodQueue(Send(outQueue, m))
    BY <1>1, <1>2, <2>1, GoodSend
  <2>. QED  BY <1>1, <2>2, <2>3, OrderSend
<1>9. CASE FlushPart \/ AdvanceClock
  <2>1. UNCHANGED <<link, toPy, mission, raised, journal, outQueue>>
    BY <1>9 DEF FlushPart, AdvanceClock, wireVars
  <2>. QED  BY <1>1, <2>1, OrderSend
<1>10. ASSUME NEW e \in Events, SendEvent(e)
       PROVE  OrderInv'
  BY <1>10, OrderRaise
<1>11. CASE RestartMission
  BY <1>11, OrderRestart
<1>. QED
  BY <1>3, <1>4, <1>5, <1>6, <1>7, <1>8, <1>9, <1>10, <1>11 DEF LuaNext


\* Lines leave a stream as the events they show are heard.
LEMMA StreamTaken ==
  ASSUME TypeOK, OrderInv, NEW k \in Conns, toPy[k] # <<>>, NEW H, Heard \subseteq H,
         \A e \in ReliableEvents : Shows(Head(toPy[k]), mission, e) => e \in H,
         toPy' = [toPy EXCEPT ![k] = Tail(@)]
  PROVE  \A j \in Conns :
           /\ Ordered(toPy'[j], H, mission, raised)
           /\ link[j] = "up" => /\ Ordered(toPy'[j] \o outQueue, H, mission, raised)
                                /\ Full(toPy'[j] \o outQueue, H, mission, raised)
<1>1. toPy \in [Conns -> Seq(Lines)] /\ outQueue \in Seq(Lines) /\ toPy[k] \in Seq(Lines)
  BY OrderTypes DEF SnapshotTypes
<1>2. \A j \in Conns : toPy'[j] = IF j = k THEN Tail(toPy[k]) ELSE toPy[j]
  BY <1>1
<1>3. ASSUME NEW j \in Conns, j # k
      PROVE  /\ Ordered(toPy'[j], H, mission, raised)
             /\ link[j] = "up" => /\ Ordered(toPy'[j] \o outQueue, H, mission, raised)
                                  /\ Full(toPy'[j] \o outQueue, H, mission, raised)
  BY <1>2, <1>3, OrderedMore DEF OrderInv, SentOrdered, StreamOrdered, Stream
<1>4. Ordered(toPy'[k], H, mission, raised)
  <2>1. Ordered(toPy[k], Heard, mission, raised)
    BY DEF OrderInv, SentOrdered
  <2>. QED  BY <1>1, <1>2, <2>1, OrderedTail
<1>5. ASSUME link[k] = "up"
      PROVE  /\ Ordered(toPy'[k] \o outQueue, H, mission, raised)
             /\ Full(toPy'[k] \o outQueue, H, mission, raised)
  <2>. DEFINE s == toPy[k] \o outQueue
  <2>1. s \in Seq(Lines) /\ s # <<>> /\ Head(s) = Head(toPy[k])
    BY <1>1, ConcatTail
  <2>2. toPy'[k] \o outQueue = Tail(s)
    BY <1>1, <1>2, ConcatTail
  <2>3. Ordered(s, Heard, mission, raised) /\ Full(s, Heard, mission, raised)
    BY <1>5 DEF OrderInv, StreamOrdered, Stream
  <2>. HIDE DEF s
  <2>4. Ordered(Tail(s), H, mission, raised) /\ Full(Tail(s), H, mission, raised)
    BY <2>1, <2>3, OrderedTail
  <2>. QED  BY <2>2, <2>4
<1>. QED  BY <1>3, <1>4, <1>5

\* The event applied comes after all that was raised before it.
LEMMA ReliableApply ==
  ASSUME TypeOK, OrderInv, NEW m \in Lines, m.type = "event", EventId(m) \in EventIds,
         ~Duplicate(m), applied' = Append(applied, EventId(m)),
         UNCHANGED <<mission, raised>>,
         m.mission = mission /\ m.event \in ReliableEvents =>
           \E b \in 1..Len(raised) :
             /\ raised[b] = m.event
             /\ \A a \in 1..(b - 1) : raised[a] \in ReliableEvents => raised[a] \in Heard
  PROVE  ReliableInOrder'
<1>. DEFINE L == Len(applied)
            id == EventId(m)
<1>1. /\ L \in Nat /\ Len(applied') = L + 1 /\ applied'[L + 1] = id
      /\ DOMAIN applied = 1..L /\ DOMAIN applied' = 1..(L + 1)
      /\ \A i \in 1..L : applied'[i] = applied[i]
      /\ \A i \in 1..(L + 1) : i \in 1..L \/ i = L + 1
  BY OrderTypes
<1>2. id.mission = m.mission /\ id.event = m.event
  BY DEF EventId
<1>3. \A i \in 1..L : applied[i] # id
  <2>1. seen = applied
    BY DEF OrderInv
  <2>. QED  BY <1>1, <2>1 DEF Duplicate
<1>. HIDE DEF L, id
<1>4. ASSUME NEW j \in 1..(L + 1), applied'[j].mission = mission,
             applied'[j].event \in ReliableEvents
      PROVE  /\ \A i \in 1..(j - 1) : applied'[i] # applied'[j]
             /\ \E b \in 1..Len(raised) :
                  /\ raised[b] = applied'[j].event
                  /\ \A a \in 1..(b - 1) : raised[a] \in ReliableEvents =>
                       \E i \in 1..(j - 1) :
                         applied'[i] = [mission |-> mission, event |-> raised[a]]
  <2>1. CASE j \in 1..L
    <3>1. \A i \in 1..(j - 1) : applied'[i] = applied[i]
      BY <1>1, <2>1
    <3>2. /\ \A i \in 1..(j - 1) : applied[i] # applied[j]
          /\ \E b \in 1..Len(raised) :
               /\ raised[b] = applied[j].event
               /\ \A a \in 1..(b - 1) : raised[a] \in ReliableEvents =>
                    \E i \in 1..(j - 1) :
                      applied[i] = [mission |-> mission, event |-> raised[a]]
      BY <1>1, <1>4, <2>1 DEF OrderInv, ReliableInOrder
    <3>. QED  BY <1>1, <2>1, <3>1, <3>2
  <2>2. CASE j = L + 1
    <3>1. applied'[j] = id /\ j - 1 = L
      BY <1>1, <2>2
    <3>2. PICK b \in 1..Len(raised) :
            /\ raised[b] = m.event
            /\ \A a \in 1..(b - 1) : raised[a] \in ReliableEvents => raised[a] \in Heard
      BY <1>2, <1>4, <3>1
    <3>3. \A a \in 1..(b - 1) : raised[a] \in ReliableEvents =>
            \E i \in 1..L : applied[i] = [mission |-> mission, event |-> raised[a]]
      BY <3>2 DEF Heard, L
    <3>. QED  BY <1>1, <1>2, <1>3, <3>1, <3>2, <3>3
  <2>. QED  BY <1>1, <2>1, <2>2
<1>5. mission' = mission /\ raised' = raised
  OBVIOUS
<1>. QED  BY <1>1, <1>4, <1>5 DEF ReliableInOrder

LEMMA OrderApply ==
  ASSUME MissionInv, OrderInv, WithinLimits, NEW k \in Conns, HandleLine(k),
         UNCHANGED luaVars
  PROVE  OrderInv'
<1>. DEFINE m == Head(toPy[k])
<1>1. /\ TypeOK /\ toPy[k] # <<>> /\ toPy[k] \in Seq(Lines)
      /\ toPy' = [toPy EXCEPT ![k] = Tail(@)]
      /\ UNCHANGED <<link, mission, raised, journal, outQueue>>
      /\ applied \in Seq(EventIds) /\ seen = applied
  BY OrderTypes DEF HandleLine, MissionInv, WriterInv, luaVars, OrderInv
<1>2. m \in Lines
  BY <1>1
<1>3. \/ UNCHANGED <<seen, applied>> /\ (m = Garbled \/ Duplicate(m) \/ m.type # "event")
      \/ /\ m.type = "event" /\ ~Duplicate(m)
         /\ seen' = Noted(m) /\ applied' = Append(applied, EventId(m))
  BY DEF HandleLine, historyVars
<1>4. ~(m = Garbled /\ m.type = "event")
  BY DEF Garbled
<1>5. Duplicate(m) <=> m.type = "event" /\ \E i \in 1..Len(applied) : applied[i] = EventId(m)
  <2>1. DOMAIN applied = 1..Len(applied)
    BY <1>1
  <2>. QED  BY <1>1, <2>1 DEF Duplicate
<1>6. m.type = "event" /\ m.mission = mission /\ m.event \in ReliableEvents =>
        \E b \in 1..Len(raised) :
          /\ raised[b] = m.event
          /\ \A a \in 1..(b - 1) : raised[a] \in ReliableEvents => raised[a] \in Heard
  <2>1. Ordered(toPy[k], Heard, mission, raised)
    BY DEF OrderInv, SentOrdered
  <2>. QED  BY <1>1, <2>1, OrderedHead
<1>. HIDE DEF m
<1>7. m.type = "event" => EventId(m) \in EventIds
  BY <1>2 DEF Lines, Messages, Acks, Snapshots, EventMessages, Heartbeats, Garbled,
              EventId, EventIds
<1>8. (seen = applied)' /\ ReliableInOrder' /\ Heard \subseteq Heard'
      /\ \A e \in ReliableEvents : Shows(m, mission, e) => e \in Heard'
  <2>1. CASE UNCHANGED <<seen, applied>> /\ (m = Garbled \/ Duplicate(m) \/ m.type # "event")
    <3>1. Heard' = Heard
      BY <1>1, <2>1 DEF Heard
    <3>2. ASSUME NEW e \in ReliableEvents, Shows(m, mission, e)
          PROVE  e \in Heard
      <4>1. m.type = "event" /\ EventId(m) = [mission |-> mission, event |-> e]
        BY <3>2 DEF Shows, EventId
      <4>2. \E i \in 1..Len(applied) : applied[i] = EventId(m)
        BY <1>4, <1>5, <2>1, <4>1
      <4>. QED  BY <4>1, <4>2 DEF Heard
    <3>3. ReliableInOrder'
      <4>1. ReliableInOrder /\ mission' = mission /\ raised' = raised /\ applied' = applied
        BY <1>1, <2>1 DEF OrderInv
      <4>. QED  BY <4>1 DEF ReliableInOrder
    <3>. QED  BY <1>1, <2>1, <3>1, <3>2, <3>3
  <2>2. CASE m.type = "event" /\ ~Duplicate(m) /\ seen' = Noted(m)
             /\ applied' = Append(applied, EventId(m))
    <3>1. /\ Len(applied) \in Nat /\ Len(applied') = Len(applied) + 1
          /\ applied'[Len(applied) + 1] = EventId(m)
          /\ \A i \in 1..Len(applied) : applied'[i] = applied[i] /\ i \in 1..Len(applied')
          /\ Len(applied) + 1 \in 1..Len(applied')
      BY <1>1, <1>7, <2>2
    <3>2. seen' = applied'
      <4>1. ~(Len(Append(seen, EventId(m))) > SeenLimit)
        <5>1. Len(seen) < SeenLimit /\ SeenLimit \in Nat
          BY BridgeServerAssumption DEF WithinLimits
        <5>. QED  BY <1>1, <2>2, <3>1, <5>1
      <4>. QED  BY <1>1, <2>2, <4>1 DEF Noted
    <3>3. Heard \subseteq Heard'
      <4>1. ASSUME NEW e \in ReliableEvents, NEW i \in 1..Len(applied),
                   applied[i] = [mission |-> mission, event |-> e]
            PROVE  \E j \in 1..Len(applied') : applied'[j] = [mission |-> mission', event |-> e]
        BY <1>1, <3>1, <4>1
      <4>. QED  BY <4>1 DEF Heard
    <3>4. ASSUME NEW e \in ReliableEvents, Shows(m, mission, e)
          PROVE  e \in Heard'
      <4>1. EventId(m) = [mission |-> mission', event |-> e]
        BY <1>1, <3>4 DEF Shows, EventId
      <4>. QED  BY <3>1, <4>1 DEF Heard
    <3>5. ReliableInOrder'
      BY <1>1, <1>2, <1>6, <1>7, <2>2, ReliableApply
    <3>. QED  BY <3>2, <3>3, <3>4, <3>5
  <2>. QED  BY <1>3, <2>1, <2>2
<1>9. \A j \in Conns :
        /\ Ordered(toPy'[j], Heard', mission, raised)
        /\ link[j] = "up" => /\ Ordered(toPy'[j] \o outQueue, Heard', mission, raised)
                             /\ Full(toPy'[j] \o outQueue, Heard', mission, raised)
  <2>. DEFINE H == Heard'
  <2>1. Heard \subseteq H /\ \A e \in ReliableEvents : Shows(m, mission, e) => e \in H
    BY <1>8
  <2>. HIDE DEF H
  <2>2. \A j \in Conns :
          /\ Ordered(toPy'[j], H, mission, raised)
          /\ link[j] = "up" => /\ Ordered(toPy'[j] \o outQueue, H, mission, raised)
                               /\ Full(toPy'[j] \o outQueue, H, mission, raised)
    BY <1>1, <2>1, StreamTaken DEF m
  <2>. QED  BY <2>2 DEF H
<1>10. SentOrdered' /\ StreamOrdered'
  BY <1>1, <1>9 DEF SentOrdered, StreamOrdered, Stream
<1>11. QueueRaised' /\ JournalOrdered'
  BY <1>1 DEF OrderInv, QueueRaised, JournalOrdered
<1>. QED  BY <1>8, <1>10, <1>11 DEF OrderInv

LEMMA OrderStep ==
  ASSUME MissionInv, Whole, OrderInv, WithinLimits, HasRoom', [Next]_vars
  PROVE  OrderInv'
<1>1. TypeOK /\ toPy \in [Conns -> Seq(Lines)] /\ link \in [Conns -> {"unused", "up", "down"}]
  BY OrderTypes DEF MissionInv, WriterInv
<1>2. CASE LuaNext /\ UNCHANGED serverVars
  BY <1>2, OrderLua
<1>3. ASSUME UNCHANGED <<luaVars, seen, applied>>,
             \A k \in Conns : toPy'[k] = toPy[k] \/ toPy'[k] \in Arriving(toPy[k]),
             \A k \in Conns : link'[k] = "up" => link[k] = "up" /\ toPy'[k] = toPy[k]
      PROVE  OrderInv'
  <2>1. UNCHANGED <<mission, raised, journal, seen, applied, outQueue>>
    BY <1>3 DEF luaVars
  <2>2. QueueRaised'
    BY <2>1 DEF OrderInv, QueueRaised
  <2>3. \A k \in Conns : Ordered(toPy'[k], Heard, mission, raised)
    BY <1>1, <1>3, OrderedPrefix DEF OrderInv, SentOrdered
  <2>4. \A k \in Conns : link'[k] = "up" =>
          /\ Ordered(toPy'[k] \o outQueue', Heard, mission, raised)
          /\ Full(toPy'[k] \o outQueue', Heard, mission, raised)
    BY <1>3, <2>1 DEF OrderInv, StreamOrdered, Stream
  <2>. QED  BY <2>1, <2>2, <2>3, <2>4, OrderKept
<1>4. ASSUME NEW k \in Conns, NEW s \in Arriving(toPy[k]), toPy' = [toPy EXCEPT ![k] = s],
             link' = [link EXCEPT ![k] = "down"], UNCHANGED <<luaVars, seen, applied>>
      PROVE  OrderInv'
  <2>1. \A j \in Conns : /\ link'[j] = IF j = k THEN "down" ELSE link[j]
                         /\ toPy'[j] = IF j = k THEN s ELSE toPy[j]
    BY <1>1, <1>4
  <2>. QED  BY <1>3, <1>4, <2>1
<1>5. ASSUME NEW k \in Conns, Break(k), UNCHANGED <<luaVars, serverVars>>
      PROVE  OrderInv'
  BY <1>4, <1>5 DEF Break, serverVars, historyVars
<1>6. ASSUME UNCHANGED <<luaVars, seen, applied, toPy, link>>
      PROVE  OrderInv'
  BY <1>3, <1>6
<1>7. ASSUME NEW k \in Conns, AcceptConnection(k), UNCHANGED luaVars
      PROVE  OrderInv'
  <2>1. UNCHANGED <<seen, applied>>
    BY <1>7 DEF AcceptConnection, historyVars
  <2>2. CASE writer = NoConn
    BY <1>6, <1>7, <2>1, <2>2 DEF AcceptConnection, wireVars
  <2>3. CASE writer # NoConn
    <3>1. writer \in Conns
      BY <1>1, <2>3 DEF TypeOK, ServerTypeOK
    <3>2. PICK s \in Arriving(toPy[writer]) : toPy' = [toPy EXCEPT ![writer] = s]
      BY <1>7, <2>3 DEF AcceptConnection
    <3>3. link' = [link EXCEPT ![writer] = "down"]
      BY <1>7, <2>3 DEF AcceptConnection
    <3>. QED  BY <1>4, <1>7, <2>1, <3>1, <3>2, <3>3
  <2>. QED  BY <2>2, <2>3
<1>8. ASSUME NEW k \in Conns, ResendCommand(k) \/ CloseConnection(k), UNCHANGED luaVars
      PROVE  OrderInv'
  BY <1>6, <1>8 DEF ResendCommand, CloseConnection, wireVars, historyVars
<1>9. ASSUME NEW k \in Conns, HandleLine(k), UNCHANGED luaVars
      PROVE  OrderInv'
  BY <1>9, OrderApply
<1>10. ASSUME NEW c \in Commands, SendCommand(c) \/ TimeOut(c), UNCHANGED luaVars
       PROVE  OrderInv'
  BY <1>6, <1>10 DEF SendCommand, TimeOut, wireVars, historyVars
<1>11. CASE UNCHANGED vars
  BY <1>6, <1>11 DEF vars, wireVars, serverVars
<1>. QED
  BY <1>2, <1>5, <1>7, <1>8, <1>9, <1>10, <1>11 DEF Next, ServerNext, Network

LEMMA OrderStart == Init => OrderInv
<1>. SUFFICES ASSUME Init PROVE OrderInv
  OBVIOUS
<1>1. /\ toPy = [k \in Conns |-> <<>>] /\ link = [k \in Conns |-> "unused"]
      /\ outQueue = <<>> /\ journal = <<>> /\ raised = <<>> /\ seen = <<>> /\ applied = <<>>
  BY DEF Init, WireInit, LuaInit, ServerInit
<1>2. \A H, n : Ordered(<<>>, H, n, <<>>) /\ Full(<<>>, H, n, <<>>)
  BY DEF Ordered, Full, Caught
<1>3. QueueRaised /\ JournalOrdered /\ SentOrdered /\ StreamOrdered
  BY <1>1, <1>2 DEF QueueRaised, JournalOrdered, SentOrdered, StreamOrdered
<1>4. ReliableInOrder
  BY <1>1 DEF ReliableInOrder
<1>. QED  BY <1>1, <1>3, <1>4 DEF OrderInv

\* As long as the queue, the journal and the window of remembered ids do not fill
\* up, what the mirror has seen of a mission's reliable events is a prefix of what
\* was raised, however connections fail and are replaced.
THEOREM AppliedInOrderHolds == Spec /\ []WithinLimits => []AppliedInOrder
<1>1. WithinLimits => HasRoom
  BY DEF WithinLimits
<1>2. SnapshotInv /\ HasRoom /\ [Next]_vars => SnapshotInv'
  BY SnapshotStep
<1>3. SnapshotInv => Whole
  BY DEF SnapshotInv
<1>4. MissionInv /\ Whole /\ OrderInv /\ WithinLimits /\ HasRoom' /\ [Next]_vars => OrderInv'
  BY OrderStep
<1>5. MissionInv /\ OrderInv => AppliedInOrder
  BY DEF MissionInv, OrderInv, AppliedInOrder
<1>. QED
  BY <1>1, <1>2, <1>3, <1>4, <1>5, SnapshotStart, MissionStart, MissionStep, OrderStart,
     PTL DEF Spec

=============================================================================
