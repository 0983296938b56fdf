-------------------------------- MODULE Speech --------------------------------
(***************************************************************************)
(* Radio speech inside the mission, lua/MooseBridgeSpeechExtension.lua: a  *)
(* client owns the service, hands it spoken intents, and a scheduler tick  *)
(* arbitrates who transmits on which network.  speech.py only validates    *)
(* its arguments and sends the commands.                                   *)
(*                                                                         *)
(* Lua runs on the one thread of the mission: a command, a callback or a   *)
(* tick is one step.  A unit of `now' is the time between two ticks.       *)
(***************************************************************************)
EXTENDS Integers, FiniteSets

CONSTANTS
  Intents, Senders, Networks, Owners, Sessions,
  NoOwner, NoSession, NoKey, Silent,
  SenderOf, NetworkOf, SessionOf, DedupeKey,  \* what an intent is enqueued with,
  Priority, Duration, TimeToLive,             \* by _EnqueueSpeech
  Emergency,         \* the intents urgent enough, and allowed, to break in
  Interval,          \* interval_s of a network's profiles
  ModeChoices,       \* the arbitration modes a client may configure
  Backoff,           \* _SpeechBackoff of the intent with a serial number
  Collides,          \* the serial numbers _SpeechCollision is true of
  MaxDuration,       \* 600: the longest speech HoundTTS may estimate
  MaxInterval,       \* 30: the longest interval_s of a profile
  HistoryTTL,        \* 3600: how long the end of an intent is remembered
  MaxSerial, MaxTime \* bounds of the model, not of the code

Modes == {"strict", "disciplined", "congested", "uncontrolled"}

ASSUME SpeechAssumption ==
  /\ NoOwner \notin Owners /\ NoSession \notin Sessions
  /\ SenderOf \in [Intents -> Senders]
  /\ NetworkOf \in [Intents -> Networks]
  /\ SessionOf \in [Intents -> Sessions \cup {NoSession}]
  /\ Priority \in [Intents -> Nat]
  /\ MaxDuration \in Nat /\ Duration \in [Intents -> 1..MaxDuration]
  /\ TimeToLive \in [Intents -> Nat \ {0}]
  /\ Emergency \subseteq Intents
  /\ MaxInterval \in Nat /\ Interval \in [Networks -> 0..MaxInterval]
  /\ ModeChoices \subseteq [Networks -> Modes]
  /\ MaxSerial \in Nat /\ MaxTime \in Nat /\ HistoryTTL \in Nat
  /\ Backoff \in [1..MaxSerial -> Nat]

Transmissions == [intent : Intents, ends : Nat]

ASSUME SilentAssumption == Silent \notin Transmissions

VARIABLES
  now,        \* speech_now
  owner,      \* SpeechConfig.owner_id, or NoOwner
  mode,       \* the arbitration of the configured networks
  waiting,    \* the queues of all senders
  lastSerial, \* SpeechSerial
  active,     \* sender.active: what each sender is transmitting
  busyUntil,  \* network.busy_until
  history,    \* SpeechIntentHistory
  aired       \* history: what went to MSRS since the queues were cleared

vars == <<now, owner, mode, waiting, lastSerial, active, busyUntil, history, aired>>
queueVars == <<waiting, lastSerial, active, busyUntil, history, aired>>

Ended == {"completed", "superseded", "expired", "dropped", "canceled"}
Entries == [intent : Intents, serial : 1..MaxSerial, expires : Nat, available : Nat]
Airings == [intent : Intents, serial : 1..MaxSerial, start : Nat]
Unknown == [status |-> "unknown", at |-> 0]

TypeOK ==
  /\ now \in Nat
  /\ owner \in Owners \cup {NoOwner}
  /\ mode \in [Networks -> Modes]
  /\ waiting \subseteq Entries
  /\ lastSerial \in 0..MaxSerial
  /\ active \in [Senders -> Transmissions \cup {Silent}]
  /\ busyUntil \in [Networks -> Nat]
  /\ history \in [Intents -> [status : Ended \cup {"unknown", "queued", "transmitting"},
                              at : Nat]]
  /\ aired \subseteq Airings

-----------------------------------------------------------------------------
(* The queues.                                                             *)

Sender(w) == SenderOf[w.intent]
Network(w) == NetworkOf[w.intent]

\* The order of a queue and of the arbitration: priority, then age.
Precedes(v, w) ==
  \/ Priority[v.intent] > Priority[w.intent]
  \/ Priority[v.intent] = Priority[w.intent] /\ v.serial < w.serial

Firsts(W) == {w \in W : \A v \in W \ {w} : Precedes(w, v)}
QueueOf(s, W) == {w \in W : Sender(w) = s}

\* _ClearSpeechQueues: the audio already with MSRS goes on.
ClearQueues ==
  /\ waiting' = {}
  /\ lastSerial' = 0
  /\ active' = [s \in Senders |-> Silent]
  /\ busyUntil' = [n \in Networks |-> 0]
  /\ history' = [i \in Intents |-> Unknown]
  /\ aired' = {}

\* What the history says once the intents of W ended with a status.
Recorded(h, W, status) ==
  [i \in Intents |-> IF \E w \in W : w.intent = i
                     THEN [status |-> status, at |-> now] ELSE h[i]]

\* _SpeechDrop of the entries W outside a tick.
Drop(W, status) ==
  /\ waiting' = waiting \ W
  /\ history' = Recorded(history, W, status)
  /\ UNCHANGED <<now, owner, mode, lastSerial, active, busyUntil, aired>>

Init ==
  /\ now = 0
  /\ owner = NoOwner
  /\ mode \in ModeChoices
  /\ waiting = {}
  /\ lastSerial = 0
  /\ active = [s \in Senders |-> Silent]
  /\ busyUntil = [n \in Networks |-> 0]
  /\ history = [i \in Intents |-> Unknown]
  /\ aired = {}

-----------------------------------------------------------------------------
(* Commands and callbacks.                                                 *)

\* speech.configure, enabled: whoever asks becomes the owner.
Configure(o, m) ==
  /\ owner' = o
  /\ mode' = m
  /\ ClearQueues
  /\ UNCHANGED now

\* speech.configure, not enabled: only the owner's has an effect.
Release(o) ==
  /\ owner = o
  /\ owner' = NoOwner
  /\ ClearQueues
  /\ UNCHANGED <<now, mode>>

\* OnEventMissionEnd and _StopDcsEventForwarding.
Shutdown ==
  /\ owner' = NoOwner
  /\ ClearQueues
  /\ UNCHANGED <<now, mode>>

\* What a new intent supersedes in its sender's queue.
Superseded(i) ==
  {w \in QueueOf(SenderOf[i], waiting) :
     DedupeKey[i] # NoKey /\ DedupeKey[w.intent] = DedupeKey[i]}

\* speech.enqueue of an intent whose sender can be resolved.  An intent with
\* a history is answered with its recorded status, and nothing changes.
Enqueue(o, i) ==
  /\ owner = o
  /\ history[i].status = "unknown"
  /\ lastSerial < MaxSerial /\ now + TimeToLive[i] <= MaxTime
  /\ lastSerial' = lastSerial + 1
  /\ waiting' = (waiting \ Superseded(i)) \cup
       {[intent |-> i, serial |-> lastSerial + 1,
         expires |-> now + TimeToLive[i], available |-> now]}
  /\ history' = [Recorded(history, Superseded(i), "superseded")
                   EXCEPT ![i] = [status |-> "queued", at |-> 0]]
  /\ UNCHANGED <<now, owner, mode, active, busyUntil, aired>>

\* A fault: the transmissions are forgotten with the queues.
FaultyClearPending(o) ==
  /\ owner = o
  /\ waiting' = {}
  /\ history' = Recorded(history, waiting, "canceled")
  /\ active' = [s \in Senders |-> Silent]
  /\ UNCHANGED <<now, owner, mode, lastSerial, busyUntil, aired>>

\* A fault: a status that is not one.
FaultyClearSender(o, s) ==
  /\ owner = o
  /\ Drop(QueueOf(s, waiting), "cancelled")

\* speech.clear of everything pending, or of one sender.
ClearPending(o) ==
  /\ owner = o
  /\ Drop(waiting, "canceled")

ClearSender(o, s) ==
  /\ owner = o
  /\ Drop(QueueOf(s, waiting), "canceled")

\* _RemoveSpeechMenuSession: the player's menu session ended.
EndSession(p) == Drop({w \in waiting : SessionOf[w.intent] = p}, "dropped")

-----------------------------------------------------------------------------
(* _SpeechTick at time now: first what is over is put away.                *)

\* A fault: an intent may still wait at its last tick.
FaultyExpired == {w \in waiting : now > w.expires}

Over(s) == active[s] # Silent /\ now >= active[s].ends
Expired == {w \in waiting : now >= w.expires}
Live == waiting \ Expired
Idle(s) == active[s] = Silent \/ Over(s)

\* The head of every idle sender's queue that may transmit on n.
Candidates(n) ==
  {w \in UNION {Firsts(QueueOf(s, Live)) : s \in {s \in Senders : Idle(s)}} :
     Network(w) = n /\ now >= w.available}

Busy(n) == now < busyUntil[n]
Colliding(W) == {w \in W : w.serial \in Collides}
BreakIns(W) == {w \in W : w.intent \in Emergency}

\* The candidates _SpeechTick calls _StartSpeechIntent with.
AttemptedOnFree(n) ==
  Firsts(Candidates(n)) \cup
    (IF mode[n] = "congested" THEN Colliding(Candidates(n)) ELSE {})

AttemptedOnBusy(n) ==
  CASE BreakIns(Candidates(n)) # {} -> Firsts(BreakIns(Candidates(n)))
    [] BreakIns(Candidates(n)) = {} /\ mode[n] = "congested" ->
         Firsts(Colliding(Candidates(n)))
    [] OTHER -> {}

Attempted(n) ==
  CASE mode[n] = "uncontrolled" -> Candidates(n)
    [] mode[n] # "uncontrolled" /\ Busy(n) -> AttemptedOnBusy(n)
    [] OTHER -> AttemptedOnFree(n)

Attempts == UNION {Attempted(n) : n \in Networks}

\* transmission.ends_at and guard_until of an intent that starts now.
EndsAt(w) == now + Duration[w.intent]
GuardUntil(w) == EndsAt(w) + Interval[Network(w)]

\* A fault: the last transmission decides how long a network is reserved.
FaultyNextBusyUntil(n, started) ==
  LET guards == {GuardUntil(w) : w \in {v \in started : Network(v) = n}}
  IN  IF guards = {} THEN busyUntil[n] ELSE CHOOSE g \in guards : \A h \in guards : h <= g

NextBusyUntil(n, started) ==
  LET guards == {busyUntil[n]} \cup {GuardUntil(w) : w \in {v \in started : Network(v) = n}}
  IN  CHOOSE g \in guards : \A h \in guards : h <= g

\* A fault: losers back off on strict networks too.
FaultyRetry(w, n, busy) == busy + Backoff[w.serial]

\* The losers of an arbitration wait for the network, and then back off.
Retry(w, n, busy) ==
  busy + (IF mode[n] = "strict" THEN 0 ELSE Backoff[w.serial])

Later(w, t) == IF w.available < t THEN [w EXCEPT !.available = t] ELSE w

Deferred(w, busy) ==
  IF w \in Candidates(Network(w)) /\ mode[Network(w)] # "uncontrolled"
  THEN Later(w, Retry(w, Network(w), busy[Network(w)]))
  ELSE w

\* The history after a tick, before old ends are forgotten: a tick puts away
\* what is over, then what expired, and then starts or drops what it attempts.
TickHistory(started, failed) ==
  LET completed == {active[s] : s \in {s \in Senders : Over(s)}}
      holds(W, i) == \E w \in W : w.intent = i
  IN  [i \in Intents |->
         IF holds(started, i) THEN [status |-> "transmitting", at |-> 0]
         ELSE IF holds(failed, i) THEN [status |-> "dropped", at |-> now]
         ELSE IF holds(Expired, i) THEN [status |-> "expired", at |-> now]
         ELSE IF holds(completed, i) THEN [status |-> "completed", at |-> now]
         ELSE history[i]]

\* A fault: what ended is forgotten at once.
FaultyPurged(h) ==
  [i \in Intents |-> IF h[i].status \in Ended THEN Unknown ELSE h[i]]

Purged(h) ==
  [i \in Intents |-> IF h[i].status \in Ended /\ now - h[i].at > HistoryTTL
                     THEN Unknown ELSE h[i]]

\* What each sender is transmitting after a tick.
NextActive(started) ==
  [s \in Senders |->
    IF \E w \in started : Sender(w) = s
    THEN LET w == CHOOSE w \in started : Sender(w) = s
         IN  [intent |-> w.intent, ends |-> EndsAt(w)]
    ELSE IF Over(s) THEN Silent ELSE active[s]]

Airing(w) == [intent |-> w.intent, serial |-> w.serial, start |-> now]

\* An attempt fails when its sender is gone or changed sides, or MSRS raises.
Tick(failed) ==
  LET started == Attempts \ failed
      busy == [n \in Networks |-> NextBusyUntil(n, started)]
  IN  /\ owner # NoOwner
      /\ now <= MaxTime
      /\ now' = now + 1
      /\ waiting' = {Deferred(w, busy) : w \in Live \ Attempts}
      /\ active' = NextActive(started)
      /\ busyUntil' = busy
      /\ history' = Purged(TickHistory(started, failed))
      /\ aired' = aired \cup {Airing(w) : w \in started}
      /\ UNCHANGED <<owner, mode, lastSerial>>

\* The bridge's tick while nobody owns the service.
QuietTick ==
  /\ owner = NoOwner
  /\ now <= MaxTime
  /\ now' = now + 1
  /\ UNCHANGED <<owner, mode, queueVars>>

-----------------------------------------------------------------------------

Command(o) ==
  \/ \E m \in ModeChoices : Configure(o, m)
  \/ Release(o)
  \/ \E i \in Intents : Enqueue(o, i)
  \/ ClearPending(o)
  \/ \E s \in Senders : ClearSender(o, s)

SomeTick == \E failed \in SUBSET Attempts : Tick(failed)

Next ==
  \/ \E o \in Owners : Command(o)
  \/ Shutdown
  \/ \E p \in Sessions : EndSession(p)
  \/ SomeTick
  \/ QuietTick

Spec == Init /\ [][Next]_vars

-----------------------------------------------------------------------------
(* Properties.                                                             *)

Exclusive(n) == mode[n] \in {"strict", "disciplined"}
GuardOf(a) == a.start + Duration[a.intent] + Interval[Network(a)]

\* On a strict or disciplined network two transmissions never share the air,
\* the guard interval included, unless the later one is an emergency's break in.
OneAtATime ==
  \A a, b \in aired :
    /\ Network(a) = Network(b) /\ Exclusive(Network(a))
    /\ a # b /\ a.start <= b.start
    => /\ a.start # b.start
       /\ b.intent \in Emergency \/ GuardOf(a) <= b.start

\* A sender never speaks twice at once, on whatever networks, whatever was
\* cleared or ended in between.
SenderNeverDouble ==
  \A a, b \in aired :
    Sender(a) = Sender(b) /\ a # b /\ a.start <= b.start =>
      a.start + Duration[a.intent] <= b.start

\* An enqueue that is repeated (a client that timed out) is not spoken again,
\* unless it comes so long after the end that the bridge has forgotten it.
SpokenOnce ==
  \A a, b \in aired :
    a.intent = b.intent /\ a # b /\ a.start <= b.start =>
      a.start + Duration[a.intent] + HistoryTTL < b.start

\* On a strict network that is free no sender that could speak is overtaken:
\* the transmission that starts precedes what heads the queue of every idle
\* sender and goes on waiting, those that lost an earlier arbitration included.
StrictPriority ==
  [][\A a \in aired' \ aired, s \in Senders :
       mode[Network(a)] = "strict" /\ ~ Busy(Network(a)) /\ Idle(s) =>
         \A w \in Firsts(QueueOf(s, Live)) :
           Network(w) = Network(a) /\ history'[w.intent].status = "queued" =>
             ~ Precedes(w, a)]_vars

\* No intent waits past its time to live and no sender is left transmitting,
\* whatever the traffic: every tick takes what is over out, so that a queue
\* drains in bounded time.
NothingOverdue ==
  /\ \A w \in waiting : now <= w.expires
  /\ \A s \in Senders : active[s] # Silent => now <= active[s].ends
=============================================================================
