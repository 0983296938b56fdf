----------------------------- MODULE Speech_proofs ----------------------------
(***************************************************************************)
(* Theorems about Speech for every value of its constants.                 *)
(***************************************************************************)
EXTENDS Speech, Queues_proofs

-----------------------------------------------------------------------------
(* What the operators return.                                               *)

\* What is known of an entry of a queue.
LEMMA EntryTyped ==
  ASSUME NEW w \in Entries
  PROVE  /\ w.intent \in Intents /\ w.serial \in 1..MaxSerial
         /\ w.expires \in Nat /\ w.available \in Nat
         /\ Sender(w) \in Senders /\ Network(w) \in Networks
         /\ Duration[w.intent] \in Nat /\ Duration[w.intent] >= 1
         /\ Duration[w.intent] <= MaxDuration
         /\ Priority[w.intent] \in Nat
         /\ Interval[Network(w)] \in Nat /\ Interval[Network(w)] <= MaxInterval
         /\ Backoff[w.serial] \in Nat
         /\ MaxDuration \in Nat /\ MaxInterval \in Nat
<1>1. w.intent \in Intents /\ w.serial \in 1..MaxSerial /\ w.expires \in Nat /\ w.available \in Nat
  BY DEF Entries
<1>2. Sender(w) \in Senders /\ Network(w) \in Networks
  BY <1>1, SpeechAssumption DEF Sender, Network
<1>3. Duration[w.intent] \in 1..MaxDuration /\ Priority[w.intent] \in Nat /\ MaxDuration \in Nat
  BY <1>1, SpeechAssumption
<1>4. Interval[Network(w)] \in 0..MaxInterval /\ MaxInterval \in Nat
  BY <1>2, SpeechAssumption
<1>5. Backoff[w.serial] \in Nat
  BY <1>1, SpeechAssumption
<1>. QED  BY <1>1, <1>2, <1>3, <1>4, <1>5

\* A transmission that was handed to MSRS is typed like the entry it was.
LEMMA AiringTyped ==
  ASSUME NEW a \in Airings
  PROVE  /\ a.intent \in Intents /\ a.serial \in 1..MaxSerial /\ a.start \in Nat
         /\ Sender(a) \in Senders /\ Network(a) \in Networks
         /\ Duration[a.intent] \in Nat /\ Duration[a.intent] >= 1
         /\ Interval[Network(a)] \in Nat
<1>1. a.intent \in Intents /\ a.serial \in 1..MaxSerial /\ a.start \in Nat
  BY DEF Airings
<1>2. Sender(a) \in Senders /\ Network(a) \in Networks
  BY <1>1, SpeechAssumption DEF Sender, Network
<1>3. Duration[a.intent] \in 1..MaxDuration /\ MaxDuration \in Nat
  BY <1>1, SpeechAssumption
<1>4. Interval[Network(a)] \in 0..MaxInterval /\ MaxInterval \in Nat
  BY <1>2, SpeechAssumption
<1>. QED  BY <1>1, <1>2, <1>3, <1>4

LEMMA SameAiring ==
  ASSUME NEW a \in Airings, NEW b \in Airings,
         a.intent = b.intent, a.serial = b.serial, a.start = b.start
  PROVE  a = b
  BY DEF Airings

\* A queue has at most one head: serial numbers break ties.
LEMMA FirstsUnique ==
  ASSUME NEW W \in SUBSET Entries, NEW v \in Firsts(W), NEW w \in Firsts(W)
  PROVE  v = w
<1>. SUFFICES ASSUME v # w PROVE FALSE
  OBVIOUS
<1>1. v \in W /\ w \in W
  BY DEF Firsts
<1>2. Precedes(v, w) /\ Precedes(w, v)
  BY <1>1 DEF Firsts
<1>3. /\ Priority[v.intent] \in Nat /\ Priority[w.intent] \in Nat
      /\ v.serial \in Int /\ w.serial \in Int
  BY <1>1, EntryTyped
<1>. QED  BY <1>2, <1>3 DEF Precedes

\* A candidate heads the queue of an idle sender.
LEMMA CandidateHeads ==
  ASSUME NEW n \in Networks, NEW w \in Candidates(n), waiting \subseteq Entries
  PROVE  /\ w \in Live /\ w \in waiting /\ w \in Entries
         /\ Network(w) = n /\ now >= w.available
         /\ Idle(Sender(w)) /\ w \in Firsts(QueueOf(Sender(w), Live))
<1>1. Network(w) = n /\ now >= w.available
  BY DEF Candidates
<1>2. PICK s \in Senders : Idle(s) /\ w \in Firsts(QueueOf(s, Live))
  BY DEF Candidates
<1>3. w \in Live /\ Sender(w) = s
  BY <1>2 DEF Firsts, QueueOf
<1>. QED  BY <1>1, <1>2, <1>3 DEF Live

LEMMA AttemptedAreCandidates ==
  ASSUME NEW n \in Networks
  PROVE  Attempted(n) \subseteq Candidates(n)
<1>1. AttemptedOnFree(n) \subseteq Candidates(n)
  BY DEF AttemptedOnFree, Firsts, Colliding
<1>2. AttemptedOnBusy(n) \subseteq Candidates(n)
  BY DEF AttemptedOnBusy, Firsts, Colliding, BreakIns
<1>. QED  BY <1>1, <1>2 DEF Attempted

\* What the scheduler attempts heads the queue of an idle sender.
LEMMA AttemptHeads ==
  ASSUME waiting \subseteq Entries, NEW w \in Attempts
  PROVE  /\ w \in Live /\ w \in waiting /\ w \in Entries
         /\ w \in Attempted(Network(w)) /\ w \in Candidates(Network(w))
         /\ Idle(Sender(w)) /\ w \in Firsts(QueueOf(Sender(w), Live))
<1>1. PICK n \in Networks : w \in Attempted(n)
  BY DEF Attempts
<1>2. w \in Candidates(n)
  BY <1>1, AttemptedAreCandidates
<1>. QED  BY <1>1, <1>2, CandidateHeads

LEMMA OnePerSender ==
  ASSUME waiting \subseteq Entries, NEW v \in Attempts, NEW w \in Attempts, Sender(v) = Sender(w)
  PROVE  v = w
<1>1. v \in Firsts(QueueOf(Sender(w), Live)) /\ w \in Firsts(QueueOf(Sender(w), Live))
  BY AttemptHeads
<1>2. QueueOf(Sender(w), Live) \in SUBSET Entries
  BY DEF QueueOf, Live
<1>. QED  BY <1>1, <1>2, FirstsUnique

\* On an exclusive network one intent at most is attempted, and on a busy
\* one only an emergency.
LEMMA ExclusiveAttempt ==
  ASSUME waiting \subseteq Entries, NEW n \in Networks, Exclusive(n), NEW w \in Attempted(n)
  PROVE  /\ \A v \in Attempted(n) : v = w
         /\ Busy(n) => w.intent \in Emergency
         /\ ~ Busy(n) => w \in Firsts(Candidates(n))
<1>. mode[n] # "uncontrolled" /\ mode[n] # "congested"
  BY DEF Exclusive
<1>1. Candidates(n) \in SUBSET Entries /\ BreakIns(Candidates(n)) \in SUBSET Entries
  BY CandidateHeads DEF BreakIns
<1>2. CASE Busy(n)
  <2>1. Attempted(n) = AttemptedOnBusy(n)
    BY <1>2 DEF Attempted
  <2>2. Attempted(n) = Firsts(BreakIns(Candidates(n)))
    BY <2>1 DEF AttemptedOnBusy
  <2>3. w.intent \in Emergency
    BY <2>2 DEF Firsts, BreakIns
  <2>. QED  BY <1>1, <1>2, <2>2, <2>3, FirstsUnique
<1>3. CASE ~ Busy(n)
  <2>1. Attempted(n) = Firsts(Candidates(n))
    BY <1>3 DEF Attempted, AttemptedOnFree
  <2>. QED  BY <1>1, <1>3, <2>1, FirstsUnique
<1>. QED  BY <1>2, <1>3

\* A reservation never shortens, and covers all that starts.
LEMMA ReservationGrows ==
  ASSUME TypeOK, NEW n \in Networks, NEW started \in SUBSET waiting
  PROVE  /\ NextBusyUntil(n, started) \in Nat
         /\ busyUntil[n] <= NextBusyUntil(n, started)
         /\ \A w \in started : Network(w) = n => GuardUntil(w) <= NextBusyUntil(n, started)
<1>. DEFINE guards == {busyUntil[n]} \cup {GuardUntil(w) : w \in {v \in started : Network(v) = n}}
            bound == busyUntil[n] + now + MaxDuration + MaxInterval
<1>1. busyUntil[n] \in Nat /\ now \in Nat /\ MaxDuration \in Nat /\ MaxInterval \in Nat
  BY SpeechAssumption DEF TypeOK
<1>2. bound \in Nat /\ busyUntil[n] <= bound
  BY <1>1
<1>3. ASSUME NEW w \in started PROVE GuardUntil(w) \in Nat /\ GuardUntil(w) <= bound
  <2>1. w \in Entries
    BY DEF TypeOK
  <2>. QED  BY <1>1, <2>1, EntryTyped DEF GuardUntil, EndsAt
<1>4. guards \in SUBSET Nat /\ guards # {} /\ \A g \in guards : g <= bound
  BY <1>1, <1>2, <1>3
<1>5. \E g \in guards : \A h \in guards : h <= g
  <2>. HIDE DEF guards, bound
  <2>. QED  BY <1>2, <1>4, GreatestNatural
<1>6. NextBusyUntil(n, started) \in guards /\ \A h \in guards : h <= NextBusyUntil(n, started)
  <2>1. NextBusyUntil(n, started) = CHOOSE g \in guards : \A h \in guards : h <= g
    BY DEF NextBusyUntil
  <2>. HIDE DEF guards
  <2>. QED  BY <1>5, <2>1, Zenon
<1>. QED  BY <1>4, <1>6

-----------------------------------------------------------------------------
(* The invariant.                                                           *)

\* Without an owner there is nothing to arbitrate.
QuietUnowned ==
  owner = NoOwner =>
    waiting = {} /\ aired = {} /\ \A s \in Senders : active[s] = Silent

\* A transmission is over, or it is what its sender still transmits.
Covered ==
  \A a \in aired :
    /\ a.start < now
    /\ \/ a.start + Duration[a.intent] <= now
       \/ /\ active[Sender(a)] # Silent
          /\ active[Sender(a)].ends = a.start + Duration[a.intent]

\* The reservation of a network covers all that was transmitted on it.
Reserved == \A a \in aired : GuardOf(a) <= busyUntil[Network(a)]

\* A strict network defers nobody past the end of its reservation.
DeferredInBounds ==
  \A w \in waiting :
    mode[Network(w)] = "strict" =>
      w.available <= now \/ w.available <= busyUntil[Network(w)]

IInv ==
  /\ TypeOK /\ QuietUnowned /\ NothingOverdue
  /\ Covered /\ Reserved /\ DeferredInBounds
  /\ OneAtATime /\ SenderNeverDouble

\* All of it but what is said of the transmissions.
QueueInv == TypeOK /\ QuietUnowned /\ NothingOverdue /\ DeferredInBounds
AirInv == Covered /\ Reserved /\ OneAtATime /\ SenderNeverDouble

LEMMA SilentTyped == Silent \notin Transmissions
  BY SilentAssumption

\* Where the queues are cleared nothing is left to violate the invariant.
LEMMA ClearedInv ==
  ASSUME now \in Nat, now' = now, owner' \in Owners \cup {NoOwner},
         mode' \in [Networks -> Modes], ClearQueues
  PROVE  IInv'
<1>1. /\ waiting' = {} /\ lastSerial' = 0 /\ aired' = {}
      /\ active' = [s \in Senders |-> Silent]
      /\ busyUntil' = [n \in Networks |-> 0]
      /\ history' = [i \in Intents |-> Unknown]
  BY DEF ClearQueues
<1>2. TypeOK'
  <2>1. Unknown \in [status : Ended \cup {"unknown", "queued", "transmitting"}, at : Nat]
    BY DEF Unknown
  <2>2. 0 \in 0..MaxSerial
    BY SpeechAssumption
  <2>. QED  BY <1>1, <2>1, <2>2 DEF TypeOK
<1>3. QuietUnowned' /\ NothingOverdue' /\ DeferredInBounds'
  BY <1>1 DEF QuietUnowned, NothingOverdue, DeferredInBounds
<1>4. Covered' /\ Reserved' /\ OneAtATime' /\ SenderNeverDouble'
  BY <1>1 DEF Covered, Reserved, OneAtATime, SenderNeverDouble
<1>. QED  BY <1>2, <1>3, <1>4 DEF IInv

LEMMA InitInv == Init => IInv
<1>. SUFFICES ASSUME Init PROVE IInv
  OBVIOUS
<1>1. /\ now = 0 /\ waiting = {} /\ lastSerial = 0 /\ aired = {}
      /\ active = [s \in Senders |-> Silent] /\ owner = NoOwner
      /\ busyUntil = [n \in Networks |-> 0] /\ mode \in ModeChoices
      /\ history = [i \in Intents |-> Unknown]
  BY DEF Init
<1>2. TypeOK
  <2>1. Unknown \in [status : Ended \cup {"unknown", "queued", "transmitting"}, at : Nat]
    BY DEF Unknown
  <2>2. 0 \in 0..MaxSerial /\ mode \in [Networks -> Modes]
    BY <1>1, SpeechAssumption
  <2>. QED  BY <1>1, <2>1, <2>2 DEF TypeOK
<1>3. QuietUnowned /\ NothingOverdue /\ DeferredInBounds
  BY <1>1 DEF QuietUnowned, NothingOverdue, DeferredInBounds
<1>4. Covered /\ Reserved /\ OneAtATime /\ SenderNeverDouble
  BY <1>1 DEF Covered, Reserved, OneAtATime, SenderNeverDouble
<1>. QED  BY <1>2, <1>3, <1>4 DEF IInv

\* The steps that leave the transmissions, the networks and the time alone.
LEMMA AirUnchanged ==
  ASSUME IInv, UNCHANGED <<now, mode, active, busyUntil, aired>>
  PROVE  Covered' /\ Reserved' /\ OneAtATime' /\ SenderNeverDouble'
<1>1. Covered' /\ Reserved'
  BY DEF IInv, Covered, Reserved, Sender, Network, GuardOf
<1>2. OneAtATime' /\ SenderNeverDouble'
  BY DEF IInv, OneAtATime, SenderNeverDouble, Sender, Network, GuardOf, Exclusive
<1>. QED  BY <1>1, <1>2

LEMMA RecordedTyped ==
  ASSUME TypeOK, NEW W, NEW status \in Ended
  PROVE  Recorded(history, W, status) \in
           [Intents -> [status : Ended \cup {"unknown", "queued", "transmitting"}, at : Nat]]
  BY DEF TypeOK, Recorded

LEMMA DropInv ==
  ASSUME IInv, NEW W, NEW status \in Ended, Drop(W, status)
  PROVE  IInv'
<1>1. /\ waiting' = waiting \ W /\ history' = Recorded(history, W, status)
      /\ UNCHANGED <<now, owner, mode, lastSerial, active, busyUntil, aired>>
  BY DEF Drop
<1>2. TypeOK'
  BY <1>1, RecordedTyped DEF IInv, TypeOK
<1>3. QuietUnowned' /\ NothingOverdue' /\ DeferredInBounds'
  BY <1>1 DEF IInv, QuietUnowned, NothingOverdue, DeferredInBounds, Network
<1>. QED  BY <1>1, <1>2, <1>3, AirUnchanged DEF IInv

LEMMA EnqueueInv ==
  ASSUME IInv, NEW o \in Owners, NEW i \in Intents, Enqueue(o, i)
  PROVE  IInv'
<1>. DEFINE e == [intent |-> i, serial |-> lastSerial + 1,
                  expires |-> now + TimeToLive[i], available |-> now]
<1>1. /\ owner = o /\ lastSerial < MaxSerial /\ lastSerial' = lastSerial + 1
      /\ waiting' = (waiting \ Superseded(i)) \cup {e}
      /\ history' = [Recorded(history, Superseded(i), "superseded")
                       EXCEPT ![i] = [status |-> "queued", at |-> 0]]
      /\ UNCHANGED <<now, owner, mode, active, busyUntil, aired>>
  BY DEF Enqueue
<1>2. /\ now \in Nat /\ lastSerial \in 0..MaxSerial /\ TimeToLive[i] \in Nat
      /\ MaxSerial \in Nat
  BY SpeechAssumption DEF IInv, TypeOK
<1>3. e \in Entries /\ lastSerial' \in 0..MaxSerial /\ now <= e.expires /\ e.available <= now
  BY <1>1, <1>2 DEF Entries
<1>4. TypeOK'
  <2>1. "superseded" \in Ended
    BY DEF Ended
  <2>2. history' \in [Intents -> [status : Ended \cup {"unknown", "queued", "transmitting"}, at : Nat]]
    BY <1>1, <2>1, RecordedTyped DEF IInv
  <2>. HIDE DEF e
  <2>. QED  BY <1>1, <1>3, <2>2 DEF IInv, TypeOK
<1>5. QuietUnowned' /\ NothingOverdue' /\ DeferredInBounds'
  <2>1. owner # NoOwner
    BY <1>1, SpeechAssumption
  <2>. HIDE DEF e
  <2>. QED  BY <1>1, <1>3, <2>1 DEF IInv, QuietUnowned, NothingOverdue, DeferredInBounds, Network
<1>. QED  BY <1>1, <1>4, <1>5, AirUnchanged DEF IInv

-----------------------------------------------------------------------------
(* A tick.                                                                  *)

LEMMA LaterTyped ==
  ASSUME NEW w \in Entries, NEW t \in Nat
  PROVE  /\ Later(w, t) \in Entries
         /\ Later(w, t).intent = w.intent /\ Later(w, t).expires = w.expires
         /\ Later(w, t).available = w.available \/ Later(w, t).available = t
  BY DEF Later, Entries

\* A deferral only moves the time an entry is available from.
LEMMA DeferredTyped ==
  ASSUME TypeOK, NEW w \in Entries, NEW busy \in [Networks -> Nat]
  PROVE  /\ Deferred(w, busy) \in Entries
         /\ Deferred(w, busy).intent = w.intent /\ Deferred(w, busy).expires = w.expires
         /\ mode[Network(w)] = "strict" =>
              \/ Deferred(w, busy).available = w.available
              \/ Deferred(w, busy).available = busy[Network(w)]
<1>. DEFINE t == Retry(w, Network(w), busy[Network(w)])
<1>1. busy[Network(w)] \in Nat /\ Backoff[w.serial] \in Nat
  BY EntryTyped
<1>2. t \in Nat /\ (mode[Network(w)] = "strict" => t = busy[Network(w)])
  BY <1>1 DEF Retry
<1>3. Deferred(w, busy) = w \/ Deferred(w, busy) = Later(w, t)
  BY DEF Deferred
<1>. HIDE DEF t
<1>. QED  BY <1>2, <1>3, LaterTyped

\* What each sender is transmitting after a tick.
LEMMA NextActiveIs ==
  ASSUME TypeOK, NEW started \in SUBSET Attempts
  PROVE  /\ NextActive(started) \in [Senders -> Transmissions \cup {Silent}]
         /\ \A w \in started :
              NextActive(started)[Sender(w)] = [intent |-> w.intent, ends |-> EndsAt(w)]
         /\ \A s \in Senders :
              \/ \E w \in started : Sender(w) = s
              \/ Over(s) /\ NextActive(started)[s] = Silent
              \/ ~ Over(s) /\ NextActive(started)[s] = active[s]
<1>. waiting \subseteq Entries
  BY DEF TypeOK
<1>1. ASSUME NEW w \in started
      PROVE  NextActive(started)[Sender(w)] = [intent |-> w.intent, ends |-> EndsAt(w)]
  <2>1. w \in Attempts /\ w \in Entries
    BY AttemptHeads
  <2>2. Sender(w) \in Senders
    BY <2>1, EntryTyped
  <2>3. (CHOOSE v \in started : Sender(v) = Sender(w)) = w
    <3>1. \A v \in started : Sender(v) = Sender(w) => v = w
      BY <2>1, OnePerSender
    <3>. QED  BY <3>1
  <2>. QED  BY <2>2, <2>3 DEF NextActive
<1>2. ASSUME NEW w \in started
      PROVE  [intent |-> w.intent, ends |-> EndsAt(w)] \in Transmissions
  <2>1. w \in Entries
    BY AttemptHeads
  <2>2. w.intent \in Intents /\ Duration[w.intent] \in Nat /\ now \in Nat
    BY <2>1, EntryTyped DEF TypeOK
  <2>. QED  BY <2>2 DEF Transmissions, EndsAt
<1>3. ASSUME NEW s \in Senders
      PROVE  /\ \/ \E w \in started : Sender(w) = s
                \/ Over(s) /\ NextActive(started)[s] = Silent
                \/ ~ Over(s) /\ NextActive(started)[s] = active[s]
             /\ NextActive(started)[s] \in Transmissions \cup {Silent}
  <2>1. CASE \E w \in started : Sender(w) = s
    BY <2>1, <1>1, <1>2
  <2>2. CASE ~ \E w \in started : Sender(w) = s
    <3>1. NextActive(started)[s] = IF Over(s) THEN Silent ELSE active[s]
      BY <2>2 DEF NextActive
    <3>. QED  BY <3>1 DEF TypeOK
  <2>. QED  BY <2>1, <2>2
<1>4. NextActive(started) \in [Senders -> Transmissions \cup {Silent}]
  <2>1. NextActive(started) = [s \in Senders |-> NextActive(started)[s]]
    BY DEF NextActive
  <2>. QED  BY <2>1, <1>3
<1>. QED  BY <1>1, <1>3, <1>4

LEMMA TickHistoryTyped ==
  ASSUME TypeOK, NEW started, NEW failed
  PROVE  Purged(TickHistory(started, failed)) \in
           [Intents -> [status : Ended \cup {"unknown", "queued", "transmitting"}, at : Nat]]
<1>. DEFINE H == [status : Ended \cup {"unknown", "queued", "transmitting"}, at : Nat]
            h == TickHistory(started, failed)
<1>1. now \in Nat /\ history \in [Intents -> H]
  BY DEF TypeOK
<1>2. /\ [status |-> "transmitting", at |-> 0] \in H /\ [status |-> "dropped", at |-> now] \in H
      /\ [status |-> "expired", at |-> now] \in H /\ [status |-> "completed", at |-> now] \in H
      /\ Unknown \in H
  BY <1>1 DEF Ended, Unknown
<1>. HIDE DEF H
<1>3. h \in [Intents -> H]
  BY <1>1, <1>2, Zenon DEF TickHistory
<1>. HIDE DEF h
<1>4. Purged(h) \in [Intents -> H]
  BY <1>2, <1>3, Zenon DEF Purged
<1>. QED  BY <1>4 DEF h, H

\* A tick, its abbreviations written out.
LEMMA TickIs ==
  ASSUME TypeOK, NEW failed \in SUBSET Attempts, Tick(failed)
  PROVE  \E started \in SUBSET Attempts, busy \in [Networks -> Nat] :
           /\ started = Attempts \ failed
           /\ busy = [n \in Networks |-> NextBusyUntil(n, started)]
           /\ \A n \in Networks : busyUntil[n] <= busy[n]
           /\ \A w \in started : GuardUntil(w) <= busy[Network(w)]
           /\ owner # NoOwner /\ now' = now + 1 /\ mode' = mode /\ owner' = owner
           /\ lastSerial' = lastSerial
           /\ waiting' = {Deferred(w, busy) : w \in Live \ Attempts}
           /\ active' = NextActive(started) /\ busyUntil' = busy
           /\ history' = Purged(TickHistory(started, failed))
           /\ aired' = aired \cup {Airing(w) : w \in started}
<1>. DEFINE started == Attempts \ failed
            busy == [n \in Networks |-> NextBusyUntil(n, started)]
<1>1. started \in SUBSET Attempts /\ started \in SUBSET waiting /\ waiting \subseteq Entries
  BY AttemptHeads DEF TypeOK
<1>2. \A n \in Networks :
        /\ NextBusyUntil(n, started) \in Nat /\ busyUntil[n] <= NextBusyUntil(n, started)
        /\ \A w \in started : Network(w) = n => GuardUntil(w) <= NextBusyUntil(n, started)
  <2>. HIDE DEF started
  <2>. QED  BY <1>1, ReservationGrows
<1>3. \A w \in started : Network(w) \in Networks
  BY <1>1, EntryTyped
<1>4. /\ busy \in [Networks -> Nat] /\ \A n \in Networks : busyUntil[n] <= busy[n]
      /\ \A w \in started : GuardUntil(w) <= busy[Network(w)]
  <2>. HIDE DEF started
  <2>. QED  BY <1>2, <1>3
<1>5. /\ owner # NoOwner /\ now' = now + 1 /\ mode' = mode /\ owner' = owner
      /\ lastSerial' = lastSerial
      /\ waiting' = {Deferred(w, busy) : w \in Live \ Attempts}
      /\ active' = NextActive(started) /\ busyUntil' = busy
      /\ history' = Purged(TickHistory(started, failed))
      /\ aired' = aired \cup {Airing(w) : w \in started}
  BY DEF Tick
<1>. HIDE DEF started, busy
<1>6. started = Attempts \ failed /\ busy = [n \in Networks |-> NextBusyUntil(n, started)]
  BY DEF started, busy
<1>. QED  BY <1>1, <1>4, <1>5, <1>6

LEMMA TickQueueInv ==
  ASSUME IInv, NEW failed \in SUBSET Attempts, Tick(failed)
  PROVE  TypeOK' /\ QuietUnowned' /\ NothingOverdue' /\ DeferredInBounds'
<1>. TypeOK /\ NothingOverdue /\ DeferredInBounds
  BY DEF IInv
<1>1. PICK started \in SUBSET Attempts, busy \in [Networks -> Nat] :
        /\ \A n \in Networks : busyUntil[n] <= busy[n]
        /\ owner # NoOwner /\ now' = now + 1 /\ mode' = mode /\ owner' = owner
        /\ lastSerial' = lastSerial
        /\ waiting' = {Deferred(w, busy) : w \in Live \ Attempts}
        /\ active' = NextActive(started) /\ busyUntil' = busy
        /\ history' = Purged(TickHistory(started, failed))
        /\ aired' = aired \cup {Airing(w) : w \in started}
  BY TickIs
<1>2. now \in Nat /\ waiting \subseteq Entries /\ busyUntil \in [Networks -> Nat]
  BY DEF TypeOK
<1>3. \A w \in started : w \in Entries
  BY <1>2, AttemptHeads
<1>4. TypeOK'
  <2>1. waiting' \subseteq Entries
    BY <1>1, <1>2, DeferredTyped DEF Live
  <2>2. aired' \subseteq Airings
    <3>1. \A w \in started : Airing(w) \in Airings
      BY <1>2, <1>3, EntryTyped DEF Airing, Airings
    <3>. QED  BY <1>1, <3>1 DEF TypeOK
  <2>3. active' \in [Senders -> Transmissions \cup {Silent}]
    BY <1>1, NextActiveIs
  <2>4. history' \in [Intents -> [status : Ended \cup {"unknown", "queued", "transmitting"}, at : Nat]]
    BY <1>1, TickHistoryTyped
  <2>5. now' \in Nat /\ owner' \in Owners \cup {NoOwner} /\ mode' \in [Networks -> Modes]
        /\ lastSerial' \in 0..MaxSerial /\ busyUntil' \in [Networks -> Nat]
    BY <1>1 DEF TypeOK
  <2>. QED  BY <2>1, <2>2, <2>3, <2>4, <2>5 DEF TypeOK
<1>5. QuietUnowned'
  BY <1>1 DEF QuietUnowned
<1>6. NothingOverdue'
  <2>1. ASSUME NEW w \in Live PROVE now' <= Deferred(w, busy).expires
    <3>1. w \in Entries /\ ~(now >= w.expires) /\ w.expires \in Nat
      BY <1>2, EntryTyped DEF Live, Expired
    <3>2. Deferred(w, busy).expires = w.expires
      BY <3>1, DeferredTyped
    <3>. QED  BY <1>1, <1>2, <3>1, <3>2
  <2>2. ASSUME NEW s \in Senders, active'[s] # Silent PROVE now' <= active'[s].ends
    <3>1. CASE \E w \in started : Sender(w) = s
      <4>1. PICK w \in started : Sender(w) = s
        BY <3>1
      <4>2. NextActive(started)[Sender(w)] = [intent |-> w.intent, ends |-> EndsAt(w)]
        BY NextActiveIs
      <4>3. active'[s].ends = now + Duration[w.intent]
        BY <1>1, <4>1, <4>2 DEF EndsAt
      <4>4. Duration[w.intent] \in Nat /\ Duration[w.intent] >= 1
        BY <1>3, EntryTyped
      <4>. QED  BY <1>1, <1>2, <4>3, <4>4
    <3>2. CASE ~ \E w \in started : Sender(w) = s
      <4>1. ~ Over(s) /\ active'[s] = active[s]
        BY <1>1, <2>2, <3>2, NextActiveIs
      <4>2. ~(now >= active[s].ends)
        BY <2>2, <4>1 DEF Over
      <4>3. active[s].ends \in Nat
        BY <2>2, <4>1 DEF TypeOK, Transmissions
      <4>. QED  BY <1>1, <1>2, <4>1, <4>2, <4>3
    <3>. QED  BY <3>1, <3>2
  <2>. QED  BY <1>1, <2>1, <2>2 DEF NothingOverdue
<1>7. DeferredInBounds'
  <2>. SUFFICES ASSUME NEW v \in waiting', mode'[Network(v)'] = "strict"
                PROVE  v.available <= now' \/ v.available <= busyUntil'[Network(v)']
    BY DEF DeferredInBounds
  <2>1. PICK w \in Live \ Attempts : v = Deferred(w, busy)
    BY <1>1
  <2>2. w \in Entries /\ w \in waiting
    BY <1>2 DEF Live
  <2>3. Network(v)' = Network(w) /\ Network(w) \in Networks /\ w.available \in Nat
    BY <2>1, <2>2, DeferredTyped, EntryTyped DEF Network
  <2>4. v.available = w.available \/ v.available = busy[Network(w)]
    BY <1>1, <2>1, <2>2, <2>3, DeferredTyped
  <2>5. w.available <= now \/ w.available <= busyUntil[Network(w)]
    BY <1>1, <2>2, <2>3 DEF DeferredInBounds
  <2>6. busyUntil[Network(w)] <= busy[Network(w)] /\ busy[Network(w)] \in Nat
        /\ busyUntil[Network(w)] \in Nat
    BY <1>1, <1>2, <2>3
  <2>. QED  BY <1>1, <1>2, <2>3, <2>4, <2>5, <2>6
<1>. QED  BY <1>4, <1>5, <1>6, <1>7

\* The transmission b that the attempt w begins in this tick.
Begins(b, w) ==
  /\ b.start = now /\ b.intent = w.intent /\ b.serial = w.serial
  /\ w \in Entries /\ Sender(b) = Sender(w) /\ Network(b) = Network(w)
  /\ Idle(Sender(w)) /\ w \in Attempted(Network(w)) /\ w \in Candidates(Network(w))
  /\ active'[Sender(w)] = [intent |-> w.intent, ends |-> EndsAt(w)]
  /\ GuardUntil(w) <= busyUntil'[Network(w)]

\* What a tick adds to the transmissions, and when it may.
LEMMA TickAirs ==
  ASSUME IInv, NEW failed \in SUBSET Attempts, Tick(failed), NEW b \in aired', b \notin aired
  PROVE  \E w \in Attempts \ failed : Begins(b, w)
<1>. TypeOK
  BY DEF IInv
<1>1. PICK started \in SUBSET Attempts, busy \in [Networks -> Nat] :
        /\ started = Attempts \ failed
        /\ \A w \in started : GuardUntil(w) <= busy[Network(w)]
        /\ active' = NextActive(started) /\ busyUntil' = busy
        /\ aired' = aired \cup {Airing(w) : w \in started}
  BY TickIs
<1>2. PICK w \in started : b = Airing(w)
  BY <1>1
<1>3. w \in Attempts /\ w \in Entries /\ Idle(Sender(w))
      /\ w \in Attempted(Network(w)) /\ w \in Candidates(Network(w))
  BY AttemptHeads DEF TypeOK
<1>4. b.start = now /\ b.intent = w.intent /\ b.serial = w.serial
  BY <1>2 DEF Airing
<1>5. Sender(b) = Sender(w) /\ Network(b) = Network(w)
  BY <1>4 DEF Sender, Network
<1>6. active'[Sender(w)] = [intent |-> w.intent, ends |-> EndsAt(w)]
  BY <1>1, NextActiveIs
<1>7. Begins(b, w)
  BY <1>1, <1>3, <1>4, <1>5, <1>6 DEF Begins
<1>. QED  BY <1>1, <1>7

LEMMA TickCovered ==
  ASSUME IInv, NEW failed \in SUBSET Attempts, Tick(failed)
  PROVE  Covered' /\ Reserved'
<1>. TypeOK
  BY DEF IInv
<1>1. PICK started \in SUBSET Attempts, busy \in [Networks -> Nat] :
        /\ \A n \in Networks : busyUntil[n] <= busy[n]
        /\ now' = now + 1 /\ active' = NextActive(started) /\ busyUntil' = busy
        /\ aired' = aired \cup {Airing(w) : w \in started}
  BY TickIs
<1>2. now \in Nat /\ aired \subseteq Airings /\ busyUntil \in [Networks -> Nat] /\ waiting \subseteq Entries
  BY DEF TypeOK
<1>. SUFFICES ASSUME NEW a \in aired'
              PROVE  /\ a.start < now'
                     /\ \/ a.start + Duration[a.intent] <= now'
                        \/ /\ active'[Sender(a)] # Silent
                           /\ active'[Sender(a)].ends = a.start + Duration[a.intent]
                     /\ GuardOf(a) <= busyUntil'[Network(a)]
  BY DEF Covered, Reserved, Sender, Network, GuardOf
<1>3. CASE a \in aired
  <2>1. /\ a.start \in Nat /\ Duration[a.intent] \in Nat
        /\ Sender(a) \in Senders /\ Network(a) \in Networks /\ Interval[Network(a)] \in Nat
    BY <1>2, <1>3, AiringTyped
  <2>2. /\ a.start < now
        /\ \/ a.start + Duration[a.intent] <= now
           \/ /\ active[Sender(a)] # Silent
              /\ active[Sender(a)].ends = a.start + Duration[a.intent]
        /\ GuardOf(a) <= busyUntil[Network(a)]
    BY <1>3 DEF IInv, Covered, Reserved
  <2>3. GuardOf(a) <= busyUntil'[Network(a)]
    <3>1. GuardOf(a) \in Nat /\ busyUntil[Network(a)] \in Nat /\ busy[Network(a)] \in Nat
          /\ busyUntil[Network(a)] <= busy[Network(a)]
      BY <1>1, <1>2, <2>1 DEF GuardOf
    <3>. QED  BY <1>1, <2>2, <3>1
  <2>4. CASE a.start + Duration[a.intent] <= now
    BY <1>1, <1>2, <2>1, <2>2, <2>3, <2>4
  <2>5. CASE /\ active[Sender(a)] # Silent
             /\ active[Sender(a)].ends = a.start + Duration[a.intent]
             /\ ~(a.start + Duration[a.intent] <= now)
    <3>1. ~ Over(Sender(a)) /\ ~ Idle(Sender(a))
      BY <1>2, <2>1, <2>5 DEF Over, Idle
    <3>2. ~ \E w \in started : Sender(w) = Sender(a)
      BY <1>2, <3>1, AttemptHeads
    <3>3. active'[Sender(a)] = active[Sender(a)]
      BY <1>1, <2>1, <3>1, <3>2, NextActiveIs
    <3>. QED  BY <1>1, <1>2, <2>1, <2>2, <2>3, <2>5, <3>3
  <2>. QED  BY <2>2, <2>4, <2>5
<1>4. CASE a \notin aired
  <2>1. PICK w \in Attempts \ failed : Begins(a, w)
    BY <1>4, TickAirs
  <2>2. GuardOf(a) = GuardUntil(w)
    BY <2>1 DEF Begins, GuardOf, GuardUntil, EndsAt
  <2>3. [intent |-> w.intent, ends |-> EndsAt(w)] \in Transmissions
    <3>1. w.intent \in Intents /\ Duration[w.intent] \in Nat
      BY <2>1, EntryTyped DEF Begins
    <3>. QED  BY <1>2, <3>1 DEF Transmissions, EndsAt
  <2>4. active'[Sender(a)] # Silent /\ active'[Sender(a)].ends = a.start + Duration[a.intent]
    BY <2>1, <2>3, SilentTyped DEF Begins, EndsAt
  <2>5. a.start < now' /\ GuardOf(a) <= busyUntil'[Network(a)]
    BY <1>1, <1>2, <2>1, <2>2 DEF Begins
  <2>. QED  BY <2>4, <2>5
<1>. QED  BY <1>3, <1>4

\* Two transmissions that start in the same tick have different senders, and
\* different networks if these are exclusive.
LEMMA TickSenderNeverDouble ==
  ASSUME IInv, NEW failed \in SUBSET Attempts, Tick(failed)
  PROVE  SenderNeverDouble'
<1>. TypeOK /\ waiting \subseteq Entries /\ now \in Nat /\ aired \subseteq Airings
  BY DEF IInv, TypeOK
<1>. SUFFICES ASSUME NEW a \in aired', NEW b \in aired', Sender(a) = Sender(b), a # b,
                     a.start <= b.start
              PROVE  a.start + Duration[a.intent] <= b.start
  BY DEF SenderNeverDouble, Sender
<1>1. CASE a \in aired /\ b \in aired
  BY <1>1 DEF IInv, SenderNeverDouble
<1>2. CASE a \in aired /\ b \notin aired
  <2>1. PICK w \in Attempts \ failed : Begins(b, w)
    BY <1>2, TickAirs
  <2>2. a.start \in Nat /\ Duration[a.intent] \in Nat /\ Sender(a) \in Senders
    BY <1>2, AiringTyped
  <2>3. \/ a.start + Duration[a.intent] <= now
        \/ /\ active[Sender(a)] # Silent
           /\ active[Sender(a)].ends = a.start + Duration[a.intent]
    BY <1>2 DEF IInv, Covered
  <2>. QED  BY <2>1, <2>2, <2>3 DEF Begins, Idle, Over
<1>3. CASE a \notin aired /\ b \in aired
  <2>1. a.start = now /\ b.start < now /\ b.start \in Nat
    BY <1>3, TickAirs, AiringTyped DEF IInv, Covered, Begins
  <2>. QED  BY <2>1
<1>4. CASE a \notin aired /\ b \notin aired
  <2>1. PICK v \in Attempts \ failed : Begins(a, v)
    BY <1>4, TickAirs
  <2>2. PICK w \in Attempts \ failed : Begins(b, w)
    BY <1>4, TickAirs
  <2>3. v = w
    BY <2>1, <2>2, OnePerSender DEF Begins
  <2>4. a \in Airings /\ b \in Airings
    BY TickQueueInv DEF TypeOK
  <2>. QED  BY <2>1, <2>2, <2>3, <2>4, SameAiring DEF Begins
<1>. QED  BY <1>1, <1>2, <1>3, <1>4

LEMMA TickOneAtATime ==
  ASSUME IInv, NEW failed \in SUBSET Attempts, Tick(failed)
  PROVE  OneAtATime'
<1>. TypeOK /\ waiting \subseteq Entries /\ now \in Nat /\ aired \subseteq Airings
     /\ busyUntil \in [Networks -> Nat]
  BY DEF IInv, TypeOK
<1>0. mode' = mode
  BY DEF Tick
<1>. SUFFICES ASSUME NEW a \in aired', NEW b \in aired', Network(a) = Network(b),
                     Exclusive(Network(a)), a # b, a.start <= b.start
              PROVE  /\ a.start # b.start
                     /\ b.intent \in Emergency \/ GuardOf(a) <= b.start
  BY <1>0 DEF OneAtATime, Network, Exclusive, GuardOf
<1>1. CASE a \in aired /\ b \in aired
  BY <1>1 DEF IInv, OneAtATime
<1>2. CASE a \in aired /\ b \notin aired
  <2>1. PICK w \in Attempts \ failed : Begins(b, w)
    BY <1>2, TickAirs
  <2>2. a.start \in Nat /\ a.start < now /\ GuardOf(a) <= busyUntil[Network(a)]
    BY <1>2, AiringTyped DEF IInv, Covered, Reserved
  <2>3. GuardOf(a) \in Nat /\ busyUntil[Network(a)] \in Nat
    BY <1>2, AiringTyped DEF GuardOf
  <2>4. Busy(Network(w)) => w.intent \in Emergency
    BY <2>1, EntryTyped, ExclusiveAttempt DEF Begins
  <2>. QED  BY <2>1, <2>2, <2>3, <2>4 DEF Begins, Busy
<1>3. CASE a \notin aired /\ b \in aired
  <2>1. a.start = now /\ b.start < now /\ b.start \in Nat
    BY <1>3, TickAirs, AiringTyped DEF IInv, Covered, Begins
  <2>. QED  BY <2>1
<1>4. CASE a \notin aired /\ b \notin aired
  <2>1. PICK v \in Attempts \ failed : Begins(a, v)
    BY <1>4, TickAirs
  <2>2. PICK w \in Attempts \ failed : Begins(b, w)
    BY <1>4, TickAirs
  <2>3. Network(v) \in Networks
    BY <2>1, EntryTyped DEF Begins
  <2>4. v = w
    BY <2>1, <2>2, <2>3, ExclusiveAttempt DEF Begins
  <2>5. a \in Airings /\ b \in Airings
    BY TickQueueInv DEF TypeOK
  <2>. QED  BY <2>1, <2>2, <2>4, <2>5, SameAiring DEF Begins
<1>. QED  BY <1>1, <1>2, <1>3, <1>4

-----------------------------------------------------------------------------
(* The invariant is inductive.                                              *)

LEMMA NextInv == IInv /\ [Next]_vars => IInv'
<1>. SUFFICES ASSUME IInv, [Next]_vars PROVE IInv'
  OBVIOUS
<1>. TypeOK
  BY DEF IInv
<1>. now \in Nat /\ mode \in [Networks -> Modes]
  BY DEF TypeOK
<1>1. ASSUME NEW o \in Owners, Command(o) PROVE IInv'
  <2>1. ASSUME NEW m \in ModeChoices, Configure(o, m) PROVE IInv'
    <3>1. m \in [Networks -> Modes]
      BY SpeechAssumption
    <3>. QED  BY <2>1, <3>1, ClearedInv DEF Configure
  <2>2. ASSUME Release(o) PROVE IInv'
    BY <2>2, ClearedInv DEF Release
  <2>3. ASSUME NEW i \in Intents, Enqueue(o, i) PROVE IInv'
    BY <2>3, EnqueueInv
  <2>4. "canceled" \in Ended
    BY DEF Ended
  <2>5. ASSUME ClearPending(o) PROVE IInv'
    BY <2>4, <2>5, DropInv DEF ClearPending
  <2>6. ASSUME NEW s \in Senders, ClearSender(o, s) PROVE IInv'
    BY <2>4, <2>6, DropInv DEF ClearSender
  <2>. QED  BY <1>1, <2>1, <2>2, <2>3, <2>5, <2>6 DEF Command
<1>2. CASE Shutdown
  BY <1>2, ClearedInv DEF Shutdown
<1>3. ASSUME NEW p \in Sessions, EndSession(p) PROVE IInv'
  <2>1. "dropped" \in Ended
    BY DEF Ended
  <2>. QED  BY <1>3, <2>1, DropInv DEF EndSession
<1>4. ASSUME NEW failed \in SUBSET Attempts, Tick(failed) PROVE IInv'
  BY <1>4, TickQueueInv, TickCovered, TickOneAtATime, TickSenderNeverDouble DEF IInv
<1>5. CASE QuietTick
  <2>1. /\ owner = NoOwner /\ now' = now + 1
        /\ UNCHANGED <<owner, mode, waiting, lastSerial, active, busyUntil, history, aired>>
    BY <1>5 DEF QuietTick, queueVars
  <2>2. waiting = {} /\ aired = {} /\ \A s \in Senders : active[s] = Silent
    BY <2>1 DEF IInv, QuietUnowned
  <2>3. TypeOK'
    BY <2>1 DEF TypeOK
  <2>4. QuietUnowned' /\ NothingOverdue' /\ DeferredInBounds'
    BY <2>1, <2>2 DEF QuietUnowned, NothingOverdue, DeferredInBounds
  <2>5. Covered' /\ Reserved' /\ OneAtATime' /\ SenderNeverDouble'
    BY <2>1, <2>2 DEF Covered, Reserved, OneAtATime, SenderNeverDouble
  <2>. QED  BY <2>3, <2>4, <2>5 DEF IInv
<1>6. CASE UNCHANGED vars
  <2>1. UNCHANGED <<now, owner, mode, waiting, lastSerial, active, busyUntil, history, aired>>
    BY <1>6 DEF vars
  <2>2. TypeOK' /\ QuietUnowned' /\ NothingOverdue' /\ DeferredInBounds'
    BY <2>1 DEF IInv, TypeOK, QuietUnowned, NothingOverdue, DeferredInBounds, Network
  <2>. QED  BY <2>1, <2>2, AirUnchanged DEF IInv
<1>. QED  BY <1>1, <1>2, <1>3, <1>4, <1>5, <1>6 DEF Next, SomeTick

\* The inductive invariant holds of every behaviour.
THEOREM Invariant == Spec => []IInv
<1>. QED  BY InitInv, NextInv, PTL DEF Spec

\* The types, as _SpeechTick and the commands keep them.
THEOREM TypeCorrect == Spec => []TypeOK
<1>1. IInv => TypeOK
  BY DEF IInv
<1>. QED  BY <1>1, Invariant, PTL

\* On a strict or disciplined network two transmissions never share the air
\* but by an emergency's break in, whatever fails, is cleared or expires.
THEOREM OneAtATimeHolds == Spec => []OneAtATime
<1>1. IInv => OneAtATime
  BY DEF IInv
<1>. QED  BY <1>1, Invariant, PTL

\* No sender speaks over itself, in any mode and on any networks.
THEOREM SenderNeverDoubleHolds == Spec => []SenderNeverDouble
<1>1. IInv => SenderNeverDouble
  BY DEF IInv
<1>. QED  BY <1>1, Invariant, PTL

\* No intent outlives its time in a queue and no transmission its end.
THEOREM NothingOverdueHolds == Spec => []NothingOverdue
<1>1. IInv => NothingOverdue
  BY DEF IInv
<1>. QED  BY <1>1, Invariant, PTL

-----------------------------------------------------------------------------
(* Priority on strict networks.                                             *)

\* What starts in a tick is recorded as transmitting.
LEMMA StartedIsTransmitting ==
  ASSUME TypeOK, NEW failed \in SUBSET Attempts, NEW w \in Attempts \ failed
  PROVE  Purged(TickHistory(Attempts \ failed, failed))[w.intent].status = "transmitting"
<1>1. w.intent \in Intents
  BY AttemptHeads, EntryTyped DEF TypeOK
<1>2. TickHistory(Attempts \ failed, failed)[w.intent] = [status |-> "transmitting", at |-> 0]
  BY <1>1 DEF TickHistory
<1>. QED  BY <1>1, <1>2 DEF Purged, Ended

LEMMA StrictPriorityStep ==
  ASSUME IInv, NEW failed \in SUBSET Attempts, Tick(failed),
         NEW a \in aired', a \notin aired, NEW s \in Senders,
         mode[Network(a)] = "strict", ~ Busy(Network(a)), Idle(s),
         NEW w \in Firsts(QueueOf(s, Live)), Network(w) = Network(a),
         history'[w.intent].status = "queued"
  PROVE  ~ Precedes(w, a)
<1>. TypeOK /\ waiting \subseteq Entries /\ now \in Nat /\ busyUntil \in [Networks -> Nat]
  BY DEF IInv, TypeOK
<1>1. PICK v \in Attempts \ failed : Begins(a, v)
  BY TickAirs
<1>2. w \in waiting /\ w \in Entries
  BY DEF Firsts, QueueOf, Live
<1>3. w \in Candidates(Network(a))
  <2>1. w.available \in Nat /\ Network(a) \in Networks
    BY <1>2, EntryTyped
  <2>2. w.available <= now \/ w.available <= busyUntil[Network(a)]
    BY <1>2 DEF IInv, DeferredInBounds
  <2>3. now >= w.available
    BY <2>1, <2>2 DEF Busy
  <2>. QED  BY <2>3 DEF Candidates
<1>4. v \in Firsts(Candidates(Network(a)))
  <2>1. Exclusive(Network(v)) /\ Network(v) \in Networks
    BY <1>1, EntryTyped DEF Exclusive, Begins
  <2>. QED  BY <1>1, <2>1, ExclusiveAttempt DEF Begins
<1>5. CASE w = v
  <2>1. history'[w.intent].status = "transmitting"
    BY <1>5, StartedIsTransmitting DEF Tick
  <2>. QED  BY <2>1
<1>6. CASE w # v
  <2>1. Precedes(v, w)
    BY <1>3, <1>4, <1>6 DEF Firsts
  <2>2. /\ Priority[v.intent] \in Nat /\ Priority[w.intent] \in Nat
        /\ v.serial \in Int /\ w.serial \in Int
    BY <1>1, <1>2, EntryTyped DEF Begins
  <2>. QED  BY <1>1, <2>1, <2>2 DEF Precedes, Begins
<1>. QED  BY <1>5, <1>6

\* On a free strict network no waiting sender is overtaken by a less urgent or
\* younger intent, whatever it lost before: no deferral exceeds a reservation.
THEOREM StrictPriorityHolds == Spec => StrictPriority
<1>. DEFINE A == \A a \in aired' \ aired, s \in Senders :
       mode[Network(a)] = "strict" /\ ~ Busy(Network(a)) /\ Idle(s) =>
         \A w \in Firsts(QueueOf(s, Live)) :
           Network(w) = Network(a) /\ history'[w.intent].status = "queued" =>
             ~ Precedes(w, a)
<1>1. IInv /\ [Next]_vars => [A]_vars
  <2>. SUFFICES ASSUME IInv, Next PROVE A
    OBVIOUS
  <2>1. ASSUME NEW failed \in SUBSET Attempts, Tick(failed) PROVE A
    BY <2>1, StrictPriorityStep
  <2>2. ASSUME aired' \subseteq aired PROVE A
    BY <2>2
  <2>3. ASSUME NEW o \in Owners, Command(o) PROVE aired' \subseteq aired
    BY <2>3 DEF Command, Configure, Release, Enqueue, ClearPending, ClearSender, Drop, ClearQueues
  <2>. HIDE DEF A
  <2>4. Shutdown => aired' \subseteq aired
    BY DEF Shutdown, ClearQueues
  <2>5. QuietTick => aired' \subseteq aired
    BY DEF QuietTick, queueVars
  <2>6. ASSUME NEW p \in Sessions, EndSession(p) PROVE aired' \subseteq aired
    BY <2>6 DEF EndSession, Drop
  <2>. QED  BY <2>1, <2>2, <2>3, <2>4, <2>5, <2>6 DEF Next, SomeTick
<1>2. StrictPriority <=> [][A]_vars
  BY DEF StrictPriority
<1>. HIDE DEF A
<1>. QED  BY <1>1, <1>2, Invariant, PTL DEF Spec
-----------------------------------------------------------------------------
(* Nothing is spoken twice.                                                 *)

End(a) == a.start + Duration[a.intent]

\* All the bridge ever transmitted of the intent i is so long over that it
\* has been forgotten.
Forgotten(i) == \A a \in aired : a.intent = i => End(a) + HistoryTTL < now

\* An intent waits in one place, and is recorded as queued there.
QueuedOnce ==
  /\ \A w \in waiting : history[w.intent].status = "queued"
  /\ \A v, w \in waiting : v.intent = w.intent => v = w

\* What a sender transmits is its own, and is recorded as being transmitted.
ActiveRecorded ==
  \A s \in Senders :
    active[s] # Silent =>
      /\ SenderOf[active[s].intent] = s
      /\ history[active[s].intent].status = "transmitting"

\* What the history of an intent says of its transmissions: none is recent
\* unless it is under way or recorded as completed when it was over.
HistoryTells ==
  \A i \in Intents :
    /\ history[i].status \notin {"transmitting", "completed"} => Forgotten(i)
    /\ history[i].status = "completed" =>
         \A a \in aired : a.intent = i => End(a) <= history[i].at
    /\ history[i].status = "transmitting" =>
         /\ active[SenderOf[i]] # Silent /\ active[SenderOf[i]].intent = i
         /\ \A a \in aired : a.intent = i => End(a) <= active[SenderOf[i]].ends

OnceInv == QueuedOnce /\ ActiveRecorded /\ HistoryTells /\ SpokenOnce

\* A recorded status concerns the intents it is recorded for only.
LEMMA RecordedIs ==
  ASSUME TypeOK, NEW W, NEW status, NEW i \in Intents
  PROVE  /\ (\E w \in W : w.intent = i) =>
              Recorded(history, W, status)[i] = [status |-> status, at |-> now]
         /\ (~ \E w \in W : w.intent = i) =>
              Recorded(history, W, status)[i] = history[i]
  BY DEF Recorded

\* What waits has not been transmitted of late, so that nothing has to be
\* known of its past when it ends unspoken.
LEMMA WaitingForgotten ==
  ASSUME TypeOK, OnceInv, NEW w \in waiting
  PROVE  w.intent \in Intents /\ history[w.intent].status = "queued" /\ Forgotten(w.intent)
<1>1. w.intent \in Intents
  BY EntryTyped DEF TypeOK
<1>. QED  BY <1>1 DEF OnceInv, QueuedOnce, HistoryTells

\* The queues cleared, nothing is remembered and nothing was transmitted.
LEMMA ClearedOnce ==
  ASSUME ClearQueues
  PROVE  OnceInv'
<1>1. /\ waiting' = {} /\ aired' = {} /\ active' = [s \in Senders |-> Silent]
      /\ history' = [i \in Intents |-> Unknown]
  BY DEF ClearQueues
<1>2. \A i \in Intents : history'[i].status = "unknown"
  BY <1>1 DEF Unknown
<1>3. QueuedOnce' /\ ActiveRecorded'
  BY <1>1 DEF QueuedOnce, ActiveRecorded
<1>4. HistoryTells' /\ SpokenOnce'
  BY <1>1, <1>2 DEF HistoryTells, Forgotten, SpokenOnce
<1>. QED  BY <1>3, <1>4 DEF OnceInv

LEMMA InitOnce == Init => OnceInv
<1>. SUFFICES ASSUME Init PROVE OnceInv
  OBVIOUS
<1>1. /\ waiting = {} /\ aired = {} /\ active = [s \in Senders |-> Silent]
      /\ history = [i \in Intents |-> Unknown]
  BY DEF Init
<1>2. \A i \in Intents : history[i].status = "unknown"
  BY <1>1 DEF Unknown
<1>3. QueuedOnce /\ ActiveRecorded
  BY <1>1 DEF QueuedOnce, ActiveRecorded
<1>4. HistoryTells /\ SpokenOnce
  BY <1>1, <1>2 DEF HistoryTells, Forgotten, SpokenOnce
<1>. QED  BY <1>3, <1>4 DEF OnceInv

\* A change of the history alone: of intents that wait, to an end other than
\* completed, or of one the bridge does not know, to queued.
LEMMA HistoryStep ==
  ASSUME TypeOK, OnceInv, UNCHANGED <<now, active, aired>>,
         \A i \in Intents :
           \/ history'[i] = history[i]
           \/ /\ history[i].status \in {"unknown", "queued"}
              /\ history'[i].status \notin {"transmitting", "completed"}
  PROVE  ActiveRecorded' /\ HistoryTells' /\ SpokenOnce'
<1>1. ActiveRecorded'
  <2>. SUFFICES ASSUME NEW s \in Senders, active[s] # Silent
                PROVE  /\ SenderOf[active[s].intent] = s
                       /\ history'[active[s].intent].status = "transmitting"
    BY DEF ActiveRecorded
  <2>1. active[s].intent \in Intents
    BY DEF TypeOK, Transmissions
  <2>2. SenderOf[active[s].intent] = s /\ history[active[s].intent].status = "transmitting"
    BY DEF OnceInv, ActiveRecorded
  <2>. QED  BY <2>1, <2>2
<1>2. HistoryTells'
  <2>. SUFFICES ASSUME NEW i \in Intents
                PROVE  /\ history'[i].status \notin {"transmitting", "completed"} => Forgotten(i)'
                       /\ history'[i].status = "completed" =>
                            \A a \in aired : a.intent = i => End(a) <= history'[i].at
                       /\ history'[i].status = "transmitting" =>
                            /\ active[SenderOf[i]] # Silent /\ active[SenderOf[i]].intent = i
                            /\ \A a \in aired : a.intent = i => End(a) <= active[SenderOf[i]].ends
    BY DEF HistoryTells, End
  <2>1. Forgotten(i)' <=> Forgotten(i)
    BY DEF Forgotten, End
  <2>. QED  BY <2>1 DEF OnceInv, HistoryTells
<1>3. SpokenOnce'
  BY DEF OnceInv, SpokenOnce
<1>. QED  BY <1>1, <1>2, <1>3

LEMMA DropOnce ==
  ASSUME TypeOK, OnceInv, NEW W \in SUBSET waiting, NEW status, Drop(W, status),
         status \notin {"transmitting", "completed"}
  PROVE  OnceInv'
<1>1. /\ waiting' = waiting \ W /\ history' = Recorded(history, W, status)
      /\ UNCHANGED <<now, active, aired>>
  BY DEF Drop
<1>2. ASSUME NEW i \in Intents
      PROVE  \/ history'[i] = history[i]
             \/ /\ history[i].status \in {"unknown", "queued"}
                /\ history'[i].status \notin {"transmitting", "completed"}
  <2>1. CASE \E w \in W : w.intent = i
    <3>1. history'[i] = [status |-> status, at |-> now]
      BY <1>1, <2>1, RecordedIs
    <3>2. history[i].status = "queued"
      BY <2>1, WaitingForgotten
    <3>. QED  BY <3>1, <3>2
  <2>2. CASE ~ \E w \in W : w.intent = i
    BY <1>1, <2>2, RecordedIs
  <2>. QED  BY <2>1, <2>2
<1>3. QueuedOnce'
  <2>1. ASSUME NEW w \in waiting' PROVE history'[w.intent].status = "queued"
    <3>1. w \in waiting /\ w \notin W
      BY <1>1, <2>1
    <3>2. w.intent \in Intents /\ history[w.intent].status = "queued"
      BY <3>1, WaitingForgotten
    <3>3. ~ \E v \in W : v.intent = w.intent
      BY <3>1 DEF OnceInv, QueuedOnce
    <3>. QED  BY <1>1, <3>2, <3>3, RecordedIs
  <2>2. \A v, w \in waiting' : v.intent = w.intent => v = w
    BY <1>1 DEF OnceInv, QueuedOnce
  <2>. QED  BY <2>1, <2>2 DEF QueuedOnce
<1>4. ActiveRecorded' /\ HistoryTells' /\ SpokenOnce'
  BY <1>1, <1>2, HistoryStep
<1>. QED  BY <1>3, <1>4 DEF OnceInv

LEMMA EnqueueOnce ==
  ASSUME TypeOK, OnceInv, NEW o \in Owners, NEW i \in Intents, Enqueue(o, i)
  PROVE  OnceInv'
<1>. DEFINE e == [intent |-> i, serial |-> lastSerial + 1,
                  expires |-> now + TimeToLive[i], available |-> now]
            W == Superseded(i)
<1>1. /\ history[i].status = "unknown"
      /\ waiting' = (waiting \ W) \cup {e}
      /\ history' = [Recorded(history, W, "superseded") EXCEPT ![i] = [status |-> "queued", at |-> 0]]
      /\ UNCHANGED <<now, active, aired>>
  BY DEF Enqueue
<1>2. e.intent = i /\ W \subseteq waiting
  BY DEF Superseded, QueueOf
<1>. HIDE DEF e, W
<1>3. ~ \E w \in waiting : w.intent = i
  BY <1>1, WaitingForgotten
<1>4. history'[i] = [status |-> "queued", at |-> 0]
  BY <1>1 DEF Recorded
<1>5. ASSUME NEW j \in Intents, j # i
      PROVE  history'[j] = Recorded(history, W, "superseded")[j]
  BY <1>1, <1>5 DEF Recorded
<1>6. ASSUME NEW j \in Intents
      PROVE  \/ history'[j] = history[j]
             \/ /\ history[j].status \in {"unknown", "queued"}
                /\ history'[j].status \notin {"transmitting", "completed"}
  <2>1. CASE j = i
    BY <1>1, <1>4, <2>1
  <2>2. CASE j # i /\ \E w \in W : w.intent = j
    <3>1. history'[j] = [status |-> "superseded", at |-> now]
      BY <1>5, <2>2, RecordedIs
    <3>2. history[j].status = "queued"
      BY <1>2, <2>2, WaitingForgotten
    <3>. QED  BY <3>1, <3>2
  <2>3. CASE j # i /\ ~ \E w \in W : w.intent = j
    BY <1>5, <2>3, RecordedIs
  <2>. QED  BY <2>1, <2>2, <2>3
<1>7. QueuedOnce'
  <2>1. ASSUME NEW w \in waiting' PROVE history'[w.intent].status = "queued"
    <3>1. CASE w = e
      BY <1>2, <1>4, <3>1
    <3>2. CASE w \in waiting /\ w \notin W
      <4>1. w.intent \in Intents /\ history[w.intent].status = "queued" /\ w.intent # i
        BY <1>1, <3>2, WaitingForgotten
      <4>2. ~ \E v \in W : v.intent = w.intent
        BY <1>2, <3>2 DEF OnceInv, QueuedOnce
      <4>3. Recorded(history, W, "superseded")[w.intent] = history[w.intent]
        BY <4>1, <4>2, RecordedIs
      <4>. QED  BY <1>5, <4>1, <4>3
    <3>. QED  BY <1>1, <2>1, <3>1, <3>2
  <2>2. ASSUME NEW v \in waiting', NEW w \in waiting', v.intent = w.intent PROVE v = w
    <3>1. v = e \/ v \in waiting
      BY <1>1
    <3>2. w = e \/ w \in waiting
      BY <1>1
    <3>. QED  BY <1>2, <1>3, <2>2, <3>1, <3>2 DEF OnceInv, QueuedOnce
  <2>. QED  BY <2>1, <2>2 DEF QueuedOnce
<1>8. ActiveRecorded' /\ HistoryTells' /\ SpokenOnce'
  BY <1>1, <1>6, HistoryStep
<1>. QED  BY <1>7, <1>8 DEF OnceInv


\* What a tick that starts and drops these intents makes of the history of i:
\* it starts, or it ends unspoken, or its transmission is over, or nothing
\* happens to it but that an old end is forgotten.
Told(started, failed, i, h) ==
  \/ /\ \E w \in started : w.intent = i
     /\ h.status = "transmitting"
  \/ /\ ~ \E w \in started : w.intent = i
     /\ \E w \in failed \cup Expired : w.intent = i
     /\ history[i].status = "queued"
     /\ h.status \notin {"transmitting", "completed"}
  \/ /\ ~ \E w \in started \cup failed \cup Expired : w.intent = i
     /\ history[i].status = "transmitting" /\ Over(SenderOf[i])
     /\ h = [status |-> "completed", at |-> now]
  \/ /\ ~ \E w \in started \cup failed \cup Expired : w.intent = i
     /\ ~ \E s \in Senders : Over(s) /\ active[s].intent = i
     /\ \/ h = history[i]
        \/ /\ h = Unknown /\ history[i].status \in Ended
           /\ now - history[i].at > HistoryTTL

LEMMA TickTells ==
  ASSUME TypeOK, OnceInv, NEW started \in SUBSET Attempts, NEW failed \in SUBSET Attempts,
         NEW i \in Intents
  PROVE  Told(started, failed, i, Purged(TickHistory(started, failed))[i])
<1>. DEFINE g == TickHistory(started, failed)[i]
            h == Purged(TickHistory(started, failed))[i]
<1>1. h = IF g.status \in Ended /\ now - g.at > HistoryTTL THEN Unknown ELSE g
  BY DEF Purged
<1>2. g = IF \E w \in started : w.intent = i THEN [status |-> "transmitting", at |-> 0]
          ELSE IF \E w \in failed : w.intent = i THEN [status |-> "dropped", at |-> now]
          ELSE IF \E w \in Expired : w.intent = i THEN [status |-> "expired", at |-> now]
          ELSE IF \E w \in {active[s] : s \in {s \in Senders : Over(s)}} : w.intent = i
               THEN [status |-> "completed", at |-> now]
          ELSE history[i]
  BY Zenon DEF TickHistory
<1>. HIDE DEF g, h
<1>3. "transmitting" \notin Ended /\ Unknown.status = "unknown"
  BY DEF Ended, Unknown
<1>4. failed \subseteq waiting /\ Expired \subseteq waiting
  BY AttemptHeads DEF TypeOK, Expired
<1>5. CASE \E w \in started : w.intent = i
  <2>1. h.status = "transmitting"
    BY <1>1, <1>2, <1>3, <1>5
  <2>. QED  BY <1>5, <2>1 DEF h, Told
<1>6. CASE (~ \E w \in started : w.intent = i) /\ \E w \in failed \cup Expired : w.intent = i
  <2>1. history[i].status = "queued"
    BY <1>4, <1>6, WaitingForgotten
  <2>2. g = [status |-> "dropped", at |-> now] \/ g = [status |-> "expired", at |-> now]
    BY <1>2, <1>6
  <2>3. g.status = "dropped" \/ g.status = "expired"
    BY <2>2
  <2>4. h.status \notin {"transmitting", "completed"}
    BY <1>1, <1>3, <2>3
  <2>. QED  BY <1>6, <2>1, <2>4 DEF h, Told
<1>7. CASE /\ ~ \E w \in started \cup failed \cup Expired : w.intent = i
           /\ \E s \in Senders : Over(s) /\ active[s].intent = i
  <2>1. PICK s \in Senders : Over(s) /\ active[s].intent = i
    BY <1>7
  <2>2. SenderOf[i] = s /\ history[i].status = "transmitting"
    BY <2>1 DEF OnceInv, ActiveRecorded, Over
  <2>3. g = [status |-> "completed", at |-> now]
    BY <1>2, <1>7
  <2>4. g.at = now
    BY <2>3
  <2>5. now - now = 0 /\ HistoryTTL \in Nat
    BY SpeechAssumption DEF TypeOK
  <2>6. h = [status |-> "completed", at |-> now]
    BY <1>1, <2>3, <2>4, <2>5
  <2>. QED  BY <1>7, <2>1, <2>2, <2>6 DEF h, Told
<1>8. CASE /\ ~ \E w \in started \cup failed \cup Expired : w.intent = i
           /\ ~ \E s \in Senders : Over(s) /\ active[s].intent = i
  <2>1. g = history[i]
    BY <1>2, <1>8
  <2>. QED  BY <1>1, <1>8, <2>1 DEF h, Told
<1>. QED  BY <1>5, <1>6, <1>7, <1>8

\* What begins was not transmitted before, unless that has been forgotten.
LEMMA BeginsForgotten ==
  ASSUME IInv, OnceInv, NEW failed \in SUBSET Attempts, Tick(failed),
         NEW b \in aired', b \notin aired
  PROVE  \E w \in Attempts \ failed :
           /\ Begins(b, w) /\ b.intent \in Intents
           /\ Forgotten(b.intent) /\ history[b.intent].status = "queued"
<1>1. PICK w \in Attempts \ failed : Begins(b, w)
  BY TickAirs
<1>2. w \in waiting /\ b.intent = w.intent
  BY <1>1, AttemptHeads DEF IInv, TypeOK, Begins
<1>. QED  BY <1>1, <1>2, WaitingForgotten DEF IInv

LEMMA TickSpokenOnce ==
  ASSUME IInv, OnceInv, NEW failed \in SUBSET Attempts, Tick(failed)
  PROVE  SpokenOnce'
<1>. TypeOK /\ waiting \subseteq Entries /\ now \in Nat /\ aired \subseteq Airings
  BY DEF IInv, TypeOK
<1>. SUFFICES ASSUME NEW a \in aired', NEW b \in aired', a.intent = b.intent, a # b,
                     a.start <= b.start
              PROVE  a.start + Duration[a.intent] + HistoryTTL < b.start
  BY DEF SpokenOnce
<1>1. CASE a \in aired /\ b \in aired
  BY <1>1 DEF OnceInv, SpokenOnce
<1>2. CASE a \in aired /\ b \notin aired
  <2>1. Forgotten(b.intent) /\ b.start = now
    BY <1>2, BeginsForgotten DEF Begins
  <2>. QED  BY <1>2, <2>1 DEF Forgotten, End
<1>3. CASE a \notin aired /\ b \in aired
  <2>1. a.start = now /\ b.start < now /\ b.start \in Nat
    BY <1>3, TickAirs, AiringTyped DEF IInv, Covered, Begins
  <2>. QED  BY <2>1
<1>4. CASE a \notin aired /\ b \notin aired
  <2>1. PICK v \in Attempts \ failed : Begins(a, v)
    BY <1>4, TickAirs
  <2>2. PICK w \in Attempts \ failed : Begins(b, w)
    BY <1>4, TickAirs
  <2>3. v = w
    BY <2>1, <2>2, OnePerSender DEF Begins, Sender
  <2>4. a \in Airings /\ b \in Airings
    BY TickQueueInv DEF TypeOK
  <2>. QED  BY <2>1, <2>2, <2>3, <2>4, SameAiring DEF Begins
<1>. QED  BY <1>1, <1>2, <1>3, <1>4

\* A tick takes what it attempts out of the queues, and what expired.
LEMMA TickQueuedOnce ==
  ASSUME IInv, OnceInv, NEW failed \in SUBSET Attempts, Tick(failed)
  PROVE  QueuedOnce'
<1>. TypeOK
  BY DEF IInv
<1>1. PICK started \in SUBSET Attempts, busy \in [Networks -> Nat] :
        /\ started = Attempts \ failed
        /\ waiting' = {Deferred(w, busy) : w \in Live \ Attempts}
        /\ history' = Purged(TickHistory(started, failed))
  BY TickIs
<1>2. waiting \subseteq Entries
  BY DEF TypeOK
<1>3. ASSUME NEW v \in waiting'
      PROVE  \E w \in Live \ Attempts :
               v = Deferred(w, busy) /\ v.intent = w.intent /\ w \in waiting
  <2>1. PICK w \in Live \ Attempts : v = Deferred(w, busy)
    BY <1>1
  <2>2. w \in Entries /\ w \in waiting
    BY <1>2 DEF Live
  <2>. QED  BY <2>1, <2>2, DeferredTyped
<1>4. ASSUME NEW v \in waiting' PROVE history'[v.intent].status = "queued"
  <2>1. PICK w \in Live \ Attempts : v.intent = w.intent /\ w \in waiting
    BY <1>3
  <2>2. w.intent \in Intents /\ history[w.intent].status = "queued"
    BY <2>1, WaitingForgotten
  <2>3. started \subseteq waiting /\ failed \subseteq waiting /\ Expired \subseteq waiting
    BY <1>2, AttemptHeads DEF Expired
  <2>4. ~ \E u \in started \cup failed \cup Expired : u.intent = w.intent
    BY <2>1, <2>3 DEF OnceInv, QueuedOnce, Live
  <2>5. "queued" \notin Ended
    BY DEF Ended
  <2>. DEFINE h == Purged(TickHistory(started, failed))[w.intent]
  <2>6. Told(started, failed, w.intent, h)
    BY <2>2, TickTells
  <2>7. history'[w.intent] = h
    BY <1>1
  <2>. HIDE DEF h
  <2>8. h = history[w.intent]
    BY <2>2, <2>4, <2>5, <2>6 DEF Told
  <2>. QED  BY <2>1, <2>2, <2>7, <2>8
<1>5. ASSUME NEW u \in waiting', NEW v \in waiting', u.intent = v.intent PROVE u = v
  <2>1. PICK x \in Live \ Attempts : u = Deferred(x, busy) /\ u.intent = x.intent /\ x \in waiting
    BY <1>3
  <2>2. PICK y \in Live \ Attempts : v = Deferred(y, busy) /\ v.intent = y.intent /\ y \in waiting
    BY <1>3
  <2>3. x = y
    BY <1>5, <2>1, <2>2 DEF OnceInv, QueuedOnce
  <2>. QED  BY <2>1, <2>2, <2>3
<1>. QED  BY <1>4, <1>5 DEF QueuedOnce

LEMMA TickActiveRecorded ==
  ASSUME IInv, OnceInv, NEW failed \in SUBSET Attempts, Tick(failed)
  PROVE  ActiveRecorded'
<1>. TypeOK /\ waiting \subseteq Entries
  BY DEF IInv, TypeOK
<1>1. PICK started \in SUBSET Attempts, busy \in [Networks -> Nat] :
        /\ started = Attempts \ failed
        /\ active' = NextActive(started)
        /\ history' = Purged(TickHistory(started, failed))
  BY TickIs
<1>. SUFFICES ASSUME NEW s \in Senders, active'[s] # Silent
              PROVE  /\ SenderOf[active'[s].intent] = s
                     /\ history'[active'[s].intent].status = "transmitting"
  BY DEF ActiveRecorded
<1>2. CASE \E w \in started : Sender(w) = s
  <2>1. PICK w \in started : Sender(w) = s
    BY <1>2
  <2>2. active'[s].intent = w.intent
    <3>1. active'[s] = [intent |-> w.intent, ends |-> EndsAt(w)]
      BY <1>1, <2>1, NextActiveIs
    <3>. QED  BY <3>1
  <2>3. Purged(TickHistory(Attempts \ failed, failed))[w.intent].status = "transmitting"
    BY <1>1, StartedIsTransmitting
  <2>. QED  BY <1>1, <2>1, <2>2, <2>3 DEF Sender
<1>3. CASE ~ \E w \in started : Sender(w) = s
  <2>1. ~ Over(s) /\ active'[s] = active[s]
    BY <1>1, <1>3, NextActiveIs
  <2>. DEFINE i == active[s].intent
              h == Purged(TickHistory(started, failed))[i]
  <2>2. i \in Intents
    BY <2>1 DEF TypeOK, Transmissions
  <2>3. SenderOf[i] = s /\ history[i].status = "transmitting"
    BY <2>1 DEF OnceInv, ActiveRecorded
  <2>4. ~ \E w \in started : w.intent = i
    BY <1>3, <2>3 DEF Sender
  <2>5. "transmitting" \notin Ended
    BY DEF Ended
  <2>6. Told(started, failed, i, h)
    BY <2>2, TickTells
  <2>7. history'[i] = h /\ active'[s].intent = i
    BY <1>1, <2>1
  <2>. HIDE DEF i, h
  <2>8. h.status = "transmitting"
    BY <2>1, <2>3, <2>4, <2>5, <2>6 DEF Told
  <2>. QED  BY <2>3, <2>7, <2>8
<1>. QED  BY <1>2, <1>3


\* A tick keeps the record of every intent true of its transmissions.
LEMMA TickHistoryTells ==
  ASSUME IInv, OnceInv, NEW failed \in SUBSET Attempts, Tick(failed)
  PROVE  HistoryTells'
<1>. TypeOK /\ waiting \subseteq Entries /\ now \in Nat /\ aired \subseteq Airings /\ HistoryTTL \in Nat
  BY SpeechAssumption DEF IInv, TypeOK
<1>1. PICK started \in SUBSET Attempts, busy \in [Networks -> Nat] :
        /\ started = Attempts \ failed /\ now' = now + 1
        /\ active' = NextActive(started)
        /\ history' = Purged(TickHistory(started, failed))
        /\ aired' = aired \cup {Airing(w) : w \in started}
  BY TickIs
<1>. SUFFICES ASSUME NEW i \in Intents
              PROVE  /\ history'[i].status \notin {"transmitting", "completed"} =>
                          \A a \in aired' : a.intent = i => End(a) + HistoryTTL < now'
                     /\ history'[i].status = "completed" =>
                          \A a \in aired' : a.intent = i => End(a) <= history'[i].at
                     /\ history'[i].status = "transmitting" =>
                          /\ active'[SenderOf[i]] # Silent /\ active'[SenderOf[i]].intent = i
                          /\ \A a \in aired' : a.intent = i => End(a) <= active'[SenderOf[i]].ends
  BY DEF HistoryTells, Forgotten, End
<1>. DEFINE h == Purged(TickHistory(started, failed))[i]
<1>2. Told(started, failed, i, h)
  BY TickTells
<1>3. history'[i] = h
  BY <1>1
<1>. HIDE DEF h
<1>4. ASSUME NEW a \in aired PROVE End(a) \in Nat /\ a.start < now
  BY AiringTyped DEF End, IInv, Covered
<1>5. ASSUME ~ \E w \in started : w.intent = i
      PROVE  \A a \in aired' : a.intent = i => a \in aired
  BY <1>1, <1>5 DEF Airing
<1>6. ASSUME Forgotten(i), NEW a \in aired, a.intent = i
      PROVE  End(a) + HistoryTTL < now /\ End(a) + HistoryTTL < now' /\ End(a) < now
  BY <1>1, <1>4, <1>6 DEF Forgotten
<1>7. CASE (\E w \in started : w.intent = i) /\ h.status = "transmitting"
  <2>1. PICK w \in started : w.intent = i
    BY <1>7
  <2>2. w \in Entries /\ w \in waiting /\ Sender(w) = SenderOf[i]
    BY <2>1, AttemptHeads DEF Sender
  <2>3. Forgotten(i)
    BY <2>1, <2>2, WaitingForgotten
  <2>4. active'[SenderOf[i]] = [intent |-> i, ends |-> EndsAt(w)]
    BY <1>1, <2>1, <2>2, NextActiveIs
  <2>5. [intent |-> i, ends |-> EndsAt(w)] \in Transmissions
    BY <2>1, <2>2, EntryTyped DEF Transmissions, EndsAt
  <2>6. EndsAt(w) = now + Duration[i] /\ Duration[i] \in Nat
    BY <2>1, <2>2, EntryTyped DEF EndsAt
  <2>7. ASSUME NEW a \in aired', a.intent = i PROVE End(a) <= EndsAt(w)
    <3>1. CASE a \in aired
      BY <1>6, <1>4, <2>3, <2>6, <2>7, <3>1
    <3>2. CASE a \notin aired
      <4>1. a.start = now
        BY <1>1, <3>2 DEF Airing
      <4>. QED  BY <2>6, <2>7, <4>1 DEF End
    <3>. QED  BY <3>1, <3>2
  <2>8. active'[SenderOf[i]] # Silent
    BY <2>4, <2>5, SilentTyped
  <2>9. active'[SenderOf[i]].intent = i /\ active'[SenderOf[i]].ends = EndsAt(w)
    BY <2>4
  <2>. QED  BY <1>3, <1>7, <2>7, <2>8, <2>9
<1>8. CASE /\ ~ \E w \in started : w.intent = i
           /\ history[i].status = "queued"
           /\ h.status \notin {"transmitting", "completed"}
  <2>1. Forgotten(i)
    BY <1>8 DEF OnceInv, HistoryTells
  <2>. QED  BY <1>3, <1>5, <1>6, <1>8, <2>1
<1>9. CASE /\ ~ \E w \in started : w.intent = i
           /\ history[i].status = "transmitting" /\ Over(SenderOf[i])
           /\ h = [status |-> "completed", at |-> now]
  <2>1. ASSUME NEW a \in aired, a.intent = i PROVE End(a) <= now
    <3>1. End(a) <= active[SenderOf[i]].ends
      BY <1>9, <2>1 DEF OnceInv, HistoryTells
    <3>2. now >= active[SenderOf[i]].ends /\ active[SenderOf[i]] # Silent
      BY <1>9 DEF Over
    <3>3. SenderOf[i] \in Senders
      BY SpeechAssumption
    <3>4. active[SenderOf[i]].ends \in Nat
      BY <3>2, <3>3 DEF TypeOK, Transmissions
    <3>. QED  BY <1>4, <3>1, <3>2, <3>4
  <2>2. h.status = "completed" /\ h.at = now
    BY <1>9
  <2>. QED  BY <1>3, <1>5, <1>9, <2>1, <2>2
<1>10. CASE /\ ~ \E w \in started : w.intent = i
            /\ ~ \E s \in Senders : Over(s) /\ active[s].intent = i
            /\ h = history[i]
  <2>1. CASE history[i].status \notin {"transmitting", "completed"}
    <3>1. Forgotten(i)
      BY <2>1 DEF OnceInv, HistoryTells
    <3>. QED  BY <1>3, <1>5, <1>6, <1>10, <2>1, <3>1
  <2>2. CASE history[i].status = "completed"
    <3>1. \A a \in aired : a.intent = i => End(a) <= history[i].at
      BY <2>2 DEF OnceInv, HistoryTells
    <3>. QED  BY <1>3, <1>5, <1>10, <2>2, <3>1
  <2>3. CASE history[i].status = "transmitting"
    <3>1. /\ active[SenderOf[i]] # Silent /\ active[SenderOf[i]].intent = i
          /\ \A a \in aired : a.intent = i => End(a) <= active[SenderOf[i]].ends
      BY <2>3 DEF OnceInv, HistoryTells
    <3>2. SenderOf[i] \in Senders
      BY SpeechAssumption
    <3>3. ~ Over(SenderOf[i])
      BY <1>10, <3>1, <3>2
    <3>4. ~ \E w \in started : Sender(w) = SenderOf[i]
      <4>1. ASSUME NEW w \in started, Sender(w) = SenderOf[i] PROVE FALSE
        <5>1. Idle(SenderOf[i])
          BY <4>1, AttemptHeads
        <5>. QED  BY <3>1, <3>3, <5>1 DEF Idle
      <4>. QED  BY <4>1
    <3>5. active'[SenderOf[i]] = active[SenderOf[i]]
      BY <1>1, <3>2, <3>3, <3>4, NextActiveIs
    <3>. QED  BY <1>3, <1>5, <1>10, <2>3, <3>1, <3>5
  <2>. QED  BY <2>1, <2>2, <2>3
<1>11. CASE /\ ~ \E w \in started : w.intent = i
            /\ h = Unknown /\ history[i].status \in Ended
            /\ now - history[i].at > HistoryTTL
  <2>1. h.status = "unknown" /\ "transmitting" \notin Ended
    BY <1>11 DEF Unknown, Ended
  <2>2. ASSUME NEW a \in aired, a.intent = i PROVE End(a) + HistoryTTL < now'
    <3>1. CASE history[i].status = "completed"
      <4>1. End(a) <= history[i].at
        BY <2>2, <3>1 DEF OnceInv, HistoryTells
      <4>2. history[i].at \in Nat
        BY DEF TypeOK
      <4>. QED  BY <1>1, <1>4, <1>11, <4>1, <4>2
    <3>2. CASE history[i].status # "completed"
      <4>1. Forgotten(i)
        BY <1>11, <2>1, <3>2 DEF OnceInv, HistoryTells
      <4>. QED  BY <1>6, <2>2, <4>1
    <3>. QED  BY <3>1, <3>2
  <2>. QED  BY <1>3, <1>5, <1>11, <2>1, <2>2
<1>. QED  BY <1>2, <1>7, <1>8, <1>9, <1>10, <1>11 DEF Told

LEMMA NextOnce == IInv /\ OnceInv /\ [Next]_vars => OnceInv'
<1>. SUFFICES ASSUME IInv, OnceInv, [Next]_vars PROVE OnceInv'
  OBVIOUS
<1>. TypeOK
  BY DEF IInv
<1>1. ASSUME NEW o \in Owners, Command(o) PROVE OnceInv'
  <2>1. ASSUME NEW m \in ModeChoices, Configure(o, m) PROVE OnceInv'
    BY <2>1, ClearedOnce DEF Configure
  <2>2. ASSUME Release(o) PROVE OnceInv'
    BY <2>2, ClearedOnce DEF Release
  <2>3. ASSUME NEW i \in Intents, Enqueue(o, i) PROVE OnceInv'
    BY <2>3, EnqueueOnce
  <2>4. ASSUME ClearPending(o) PROVE OnceInv'
    BY <2>4, DropOnce DEF ClearPending
  <2>5. ASSUME NEW s \in Senders, ClearSender(o, s) PROVE OnceInv'
    <3>1. QueueOf(s, waiting) \in SUBSET waiting
      BY DEF QueueOf
    <3>. QED  BY <2>5, <3>1, DropOnce DEF ClearSender
  <2>. QED  BY <1>1, <2>1, <2>2, <2>3, <2>4, <2>5 DEF Command
<1>2. CASE Shutdown
  BY <1>2, ClearedOnce DEF Shutdown
<1>3. ASSUME NEW p \in Sessions, EndSession(p) PROVE OnceInv'
  BY <1>3, DropOnce DEF EndSession
<1>4. ASSUME NEW failed \in SUBSET Attempts, Tick(failed) PROVE OnceInv'
  BY <1>4, TickQueuedOnce, TickActiveRecorded, TickHistoryTells, TickSpokenOnce DEF OnceInv
<1>5. CASE QuietTick
  <2>1. owner = NoOwner /\ UNCHANGED <<waiting, active, history, aired>>
    BY <1>5 DEF QuietTick, queueVars
  <2>2. waiting = {} /\ aired = {} /\ \A s \in Senders : active[s] = Silent
    BY <2>1 DEF IInv, QuietUnowned
  <2>3. QueuedOnce' /\ ActiveRecorded' /\ SpokenOnce'
    BY <2>1, <2>2 DEF QueuedOnce, ActiveRecorded, SpokenOnce
  <2>4. HistoryTells'
    BY <2>1, <2>2 DEF OnceInv, HistoryTells, Forgotten
  <2>. QED  BY <2>3, <2>4 DEF OnceInv
<1>6. CASE UNCHANGED vars
  <2>1. UNCHANGED <<now, waiting, active, history, aired>>
    BY <1>6 DEF vars
  <2>. QED  BY <2>1 DEF OnceInv, QueuedOnce, ActiveRecorded, HistoryTells, Forgotten, SpokenOnce, End
<1>. QED  BY <1>1, <1>2, <1>3, <1>4, <1>5, <1>6 DEF Next, SomeTick

\* An intent that was handed to MSRS is not handed to it again, by however
\* many repetitions of its command, until it has been over for longer than the
\* bridge remembers ends: the history that _EnqueueSpeech consults knows it.
THEOREM SpokenOnceHolds == Spec => []SpokenOnce
<1>1. Spec => []OnceInv
  BY InitInv, InitOnce, NextInv, NextOnce, PTL DEF Spec
<1>2. OnceInv => SpokenOnce
  BY DEF OnceInv
<1>. QED  BY <1>1, <1>2, PTL

=============================================================================
