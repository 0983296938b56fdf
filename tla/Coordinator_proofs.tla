--------------------------- MODULE Coordinator_proofs --------------------------
(***************************************************************************)
(* Theorems about Coordinator for every value of its constants.            *)
(***************************************************************************)
EXTENDS Coordinator, Queues_proofs

-----------------------------------------------------------------------------
(* What the operators return.                                              *)

\* The times after which nothing is due: no cooldown lasts longer.
Horizon == MaxTime + Cooldown["completed"] + Cooldown["blocked"] + Cooldown["failed"]

\* The constants, as the proofs use them.
LEMMA ConstantTypes ==
  /\ MaxTime \in Nat /\ Backoff \in Nat /\ Limit \in Nat /\ Limit > 0
  /\ MaxMishaps \in Nat /\ MaxRestarts \in Nat /\ Horizon \in Nat
  /\ \A s \in {"completed", "blocked", "failed"}, t \in Time :
       t + Cooldown[s] \in 0 .. Horizon
<1>1. /\ Cooldown["completed"] \in Nat /\ Cooldown["blocked"] \in Nat
      /\ Cooldown["failed"] \in Nat /\ MaxTime \in Nat
  BY CoordinatorAssumption
<1>. QED  BY <1>1, CoordinatorAssumption DEF Horizon, Time

LEMMA CandidatesApart ==
  ASSUME NEW c \in Coalitions, NEW d \in Coalitions, c # d
  PROVE  Of(c) \intersect Of(d) = {} /\ Of(c) \subseteq Candidates
  BY DEF Of

\* Among the attempts at one plan there is a latest, the subject of a recovery.
LEMMA SubjectIsLatest ==
  ASSUME NEW k, NEW i \in Numbers(k), Numbers(k) \in SUBSET Nat,
         NEW b \in Nat, \A j \in Numbers(k) : j <= b
  PROVE  /\ Subject(k, i) \in Numbers(k)
         /\ attempts[k][Subject(k, i)].plan = attempts[k][i].plan
         /\ \A n \in Numbers(k) :
              attempts[k][n].plan = attempts[k][i].plan => n <= Subject(k, i)
<1>. DEFINE J == {j \in Numbers(k) : attempts[k][j].plan = attempts[k][i].plan}
<1>1. J \in SUBSET Nat /\ J # {} /\ \A j \in J : j <= b
  OBVIOUS
<1>2. PICK m \in J : \A j \in J : j <= m
  <2>. HIDE DEF J
  <2>. QED  BY <1>1, GreatestNatural
<1>. QED  BY <1>2 DEF Subject

\* Among bounded cycles there is a latest.
LEMMA LatestCycleExists ==
  ASSUME NEW S \in SUBSET SavedCycles, S # {}
  PROVE  /\ LatestCycle(S) \in S
         /\ \A s \in S : s.started <= LatestCycle(S).started
<1>. DEFINE T == {s.started : s \in S}
<1>1. T \in SUBSET Nat /\ T # {} /\ MaxTime \in Nat /\ \A t \in T : t <= MaxTime
  BY ConstantTypes DEF SavedCycles, Time
<1>2. PICK m \in T : \A t \in T : t <= m
  <2>. HIDE DEF T
  <2>. QED  BY <1>1, GreatestNatural
<1>3. PICK r \in S : \A s \in S : s.started <= r.started
  BY <1>2
<1>. QED  BY <1>3 DEF LatestCycle

\* Among bounded cooldowns there is a greatest.
LEMMA GreatestCooldown ==
  ASSUME NEW R, R # {}, NEW b \in Nat,
         \A x \in R : x \in Cooldowns /\ x.until <= b
  PROVE  \E x \in R : \A y \in R : AtMost(y, x)
<1>. DEFINE T == {x.since : x \in R}
<1>1. T \in SUBSET Nat /\ T # {} /\ MaxTime \in Nat /\ \A t \in T : t <= MaxTime
  BY ConstantTypes DEF Cooldowns, Time
<1>2. PICK m \in T : \A t \in T : t <= m
  <2>. HIDE DEF T
  <2>. QED  BY <1>1, GreatestNatural
<1>. DEFINE U == {x.until : x \in {y \in R : y.since = m}}
<1>3. U \in SUBSET Nat /\ U # {} /\ \A u \in U : u <= b
  BY <1>2 DEF Cooldowns
<1>4. PICK n \in U : \A u \in U : u <= n
  <2>. HIDE DEF T, U
  <2>. QED  BY <1>3, GreatestNatural
<1>5. PICK x \in R : x.since = m /\ x.until = n
  BY <1>4
<1>6. ASSUME NEW y \in R PROVE AtMost(y, x)
  <2>1. y.since <= m /\ y.since \in Nat /\ m \in Nat
    BY <1>1, <1>2 DEF Cooldowns, Time
  <2>2. CASE y.since = m
    BY <2>2, <1>4, <1>5 DEF AtMost
  <2>3. CASE y.since < m
    BY <2>3, <1>5 DEF AtMost
  <2>. QED  BY <2>1, <2>2, <2>3
<1>. QED  BY <1>6

-----------------------------------------------------------------------------
(* The invariant of types.                                                 *)

\* No cooldown of a cycle is beyond the horizon, so that a restored one, the
\* greatest on record, exists.
Bounded ==
    /\ \A c \in Coalitions : \A r \in cycles[c], k \in Candidates :
         r.until[k] # None => r.until[k] \in 0 .. Horizon
    /\ \A c \in Coalitions, k \in Candidates :
         cycle[c].until[k] # None => cycle[c].until[k] \in 0 .. Horizon

\* A worker has to do with its own candidates and with attempts on record.
OwnedBy(c) ==
    /\ cycle[c].todo \subseteq Of(c) /\ cycle[c].ready \subseteq Of(c)
    /\ cycle[c].running \subseteq Of(c)
    /\ \A x \in interrupted[c] : x[1] \in Of(c) /\ x[2] \in Numbers(x[1])
    /\ hand[c] # None => /\ hand[c] \in Candidates \X Nat
                         /\ hand[c][1] \in Of(c) /\ hand[c][2] \in Numbers(hand[c][1])

Recovering == {"monitor", "revalidate", "resumed"}

\* What belongs to a cycle is there during a cycle only, and what belongs to a
\* recovery during a recovery; a selection begins after all recoveries.
InPlace(c) ==
    /\ worker[c] \notin {"activate", "execute"} => cycle[c].todo = {} /\ cycle[c].ready = {}
    /\ worker[c] # "execute" => cycle[c].running = {}
    /\ worker[c] = "execute" => cycle[c].todo = {}
    /\ cycle[c].todo \intersect cycle[c].ready = {}
    /\ cycle[c].ready \intersect cycle[c].running = {}
    /\ worker[c] \in Deciding \union {"execute"} => interrupted[c] = {}
    /\ worker[c] \in Recovering => hand[c] # None
    /\ worker[c] \in Deciding \union {"idle", "execute"} => hand[c] = None

TypeInv == TypeOK /\ Bounded /\ \A c \in Coalitions : OwnedBy(c) /\ InPlace(c)

\* A step of one worker leaves the other one and its attempts alone.
Elsewhere(c) ==
    /\ \A d \in Coalitions \ {c} :
         /\ worker'[d] = worker[d] /\ cycle'[d] = cycle[d]
         /\ hand'[d] = hand[d] /\ interrupted'[d] = interrupted[d]
    /\ \A k \in Candidates \ Of(c) : attempts'[k] = attempts[k]

LEMMA ElsewhereKeeps ==
  ASSUME NEW c \in Coalitions, NEW d \in Coalitions, d # c, Elsewhere(c),
         OwnedBy(d), InPlace(d)
  PROVE  OwnedBy(d)' /\ InPlace(d)'
<1>1. /\ worker'[d] = worker[d] /\ cycle'[d] = cycle[d]
      /\ hand'[d] = hand[d] /\ interrupted'[d] = interrupted[d]
  BY DEF Elsewhere
<1>2. \A k \in Of(d) : attempts'[k] = attempts[k]
  BY CandidatesApart DEF Elsewhere
<1>3. OwnedBy(d)'
  BY <1>1, <1>2 DEF OwnedBy, Numbers, Of
<1>4. InPlace(d)'
  BY <1>1 DEF InPlace
<1>. QED  BY <1>3, <1>4

\* The first snapshot of an attempt.
LEMMA StartSaved ==
  ASSUME TypeOK, NEW k \in Candidates, NEW plan \in Time, SaveStart(k, plan)
  PROVE  /\ attempts' \in [Candidates -> Seq(Attempts)]
         /\ \A h \in Candidates \ {k} : attempts'[h] = attempts[h]
         /\ Numbers(k) = 1 .. Latest(k) /\ Latest(k) \in Nat
         /\ Latest(k)' = Latest(k) + 1 /\ Numbers(k)' = 1 .. (Latest(k) + 1)
         /\ \A i \in Numbers(k) : attempts'[k][i] = attempts[k][i]
         /\ attempts'[k][Latest(k) + 1].plan = plan
         /\ attempts'[k][Latest(k) + 1].status = "executing"
         /\ attempts'[k][Latest(k) + 1].started = now
         /\ attempts'[k][Latest(k) + 1].ended = now
<1>. DEFINE a == [plan |-> plan, status |-> "executing", started |-> now, ended |-> now]
<1>1. a \in Attempts /\ attempts[k] \in Seq(Attempts)
  BY DEF TypeOK, Attempts
<1>2. attempts' = [attempts EXCEPT ![k] = Append(@, a)]
  BY DEF SaveStart
<1>3. Append(attempts[k], a) \in Seq(Attempts)
  BY <1>1
<1>4. attempts'[k] = Append(attempts[k], a)
  BY <1>2 DEF TypeOK
<1>5. /\ attempts' \in [Candidates -> Seq(Attempts)]
      /\ \A h \in Candidates \ {k} : attempts'[h] = attempts[h]
  BY <1>2, <1>3 DEF TypeOK
<1>6. /\ Len(Append(attempts[k], a)) = Len(attempts[k]) + 1
      /\ \A i \in 1 .. Len(attempts[k]) : Append(attempts[k], a)[i] = attempts[k][i]
      /\ Append(attempts[k], a)[Len(attempts[k]) + 1] = a
  BY <1>1
<1>. QED  BY <1>1, <1>3, <1>4, <1>5, <1>6 DEF Numbers, Latest

\* The last snapshot of an attempt, which may not be recorded.
LEMMA EndSaved ==
  ASSUME TypeOK, NEW k \in Candidates, NEW i \in Numbers(k),
         NEW status \in {"completed", "blocked"}, SaveEnd(k, i, status)
  PROVE  /\ attempts' \in [Candidates -> Seq(Attempts)]
         /\ mishaps' \in 0 .. MaxMishaps
         /\ \A h \in Candidates \ {k} : attempts'[h] = attempts[h]
         /\ Numbers(k) = 1 .. Latest(k) /\ Latest(k) \in Nat
         /\ Numbers(k)' = Numbers(k) /\ Latest(k)' = Latest(k)
         /\ \A j \in Numbers(k) \ {i} : attempts'[k][j] = attempts[k][j]
         /\ attempts'[k][i].plan = attempts[k][i].plan
         /\ attempts'[k][i].started = attempts[k][i].started
         /\ \/ attempts'[k][i].status = status /\ attempts'[k][i].ended = now
               /\ mishaps' = mishaps
            \/ attempts'[k][i] = attempts[k][i] /\ mishaps' = mishaps + 1
<1>1. /\ attempts[k] \in Seq(Attempts) /\ attempts[k][i] \in Attempts /\ now \in Time
      /\ mishaps \in 0 .. MaxMishaps /\ MaxMishaps \in Nat
  BY ConstantTypes DEF TypeOK, Numbers
<1>. DEFINE a == [attempts[k][i] EXCEPT !.status = status, !.ended = now]
            s == [attempts[k] EXCEPT ![i] = a]
<1>2. /\ a \in Attempts /\ a.plan = attempts[k][i].plan /\ a.status = status
      /\ a.started = attempts[k][i].started /\ a.ended = now
  BY <1>1 DEF Attempts
<1>3. CASE attempts' = [attempts EXCEPT ![k][i].status = status, ![k][i].ended = now]
           /\ mishaps' = mishaps
  <2>1. /\ s \in Seq(Attempts) /\ Len(s) = Len(attempts[k]) /\ DOMAIN s = DOMAIN attempts[k]
        /\ s[i] = a /\ \A j \in DOMAIN attempts[k] \ {i} : s[j] = attempts[k][j]
    <3>. HIDE DEF a
    <3>. QED  BY <1>1, <1>2 DEF Numbers
  <2>2. attempts' = [attempts EXCEPT ![k] = s]
    BY <1>3 DEF TypeOK, Numbers
  <2>3. attempts'[k] = s
    BY <2>2 DEF TypeOK
  <2>4. /\ attempts' \in [Candidates -> Seq(Attempts)]
        /\ \A h \in Candidates \ {k} : attempts'[h] = attempts[h]
    <3>. HIDE DEF s
    <3>. QED  BY <2>1, <2>2 DEF TypeOK
  <2>. HIDE DEF s, a
  <2>. QED  BY <1>1, <1>2, <1>3, <2>1, <2>3, <2>4 DEF Numbers, Latest
<1>4. CASE attempts' = attempts /\ mishaps < MaxMishaps /\ mishaps' = mishaps + 1
  BY <1>1, <1>4 DEF TypeOK, Numbers, Latest
<1>. QED  BY <1>3, <1>4 DEF SaveEnd

LEMMA CoolTyped ==
  ASSUME NEW since \in Time, NEW end \in Time,
         NEW status \in {"completed", "blocked", "failed"}
  PROVE  Cool(since, end, status) \in Cooldowns /\ Cool(since, end, status).until \in 0 .. Horizon
<1>1. end + Cooldown[status] \in 0 .. Horizon
  BY ConstantTypes
<1>. QED  BY <1>1, ConstantTypes DEF Cool, Cooldowns

LEMMA MergedTyped ==
  ASSUME NEW old \in Cooldowns \union {None}, NEW new \in Cooldowns
  PROVE  Merged(old, new) \in Cooldowns \union {None}
  BY DEF Merged

\* The cooldown that is restored is the greatest on record.
LEMMA RestoredIsGreatest ==
  ASSUME TypeOK, Bounded, NEW k \in Candidates, Recorded(k) # {}
  PROVE  /\ \A x \in Recorded(k) : x \in Cooldowns /\ x.until <= Horizon
         /\ RestoredCooldown(k) \in Recorded(k)
         /\ \A x \in Recorded(k) : AtMost(x, RestoredCooldown(k))
<1>1. ASSUME NEW r \in cycles[SideOf[k]], r.until[k] # None
      PROVE  LET x == [since |-> r.started, until |-> r.until[k]]
             IN  x \in Cooldowns /\ x.until <= Horizon
  <2>1. SideOf[k] \in Coalitions
    BY CoordinatorAssumption
  <2>2. r \in SavedCycles /\ r.until[k] \in 0 .. Horizon
    BY <1>1, <2>1 DEF TypeOK, Bounded
  <2>. QED  BY <2>2, ConstantTypes DEF SavedCycles, Cooldowns
<1>2. ASSUME NEW i \in Numbers(k), attempts[k][i].status # "executing"
      PROVE  LET x == Cool(attempts[k][i].ended, attempts[k][i].ended, attempts[k][i].status)
             IN  x \in Cooldowns /\ x.until <= Horizon
  <2>1. attempts[k][i] \in Attempts
    BY DEF TypeOK, Numbers
  <2>2. /\ attempts[k][i].ended \in Time
        /\ attempts[k][i].status \in {"completed", "blocked", "failed"}
    BY <1>2, <2>1 DEF Attempts
  <2>. QED  BY <2>2, CoolTyped, ConstantTypes
<1>3. \A x \in Recorded(k) : x \in Cooldowns /\ x.until <= Horizon
  BY <1>1, <1>2 DEF Recorded
<1>4. \E x \in Recorded(k) : \A y \in Recorded(k) : AtMost(y, x)
  BY <1>3, GreatestCooldown, ConstantTypes
<1>. QED  BY <1>3, <1>4 DEF RestoredCooldown

\* What a coordinator restores.
LEMMA RestoredTyped ==
  ASSUME TypeOK, Bounded
  PROVE  /\ \A c \in Coalitions : RestoredLast(c) \in Time \union {None}
         /\ \A c \in Coalitions : RestoredNotBefore(c) \in Nat \union {None}
         /\ \A k \in Candidates : RestoredCooldown(k) \in Cooldowns \union {None}
<1>1. ASSUME NEW c \in Coalitions
      PROVE  RestoredLast(c) \in Time \union {None} /\ RestoredNotBefore(c) \in Nat \union {None}
  <2>1. CASE cycles[c] = {}
    BY <2>1 DEF RestoredLast, RestoredNotBefore
  <2>2. CASE cycles[c] # {}
    <3>1. LatestCycle(cycles[c]) \in SavedCycles
      BY <2>2, LatestCycleExists DEF TypeOK
    <3>. QED  BY <3>1, ConstantTypes DEF RestoredLast, RestoredNotBefore, SavedCycles, Time
  <2>. QED  BY <2>1, <2>2
<1>2. ASSUME NEW k \in Candidates
      PROVE  RestoredCooldown(k) \in Cooldowns \union {None}
  <2>1. CASE Recorded(k) = {}
    BY <2>1 DEF RestoredCooldown
  <2>2. CASE Recorded(k) # {}
    BY <2>2, RestoredIsGreatest
  <2>. QED  BY <2>1, <2>2
<1>. QED  BY <1>1, <1>2

LEMMA NoCycleTyped ==
  NoCycle \in Cycles /\ \A k \in Candidates : NoCycle.until[k] = None
<1>1. 0 \in Time
  BY ConstantTypes DEF Time
<1>. QED  BY <1>1 DEF NoCycle, Cycles, Untils

LEMMA InitTypes == Init => TypeInv
<1>. SUFFICES ASSUME Init PROVE TypeInv
  OBVIOUS
<1>1. 0 \in Time /\ 0 \in 0 .. MaxRestarts /\ 0 \in 0 .. MaxMishaps
  BY ConstantTypes DEF Time
<1>2. TypeOK
  <2>1. attempts \in [Candidates -> Seq(Attempts)] /\ cycles \in [Coalitions -> SUBSET SavedCycles]
    <3>1. <<>> \in Seq(Attempts)
      OBVIOUS
    <3>. QED  BY <3>1 DEF Init
  <2>2. cycle \in [Coalitions -> Cycles] /\ hand \in [Coalitions -> {None} \union (Candidates \X Nat)]
    BY NoCycleTyped DEF Init
  <2>3. interrupted \in [Coalitions -> SUBSET (Candidates \X Nat)]
    BY DEF Init
  <2>4. /\ last \in [Coalitions -> Time \union {None}]
        /\ notBefore \in [Coalitions -> Nat \union {None}]
        /\ cooldown \in [Candidates -> Cooldowns \union {None}]
    BY DEF Init
  <2>5. worker \in [Coalitions -> Deciding \union
           {"idle", "execute", "monitor", "revalidate", "resumed", "stopped", "failed"}]
    BY DEF Init
  <2>. QED  BY <1>1, <2>1, <2>2, <2>3, <2>4, <2>5 DEF Init, TypeOK
<1>3. Bounded
  BY NoCycleTyped DEF Init, Bounded
<1>4. \A c \in Coalitions : OwnedBy(c) /\ InPlace(c)
  BY DEF Init, OwnedBy, InPlace, NoCycle, Recovering, Deciding
<1>. QED  BY <1>2, <1>3, <1>4 DEF TypeInv

\* Time and the end of the mission.
LEMMA WorldTypes ==
  ASSUME TypeInv, AdvanceClock \/ EndMission \/ Learn
  PROVE  TypeInv'
<1>1. /\ UNCHANGED <<worker, cycle, hand, interrupted, open, last, notBefore, cooldown,
                     attempts, cycles, restarts, mishaps>>
      /\ now' \in Time /\ ended' \in BOOLEAN /\ aware' \in BOOLEAN
  <2>1. CASE AdvanceClock
    BY <2>1, ConstantTypes DEF AdvanceClock, TypeInv, TypeOK, Time, recovery, schedule, audit, bounds
  <2>2. CASE EndMission
    BY <2>2 DEF EndMission, TypeInv, TypeOK, recovery, schedule, audit, bounds
  <2>3. CASE Learn
    BY <2>3 DEF Learn, TypeInv, TypeOK, recovery, schedule, audit, bounds
  <2>. QED  BY <2>1, <2>2, <2>3
<1>2. TypeOK'
  BY <1>1 DEF TypeInv, TypeOK
<1>3. Bounded' /\ \A c \in Coalitions : OwnedBy(c)' /\ InPlace(c)'
  BY <1>1 DEF TypeInv, Bounded, OwnedBy, InPlace, Numbers
<1>. QED  BY <1>2, <1>3 DEF TypeInv

LEMMA InterruptedOwned ==
  ASSUME TypeOK, NEW c \in Coalitions, NEW x \in Interrupted(c)
  PROVE  /\ x \in Candidates \X Nat /\ x[1] \in Of(c) /\ x[2] \in Numbers(x[1])
         /\ attempts[x[1]][x[2]].status = "executing"
<1>1. PICK k \in Of(c) :
        \E i \in Numbers(k) : x = <<k, i>> /\ attempts[k][i].status = "executing"
  BY DEF Interrupted
<1>2. k \in Candidates /\ \A i \in Numbers(k) : i \in Nat
  BY DEF Of, TypeOK, Numbers
<1>. QED  BY <1>1, <1>2

LEMMA RestartTypes ==
  ASSUME TypeInv, RestartClient
  PROVE  TypeInv'
<1>1. /\ worker' = [c \in Coalitions |-> "idle"] /\ cycle' = [c \in Coalitions |-> NoCycle]
      /\ hand' = [c \in Coalitions |-> None]
      /\ interrupted' = [c \in Coalitions |-> Interrupted(c)]
      /\ open' = {} /\ last' = [c \in Coalitions |-> RestoredLast(c)]
      /\ notBefore' = [c \in Coalitions |-> RestoredNotBefore(c)]
      /\ cooldown' = [k \in Candidates |-> RestoredCooldown(k)]
      /\ UNCHANGED <<now, ended, aware, attempts, cycles, mishaps>>
      /\ restarts' = restarts + 1 /\ restarts < MaxRestarts
  BY DEF RestartClient, world, audit
<1>2. TypeOK'
  <2>1. restarts' \in 0 .. MaxRestarts
    BY <1>1, ConstantTypes DEF TypeInv, TypeOK
  <2>2. interrupted' \in [Coalitions -> SUBSET (Candidates \X Nat)]
    BY <1>1, InterruptedOwned DEF TypeInv
  <2>3. /\ last' \in [Coalitions -> Time \union {None}]
        /\ notBefore' \in [Coalitions -> Nat \union {None}]
        /\ cooldown' \in [Candidates -> Cooldowns \union {None}]
    BY <1>1, RestoredTyped DEF TypeInv
  <2>. QED  BY <1>1, <2>1, <2>2, <2>3, NoCycleTyped DEF TypeInv, TypeOK
<1>3. Bounded'
  BY <1>1, NoCycleTyped DEF TypeInv, Bounded
<1>4. \A c \in Coalitions : OwnedBy(c)'
  BY <1>1, InterruptedOwned DEF TypeInv, OwnedBy, NoCycle, Numbers
<1>5. \A c \in Coalitions : InPlace(c)'
  BY <1>1 DEF InPlace, NoCycle, Deciding, Recovering
<1>. QED  BY <1>2, <1>3, <1>4, <1>5 DEF TypeInv

-----------------------------------------------------------------------------
(* The steps of a recovery.                                                *)

LEMMA WorkerTypes ==
  ASSUME TypeInv, NEW c \in Coalitions, TypeOK', Bounded', Elsewhere(c),
         OwnedBy(c)', InPlace(c)'
  PROVE  TypeInv'
  BY ElsewhereKeeps DEF TypeInv

LEMMA HandTyped ==
  ASSUME TypeInv, NEW c \in Coalitions, hand[c] # None
  PROVE  /\ hand[c][1] \in Of(c) /\ hand[c][1] \in Candidates /\ hand[c][2] \in Nat
         /\ hand[c] = <<hand[c][1], hand[c][2]>>
         /\ hand[c][2] \in Numbers(hand[c][1])
         /\ attempts[hand[c][1]] \in Seq(Attempts)
         /\ Numbers(hand[c][1]) = 1 .. Latest(hand[c][1]) /\ Latest(hand[c][1]) \in Nat
         /\ attempts[hand[c][1]][hand[c][2]] \in Attempts
<1>1. /\ hand[c] \in Candidates \X Nat /\ hand[c][1] \in Of(c)
      /\ hand[c][2] \in Numbers(hand[c][1])
  BY DEF TypeInv, OwnedBy
<1>2. attempts[hand[c][1]] \in Seq(Attempts)
  BY <1>1 DEF TypeInv, TypeOK
<1>. QED  BY <1>1, <1>2 DEF Numbers, Latest

LEMMA TakeUpTypes ==
  ASSUME TypeInv, NEW c \in Coalitions, TakeUp(c)
  PROVE  TypeInv' /\ Elsewhere(c)
<1>1. PICK x \in interrupted[c] :
         /\ hand' = [hand EXCEPT ![c] = x]
         /\ interrupted' = [interrupted EXCEPT ![c] = @ \ {x}]
         /\ open' = open \union {x[1]}
  BY DEF TakeUp
<1>2. /\ worker[c] = "idle" /\ worker' = [worker EXCEPT ![c] = "monitor"]
      /\ UNCHANGED <<now, ended, aware, cycle, last, notBefore, cooldown, attempts, cycles,
                     restarts, mishaps>>
  BY DEF TakeUp, Goto, world, schedule, audit, bounds
<1>3. x \in Candidates \X Nat /\ x[1] \in Of(c) /\ x[2] \in Numbers(x[1]) /\ x # None
  BY CoordinatorAssumption DEF TypeInv, TypeOK, OwnedBy
<1>4. TypeOK'
  BY <1>1, <1>2, <1>3 DEF TypeInv, TypeOK
<1>5. Bounded' /\ Elsewhere(c)
  BY <1>1, <1>2 DEF TypeInv, TypeOK, Bounded, Elsewhere
<1>6. OwnedBy(c)'
  BY <1>1, <1>2, <1>3 DEF TypeInv, TypeOK, OwnedBy, Numbers
<1>7. InPlace(c)'
  BY <1>1, <1>2, <1>3 DEF TypeInv, TypeOK, InPlace, Deciding, Recovering
<1>. QED  BY <1>4, <1>5, <1>6, <1>7, WorkerTypes

LEMMA RecoveredTypes ==
  ASSUME TypeInv, NEW c \in Coalitions, hand[c] # None,
         NEW status \in {"completed", "blocked"}, Recovered(c, status)
  PROVE  /\ cooldown' \in [Candidates -> Cooldowns \union {None}]
         /\ open' \in SUBSET Candidates
         /\ hand' = [hand EXCEPT ![c] = None] /\ worker' = [worker EXCEPT ![c] = "idle"]
<1>. DEFINE k == hand[c][1]
            new == Cool(attempts[k][hand[c][2]].started, now, status)
<1>1. /\ cooldown' = [cooldown EXCEPT ![k] = Merged(@, new)] /\ open' = open \ {k}
      /\ hand' = [hand EXCEPT ![c] = None] /\ worker' = [worker EXCEPT ![c] = "idle"]
  BY DEF Recovered, Goto
<1>2. k \in Candidates /\ new \in Cooldowns
  <2>1. attempts[k][hand[c][2]] \in Attempts /\ now \in Time
    BY HandTyped DEF TypeInv, TypeOK
  <2>. QED  BY <2>1, HandTyped, CoolTyped DEF Attempts
<1>3. Merged(cooldown[k], new) \in Cooldowns \union {None}
  BY <1>2, MergedTyped DEF TypeInv, TypeOK
<1>. HIDE DEF k, new
<1>. QED  BY <1>1, <1>2, <1>3 DEF TypeInv, TypeOK

\* What the steps that end an attempt and those that start one leave alone.
LEMMA AttemptsTypes ==
  ASSUME TypeInv, NEW c \in Coalitions, NEW k \in Of(c),
         \A h \in Candidates \ {k} : attempts'[h] = attempts[h],
         Numbers(k) \subseteq Numbers(k)',
         interrupted'[c] = interrupted[c], cycle'[c] = cycle[c],
         hand'[c] \in {hand[c], None}
  PROVE  OwnedBy(c)'
<1>1. \A h \in Of(c) : Numbers(h) \subseteq Numbers(h)'
  BY DEF Numbers, Of
<1>2. \A x \in interrupted'[c] : x[1] \in Of(c) /\ x[2] \in Numbers(x[1])'
  BY <1>1 DEF TypeInv, OwnedBy
<1>3. ASSUME hand'[c] # None
      PROVE  /\ hand'[c] \in Candidates \X Nat /\ hand'[c][1] \in Of(c)
             /\ hand'[c][2] \in DOMAIN attempts'[hand'[c][1]]
  <2>1. /\ hand'[c] = hand[c] /\ hand[c] \in Candidates \X Nat /\ hand[c][1] \in Of(c)
        /\ hand[c][2] \in Numbers(hand[c][1])
    BY <1>3 DEF TypeInv, OwnedBy
  <2>2. hand[c][2] \in DOMAIN attempts'[hand[c][1]]
    BY <1>1, <2>1 DEF Numbers
  <2>. QED  BY <2>1, <2>2
<1>4. /\ cycle'[c].todo \subseteq Of(c) /\ cycle'[c].ready \subseteq Of(c)
      /\ cycle'[c].running \subseteq Of(c)
  BY DEF TypeInv, OwnedBy
<1>5. \A x \in interrupted'[c] : x[2] \in DOMAIN attempts'[x[1]]
  BY <1>2 DEF Numbers
<1>. QED  BY <1>2, <1>3, <1>4, <1>5 DEF OwnedBy, Of, Numbers


\* The steps of a recovery that ends, or goes on to its next stage.
LEMMA StageTypes ==
  ASSUME TypeInv, NEW c \in Coalitions, worker[c] \in Recovering,
         attempts' \in [Candidates -> Seq(Attempts)], mishaps' \in 0 .. MaxMishaps,
         \A h \in Candidates \ {hand[c][1]} : attempts'[h] = attempts[h],
         Numbers(hand[c][1]) \subseteq DOMAIN attempts'[hand[c][1]],
         cooldown' \in [Candidates -> Cooldowns \union {None}], open' \in SUBSET Candidates,
         UNCHANGED <<now, ended, aware, cycle, interrupted, last, notBefore, cycles, restarts>>,
         \/ worker' = [worker EXCEPT ![c] = "idle"] /\ hand' = [hand EXCEPT ![c] = None]
         \/ \E w \in {"revalidate", "resumed"} :
              worker' = [worker EXCEPT ![c] = w] /\ hand' = hand
  PROVE  TypeInv' /\ Elsewhere(c)
<1>. DEFINE k == hand[c][1]
<1>1. hand[c] # None
  BY DEF TypeInv, InPlace
<1>2. k \in Of(c) /\ k \in Candidates
  BY <1>1, HandTyped
<1>3. /\ hand'[c] \in {hand[c], None}
      /\ hand' \in [Coalitions -> {None} \union (Candidates \X Nat)]
      /\ \A d \in Coalitions \ {c} : worker'[d] = worker[d] /\ hand'[d] = hand[d]
      /\ \/ worker'[c] = "idle" /\ hand'[c] = None
         \/ worker'[c] \in {"revalidate", "resumed"} /\ hand'[c] = hand[c]
      /\ worker' \in [Coalitions -> Deciding \union
           {"idle", "execute", "monitor", "revalidate", "resumed", "stopped", "failed"}]
  BY DEF TypeInv, TypeOK
<1>4. TypeOK'
  BY <1>3 DEF TypeInv, TypeOK
<1>5. Bounded'
  BY DEF TypeInv, Bounded
<1>6. Elsewhere(c)
  BY <1>2, <1>3 DEF Elsewhere
<1>7. OwnedBy(c)'
  <2>1. PICK g \in Of(c) : g = hand[c][1]
    BY <1>2
  <2>2. Numbers(g) \subseteq Numbers(g)' /\ \A h \in Candidates \ {g} : attempts'[h] = attempts[h]
    BY <2>1 DEF Numbers
  <2>. QED  BY <1>3, <2>2, AttemptsTypes
<1>8. InPlace(c)'
  BY <1>1, <1>3 DEF TypeInv, InPlace, Deciding, Recovering
<1>. QED  BY <1>4, <1>5, <1>6, <1>7, <1>8, WorkerTypes

LEMMA EndTypes ==
  ASSUME TypeInv, NEW status \in {"completed", "blocked"}
  PROVE  \A g \in Candidates : \A m \in Numbers(g) : SaveEnd(g, m, status) =>
           /\ attempts' \in [Candidates -> Seq(Attempts)] /\ mishaps' \in 0 .. MaxMishaps
           /\ \A h \in Candidates \ {g} : attempts'[h] = attempts[h]
           /\ Numbers(g) \subseteq DOMAIN attempts'[g]
<1>1. ASSUME NEW g \in Candidates, NEW m \in Numbers(g), SaveEnd(g, m, status)
      PROVE  /\ attempts' \in [Candidates -> Seq(Attempts)]
             /\ mishaps' \in 0 .. MaxMishaps
             /\ \A h \in Candidates \ {g} : attempts'[h] = attempts[h]
             /\ Numbers(g) \subseteq DOMAIN attempts'[g]
  <2>1. Numbers(g)' = Numbers(g)
    BY <1>1, EndSaved DEF TypeInv
  <2>2. DOMAIN attempts'[g] = Numbers(g)
    BY <2>1 DEF Numbers
  <2>. QED  BY <1>1, <2>2, EndSaved DEF TypeInv
<1>. QED  BY <1>1

LEMMA MonitorTypes ==
  ASSUME TypeInv, NEW c \in Coalitions, Monitor(c)
  PROVE  TypeInv' /\ Elsewhere(c)
<1>. DEFINE k == hand[c][1]
            i == Subject(k, hand[c][2])
<1>1. /\ worker[c] = "monitor" /\ hand[c] # None
      /\ UNCHANGED <<now, ended, aware, cycle, interrupted, last, notBefore, cycles, restarts>>
  BY DEF Monitor, TypeInv, InPlace, Recovering, world, schedule
<1>2. k \in Candidates /\ i \in Numbers(k)
  <2>1. k \in Candidates /\ hand[c][2] \in Numbers(k) /\ Numbers(k) = 1 .. Latest(k)
        /\ Latest(k) \in Nat
    BY <1>1, HandTyped
  <2>. HIDE DEF k
  <2>2. \A m \in Numbers(k) : Subject(k, m) \in Numbers(k)
    BY <2>1, SubjectIsLatest
  <2>. QED  BY <2>1, <2>2
<1>3. PICK status \in {"completed", "blocked"} :
        /\ SaveEnd(k, i, status)
        /\ \/ Recovered(c, status)
           \/ Goto(c, "revalidate") /\ UNCHANGED <<open, hand, cooldown>>
  BY DEF Monitor
<1>4. /\ attempts' \in [Candidates -> Seq(Attempts)] /\ mishaps' \in 0 .. MaxMishaps
      /\ \A h \in Candidates \ {k} : attempts'[h] = attempts[h]
      /\ Numbers(k) \subseteq DOMAIN attempts'[k]
  <2>. HIDE DEF k, i
  <2>. QED  BY <1>2, <1>3, EndTypes
<1>5. CASE Recovered(c, status)
  BY <1>1, <1>4, <1>5, RecoveredTypes, StageTypes DEF Recovering
<1>6. CASE Goto(c, "revalidate") /\ UNCHANGED <<open, hand, cooldown>>
  BY <1>1, <1>4, <1>6, StageTypes DEF Recovering, Goto, TypeInv, TypeOK
<1>. QED  BY <1>3, <1>5, <1>6


LEMMA ResumeTypes ==
  ASSUME TypeInv, NEW c \in Coalitions, Resume(c)
  PROVE  TypeInv' /\ Elsewhere(c)
<1>1. /\ worker[c] = "revalidate" /\ hand[c] # None
      /\ UNCHANGED <<now, ended, aware, cycle, interrupted, last, notBefore, cycles, restarts,
                     mishaps>>
  BY DEF Resume, TypeInv, InPlace, Recovering, world, schedule, bounds
<1>2. CASE Recovered(c, "blocked") /\ UNCHANGED attempts
  BY <1>1, <1>2, RecoveredTypes, StageTypes DEF Recovering, TypeInv, TypeOK, Numbers
<1>3. CASE /\ SaveStart(hand[c][1], attempts[hand[c][1]][hand[c][2]].plan)
           /\ Goto(c, "resumed") /\ UNCHANGED <<open, hand, cooldown>>
  <2>1. attempts[hand[c][1]][hand[c][2]].plan \in Time /\ hand[c][1] \in Candidates
    BY <1>1, HandTyped DEF Attempts
  <2>2. /\ attempts' \in [Candidates -> Seq(Attempts)]
        /\ \A h \in Candidates \ {hand[c][1]} : attempts'[h] = attempts[h]
    BY <1>3, <2>1, StartSaved DEF TypeInv
  <2>3. PICK g \in Candidates : g = hand[c][1]
    BY <2>1
  <2>4. Numbers(g) = 1 .. Latest(g) /\ Numbers(g)' = 1 .. (Latest(g) + 1) /\ Latest(g) \in Nat
    BY <1>3, <2>1, <2>3, StartSaved DEF TypeInv
  <2>5. DOMAIN attempts'[g] = 1 .. (Latest(g) + 1)
    BY <2>4 DEF Numbers
  <2>6. Numbers(hand[c][1]) \subseteq DOMAIN attempts'[hand[c][1]]
    BY <2>3, <2>4, <2>5
  <2>. QED  BY <1>1, <1>3, <2>2, <2>6, StageTypes DEF Recovering, Goto, TypeInv, TypeOK
<1>. QED  BY <1>2, <1>3 DEF Resume

LEMMA FinishResumedTypes ==
  ASSUME TypeInv, NEW c \in Coalitions, FinishResumed(c)
  PROVE  /\ TypeInv' /\ Elsewhere(c)
         /\ Latest(hand[c][1]) \in Numbers(hand[c][1])
<1>1. /\ worker[c] = "resumed" /\ hand[c] # None
      /\ UNCHANGED <<now, ended, aware, cycle, interrupted, last, notBefore, cycles, restarts>>
  BY DEF FinishResumed, TypeInv, InPlace, Recovering, world, schedule
<1>2. hand[c][1] \in Candidates /\ Latest(hand[c][1]) \in Numbers(hand[c][1])
  BY <1>1, HandTyped
<1>3. PICK status \in {"completed", "blocked"} :
        SaveEnd(hand[c][1], Latest(hand[c][1]), status) /\ Recovered(c, status)
  BY DEF FinishResumed
<1>4. /\ attempts' \in [Candidates -> Seq(Attempts)] /\ mishaps' \in 0 .. MaxMishaps
      /\ \A h \in Candidates \ {hand[c][1]} : attempts'[h] = attempts[h]
      /\ Numbers(hand[c][1]) \subseteq DOMAIN attempts'[hand[c][1]]
  BY <1>2, <1>3, EndTypes
<1>. QED  BY <1>1, <1>2, <1>3, <1>4, RecoveredTypes, StageTypes DEF Recovering

\* The steps by which a worker only goes on, or stops.
LEMMA GotoTypes ==
  ASSUME TypeInv, NEW c \in Coalitions,
         NEW w \in {"idle", "ready", "stopped", "failed"}, Goto(c, w),
         \/ w \in {"stopped", "failed"} /\ worker[c] \notin {"activate", "execute"}
         \/ worker[c] \in {"idle", "ready"} /\ (w = "ready" => interrupted[c] = {}),
         UNCHANGED <<now, ended, aware, cycle, hand, interrupted, open, last, notBefore,
                     cooldown, attempts, cycles, restarts, mishaps>>
  PROVE  TypeInv' /\ Elsewhere(c)
<1>0. worker' \in [Coalitions -> Deciding \union
        {"idle", "execute", "monitor", "revalidate", "resumed", "stopped", "failed"}]
  BY DEF Goto, TypeInv, TypeOK, Deciding
<1>1. worker'[c] = w /\ \A d \in Coalitions \ {c} : worker'[d] = worker[d]
  BY DEF Goto, TypeInv, TypeOK
<1>2. TypeOK' /\ Bounded' /\ Elsewhere(c)
  <2>1. TypeOK'
    BY <1>0 DEF TypeInv, TypeOK
  <2>2. Bounded'
    BY DEF TypeInv, Bounded
  <2>. QED  BY <1>1, <2>1, <2>2 DEF Elsewhere
<1>3. OwnedBy(c)'
  BY DEF TypeInv, OwnedBy, Numbers
<1>4. InPlace(c)'
  BY <1>1 DEF TypeInv, InPlace, Deciding, Recovering
<1>. QED  BY <1>2, <1>3, <1>4, WorkerTypes

LEMMA FailRecoveryTypes ==
  ASSUME TypeInv, NEW c \in Coalitions, FailRecovery(c)
  PROVE  TypeInv' /\ Elsewhere(c)
<1>1. PICK w \in {"stopped", "failed"} : Goto(c, w)
  BY DEF FailRecovery
<1>. QED  BY <1>1, GotoTypes DEF FailRecovery, world, recovery, schedule, audit, bounds

LEMMA RecoverTypes ==
  ASSUME TypeInv, NEW c \in Coalitions, Recover(c)
  PROVE  TypeInv' /\ Elsewhere(c)
  BY TakeUpTypes, MonitorTypes, ResumeTypes, FinishResumedTypes, FailRecoveryTypes DEF Recover


-----------------------------------------------------------------------------
(* The steps of a cycle.                                                   *)

LEMMA BeginCycleTypes ==
  ASSUME TypeInv, NEW c \in Coalitions, BeginCycle(c)
  PROVE  TypeInv' /\ Elsewhere(c)
<1>1. PICK w \in {"stopped", "ready"} : Goto(c, w)
  BY DEF BeginCycle
<1>. QED  BY <1>1, GotoTypes DEF BeginCycle, MaySelect, world, recovery, schedule, audit, bounds

LEMMA FailRecommendTypes ==
  ASSUME TypeInv, NEW c \in Coalitions, FailRecommend(c)
  PROVE  TypeInv' /\ Elsewhere(c)
<1>1. PICK w \in {"stopped", "failed"} : Goto(c, w)
  BY DEF FailRecommend
<1>. QED  BY <1>1, GotoTypes DEF FailRecommend, world, recovery, schedule, audit, bounds

LEMMA CycleOfTyped ==
  ASSUME TypeInv, NEW c \in Coalitions
  PROVE  /\ cycle[c] \in Cycles /\ now \in Time /\ cycle[c].started \in Time
         /\ cycle[c].todo \subseteq Of(c) /\ cycle[c].ready \subseteq Of(c)
         /\ cycle[c].running \subseteq Of(c) /\ Of(c) \subseteq Candidates
  BY DEF TypeInv, TypeOK, OwnedBy, Cycles, Of

\* The steps that change the cycle of one worker, its goals, its cooldowns and
\* its attempts.
LEMMA CycleStepTypes ==
  ASSUME TypeInv, NEW c \in Coalitions, NEW n \in Cycles,
         NEW w \in Deciding \union {"execute", "idle", "stopped", "failed"},
         cycle' = [cycle EXCEPT ![c] = n], Goto(c, w),
         \A k \in Candidates : n.until[k] # None => n.until[k] \in 0 .. Horizon,
         n.todo \subseteq Of(c), n.ready \subseteq Of(c), n.running \subseteq Of(c),
         w \notin {"activate", "execute"} => n.todo = {} /\ n.ready = {},
         w # "execute" => n.running = {},
         w = "execute" => n.todo = {},
         n.todo \intersect n.ready = {}, n.ready \intersect n.running = {},
         worker[c] \in Deciding \union {"execute"},
         aware' \in BOOLEAN, open' \in SUBSET Candidates,
         last' \in [Coalitions -> Time \union {None}],
         notBefore' \in [Coalitions -> Nat \union {None}],
         cooldown' \in [Candidates -> Cooldowns \union {None}],
         attempts' \in [Candidates -> Seq(Attempts)], mishaps' \in 0 .. MaxMishaps,
         \A k \in Candidates \ Of(c) : attempts'[k] = attempts[k],
         cycles' \in [Coalitions -> SUBSET SavedCycles],
         \A d \in Coalitions : \A r \in cycles'[d] \ cycles[d], k \in Candidates :
           r.until[k] # None => r.until[k] \in 0 .. Horizon,
         UNCHANGED <<now, ended, hand, interrupted, restarts>>
  PROVE  TypeInv' /\ Elsewhere(c)
<1>1. /\ worker' = [worker EXCEPT ![c] = w] /\ worker'[c] = w /\ cycle'[c] = n
      /\ \A d \in Coalitions \ {c} : worker'[d] = worker[d] /\ cycle'[d] = cycle[d]
      /\ worker' \in [Coalitions -> Deciding \union
           {"idle", "execute", "monitor", "revalidate", "resumed", "stopped", "failed"}]
      /\ cycle' \in [Coalitions -> Cycles]
  BY DEF Goto, TypeInv, TypeOK, Deciding
<1>2. TypeOK'
  BY <1>1 DEF TypeInv, TypeOK
<1>3. Bounded'
  <2>1. \A d \in Coalitions : \A r \in cycles'[d], k \in Candidates :
           r.until[k] # None => r.until[k] \in 0 .. Horizon
    <3>. SUFFICES ASSUME NEW d \in Coalitions, NEW r \in cycles'[d], NEW k \in Candidates,
                         r.until[k] # None
                  PROVE  r.until[k] \in 0 .. Horizon
      OBVIOUS
    <3>1. CASE r \in cycles[d]
      BY <3>1 DEF TypeInv, Bounded
    <3>2. CASE r \notin cycles[d]
      BY <3>2
    <3>. QED  BY <3>1, <3>2
  <2>2. \A d \in Coalitions, k \in Candidates :
           cycle'[d].until[k] # None => cycle'[d].until[k] \in 0 .. Horizon
    BY <1>1 DEF TypeInv, Bounded
  <2>. QED  BY <2>1, <2>2 DEF Bounded
<1>4. Elsewhere(c)
  BY <1>1 DEF Elsewhere
<1>5. interrupted[c] = {} /\ hand[c] = None
  BY DEF TypeInv, InPlace
<1>6. OwnedBy(c)'
  BY <1>1, <1>5 DEF OwnedBy, Of, Numbers
<1>7. InPlace(c)'
  BY <1>1, <1>5 DEF InPlace, Deciding, Recovering
<1>. QED  BY <1>2, <1>3, <1>4, <1>6, <1>7, WorkerTypes


LEMMA AssessTypes ==
  ASSUME TypeInv, NEW c \in Coalitions, Assess(c)
  PROVE  TypeInv' /\ Elsewhere(c)
<1>1. /\ worker[c] = "ready"
      /\ UNCHANGED <<now, ended, aware, hand, interrupted, open, last, notBefore, cooldown,
                     attempts, cycles, restarts, mishaps>>
  BY DEF Assess, world, recovery, schedule, audit, bounds
<1>2. CASE /\ UNCHANGED cycle
           /\ \E w \in {"idle", "stopped", "failed"} : Goto(c, w)
  BY <1>1, <1>2, GotoTypes
<1>3. CASE /\ Goto(c, "recommend")
           /\ cycle' = [cycle EXCEPT ![c] = [NoCycle EXCEPT !.started = now]]
  <2>. DEFINE n == [NoCycle EXCEPT !.started = now]
  <2>1. /\ n \in Cycles /\ n.todo = {} /\ n.ready = {} /\ n.running = {}
        /\ \A k \in Candidates : n.until[k] = None
    BY CycleOfTyped, NoCycleTyped DEF NoCycle, Cycles
  <2>2. cycle' = [cycle EXCEPT ![c] = n]
    BY <1>3
  <2>. HIDE DEF n
  <2>3. /\ aware' \in BOOLEAN /\ open' \in SUBSET Candidates
        /\ last' \in [Coalitions -> Time \union {None}]
        /\ notBefore' \in [Coalitions -> Nat \union {None}]
        /\ cooldown' \in [Candidates -> Cooldowns \union {None}]
        /\ attempts' \in [Candidates -> Seq(Attempts)] /\ mishaps' \in 0 .. MaxMishaps
        /\ cycles' \in [Coalitions -> SUBSET SavedCycles]
    BY <1>1 DEF TypeInv, TypeOK
  <2>. QED  BY <1>1, <1>3, <2>1, <2>2, <2>3, CycleStepTypes DEF Deciding
<1>. QED  BY <1>2, <1>3 DEF Assess

LEMMA RecommendTypes ==
  ASSUME TypeInv, NEW c \in Coalitions, Recommend(c)
  PROVE  TypeInv' /\ Elsewhere(c)
<1>1. /\ worker[c] = "recommend"
      /\ last' = [last EXCEPT ![c] = cycle[c].started]
      /\ UNCHANGED <<now, ended, aware, hand, interrupted, open, cooldown, attempts, cycles,
                     restarts, mishaps>>
  BY DEF Recommend, world, recovery, audit, bounds
<1>2. PICK S \in SUBSET Of(c) :
         /\ cycle' = [cycle EXCEPT ![c].plan = now, ![c].todo = S, ![c].empty = (S = {})]
         /\ notBefore' = [notBefore EXCEPT ![c] =
                            IF S = {} THEN cycle[c].started + Backoff ELSE None]
         /\ Goto(c, IF S = {} THEN "execute" ELSE "activate")
  BY DEF Recommend, Eligible
<1>. DEFINE n == [cycle[c] EXCEPT !.plan = now, !.todo = S, !.empty = (S = {})]
            w == IF S = {} THEN "execute" ELSE "activate"
<1>3. /\ cycle[c].ready = {} /\ cycle[c].running = {}
  BY <1>1 DEF TypeInv, InPlace
<1>4. /\ n \in Cycles /\ n.todo = S /\ n.ready = {} /\ n.running = {}
      /\ n.until = cycle[c].until
  BY <1>3, CycleOfTyped DEF Cycles
<1>5. cycle' = [cycle EXCEPT ![c] = n]
  BY <1>2 DEF TypeInv, TypeOK
<1>6. \A k \in Candidates : n.until[k] # None => n.until[k] \in 0 .. Horizon
  BY <1>4 DEF TypeInv, Bounded
<1>7. /\ aware' \in BOOLEAN /\ open' \in SUBSET Candidates
      /\ cooldown' \in [Candidates -> Cooldowns \union {None}]
      /\ attempts' \in [Candidates -> Seq(Attempts)] /\ mishaps' \in 0 .. MaxMishaps
      /\ cycles' \in [Coalitions -> SUBSET SavedCycles]
  BY <1>1 DEF TypeInv, TypeOK
<1>8. /\ last' \in [Coalitions -> Time \union {None}]
      /\ notBefore' \in [Coalitions -> Nat \union {None}]
  <2>1. cycle[c].started + Backoff \in Nat /\ cycle[c].started \in Time
    BY CycleOfTyped, ConstantTypes DEF Time
  <2>. QED  BY <1>1, <1>2, <2>1 DEF TypeInv, TypeOK
<1>9. Goto(c, w) /\ w \in {"execute", "activate"} /\ (w = "execute" => S = {})
  BY <1>2
<1>. HIDE DEF n, w
<1>. QED  BY <1>1, <1>4, <1>5, <1>6, <1>7, <1>8, <1>9, CycleStepTypes DEF Deciding

\* What a step that gives an attempt up does to the cycle, given the one without it.
LEMMA GiveUpTypes ==
  ASSUME TypeInv, NEW c \in Coalitions, NEW k \in Of(c), NEW s \in Cycles,
         s.until = cycle[c].until, GiveUp(c, k, s)
  PROVE  /\ \E n \in Cycles :
              /\ cycle' = [cycle EXCEPT ![c] = n]
              /\ n.todo = s.todo /\ n.ready = s.ready /\ n.running = s.running
              /\ n.plan = s.plan
              /\ \A h \in Candidates : n.until[h] # None => n.until[h] \in 0 .. Horizon
         /\ aware' \in BOOLEAN /\ open' \in SUBSET Candidates
         /\ cooldown' \in [Candidates -> Cooldowns \union {None}]
<1>1. /\ k \in Candidates /\ now \in Time /\ now + Cooldown["failed"] \in 0 .. Horizon
      /\ Horizon \in Nat
      /\ \A h \in Candidates : s.until[h] # None => s.until[h] \in 0 .. Horizon
  BY CycleOfTyped, ConstantTypes DEF TypeInv, Bounded
<1>2. CASE /\ aware' = TRUE /\ cycle' = [cycle EXCEPT ![c] = [s EXCEPT !.changed = TRUE]]
           /\ UNCHANGED <<open, cooldown>>
  <2>. DEFINE n == [s EXCEPT !.changed = TRUE]
  <2>1. n \in Cycles /\ n.until = s.until /\ n.plan = s.plan
        /\ n.todo = s.todo /\ n.ready = s.ready /\ n.running = s.running
    BY DEF Cycles
  <2>. HIDE DEF n
  <2>2. cycle' = [cycle EXCEPT ![c] = n]
    BY <1>2 DEF n
  <2>. QED  BY <1>1, <1>2, <2>1, <2>2 DEF TypeInv, TypeOK
<1>3. CASE /\ UNCHANGED aware
           /\ cycle' = [cycle EXCEPT ![c] = [s EXCEPT !.until[k] = now + Cooldown["failed"]]]
           /\ cooldown' = [cooldown EXCEPT ![k] = Merged(@, Cool(now, now, "failed"))]
           /\ open' = open \ {k}
  <2>. DEFINE u == [s.until EXCEPT ![k] = now + Cooldown["failed"]]
              n == [s EXCEPT !.until = u]
  <2>1. u \in Untils /\ \A h \in Candidates : u[h] # None => u[h] \in 0 .. Horizon
    BY <1>1 DEF Cycles, Untils
  <2>2. n \in Cycles /\ n.until = u /\ n.plan = s.plan
        /\ n.todo = s.todo /\ n.ready = s.ready /\ n.running = s.running
    <3>. HIDE DEF u
    <3>. QED  BY <2>1 DEF Cycles
  <2>3. cycle' = [cycle EXCEPT ![c] = n]
    BY <1>3 DEF Cycles
  <2>4. Merged(cooldown[k], Cool(now, now, "failed")) \in Cooldowns \union {None}
    BY <1>1, CoolTyped, MergedTyped DEF TypeInv, TypeOK
  <2>5. cooldown' \in [Candidates -> Cooldowns \union {None}]
    BY <1>3, <2>4 DEF TypeInv, TypeOK
  <2>6. aware' \in BOOLEAN /\ open' \in SUBSET Candidates
    BY <1>3 DEF TypeInv, TypeOK
  <2>. HIDE DEF n, u
  <2>. QED  BY <2>1, <2>2, <2>3, <2>5, <2>6
<1>. QED  BY <1>2, <1>3 DEF GiveUp


LEMMA ActivateTypes ==
  ASSUME TypeInv, NEW c \in Coalitions, Activate(c)
  PROVE  TypeInv' /\ Elsewhere(c)
<1>1. /\ worker[c] = "activate"
      /\ UNCHANGED <<now, ended, hand, interrupted, last, notBefore, attempts, cycles,
                     restarts, mishaps>>
  BY DEF Activate, recovery, schedule, audit, bounds
<1>2. PICK k \in cycle[c].todo :
        LET s == [cycle[c] EXCEPT !.todo = @ \ {k}] IN
        /\ \/ GiveUp(c, k, s)
           \/ /\ UNCHANGED <<aware, cooldown>>
              /\ cycle' = [cycle EXCEPT ![c] = [s EXCEPT !.ready = @ \union {k}]]
              /\ open' = open \union {k}
        /\ Goto(c, IF s.todo = {} THEN "execute" ELSE "activate")
  BY DEF Activate
<1>. DEFINE s == [cycle[c] EXCEPT !.todo = @ \ {k}]
            w == IF s.todo = {} THEN "execute" ELSE "activate"
<1>3. /\ k \in Of(c) /\ k \in Candidates
      /\ cycle[c].running = {} /\ cycle[c].todo \intersect cycle[c].ready = {}
  BY <1>1, CycleOfTyped DEF TypeInv, InPlace
<1>4. /\ s \in Cycles /\ s.until = cycle[c].until
      /\ s.todo = cycle[c].todo \ {k} /\ s.ready = cycle[c].ready /\ s.running = {}
  BY <1>3, CycleOfTyped DEF Cycles
<1>5. Goto(c, w) /\ w \in {"execute", "activate"} /\ (w = "execute" => s.todo = {})
  BY <1>2
<1>6. \E n \in Cycles :
        /\ cycle' = [cycle EXCEPT ![c] = n]
        /\ n.todo = s.todo /\ n.running = {} /\ n.ready \in {s.ready, s.ready \union {k}}
        /\ \A h \in Candidates : n.until[h] # None => n.until[h] \in 0 .. Horizon
        /\ aware' \in BOOLEAN /\ open' \in SUBSET Candidates
        /\ cooldown' \in [Candidates -> Cooldowns \union {None}]
  <2>1. CASE GiveUp(c, k, s)
    <3>. HIDE DEF s
    <3>. QED  BY <1>3, <1>4, <2>1, GiveUpTypes
  <2>2. CASE /\ UNCHANGED <<aware, cooldown>>
             /\ cycle' = [cycle EXCEPT ![c] = [s EXCEPT !.ready = @ \union {k}]]
             /\ open' = open \union {k}
    <3>. HIDE DEF s
    <3>. DEFINE n == [s EXCEPT !.ready = @ \union {k}]
    <3>1. n \in Cycles /\ n.until = cycle[c].until /\ n.todo = s.todo
          /\ n.ready = s.ready \union {k} /\ n.running = {}
      BY <1>3, <1>4 DEF Cycles
    <3>2. cycle' = [cycle EXCEPT ![c] = n]
      BY <2>2
    <3>3. \A h \in Candidates : n.until[h] # None => n.until[h] \in 0 .. Horizon
      BY <3>1 DEF TypeInv, Bounded
    <3>4. /\ aware' \in BOOLEAN /\ open' \in SUBSET Candidates
          /\ cooldown' \in [Candidates -> Cooldowns \union {None}]
      BY <1>3, <2>2 DEF TypeInv, TypeOK
    <3>. HIDE DEF n
    <3>. QED  BY <3>1, <3>2, <3>3, <3>4
  <2>. QED  BY <1>2, <2>1, <2>2
<1>7. PICK n \in Cycles :
        /\ cycle' = [cycle EXCEPT ![c] = n]
        /\ n.todo = s.todo /\ n.running = {} /\ n.ready \in {s.ready, s.ready \union {k}}
        /\ \A h \in Candidates : n.until[h] # None => n.until[h] \in 0 .. Horizon
        /\ aware' \in BOOLEAN /\ open' \in SUBSET Candidates
        /\ cooldown' \in [Candidates -> Cooldowns \union {None}]
  BY <1>6
<1>8. /\ n.todo \subseteq Of(c) /\ n.ready \subseteq Of(c)
      /\ n.todo \intersect n.ready = {} /\ n.ready \intersect n.running = {}
  BY <1>3, <1>4, <1>7, CycleOfTyped
<1>9. /\ last' \in [Coalitions -> Time \union {None}]
      /\ notBefore' \in [Coalitions -> Nat \union {None}]
      /\ attempts' \in [Candidates -> Seq(Attempts)] /\ mishaps' \in 0 .. MaxMishaps
      /\ cycles' \in [Coalitions -> SUBSET SavedCycles]
  BY <1>1 DEF TypeInv, TypeOK
<1>. HIDE DEF s, w
<1>. QED  BY <1>1, <1>5, <1>7, <1>8, <1>9, CycleStepTypes DEF Deciding

LEMMA StartTypes ==
  ASSUME TypeInv, NEW c \in Coalitions, Start(c)
  PROVE  TypeInv' /\ Elsewhere(c)
<1>1. /\ worker[c] = "execute" /\ Goto(c, "execute")
      /\ UNCHANGED <<now, ended, hand, interrupted, last, notBefore, cycles, restarts, mishaps>>
  BY DEF Start, Goto, recovery, schedule, bounds, TypeInv, TypeOK
<1>2. PICK k \in cycle[c].ready :
        LET s == [cycle[c] EXCEPT !.ready = @ \ {k}] IN
        \/ GiveUp(c, k, s) /\ UNCHANGED attempts
        \/ /\ UNCHANGED <<aware, cooldown, open>>
           /\ SaveStart(k, cycle[c].plan)
           /\ cycle' = [cycle EXCEPT ![c] = [s EXCEPT !.running = @ \union {k}]]
  BY DEF Start
<1>. DEFINE s == [cycle[c] EXCEPT !.ready = @ \ {k}]
<1>3. /\ k \in Of(c) /\ k \in Candidates /\ cycle[c].plan \in Time
      /\ cycle[c].todo = {} /\ cycle[c].ready \intersect cycle[c].running = {}
  BY <1>1, CycleOfTyped DEF TypeInv, InPlace, Cycles
<1>4. /\ s \in Cycles /\ s.until = cycle[c].until
      /\ s.todo = {} /\ s.ready = cycle[c].ready \ {k} /\ s.running = cycle[c].running
  BY <1>3, CycleOfTyped DEF Cycles
<1>5. \E n \in Cycles :
        /\ cycle' = [cycle EXCEPT ![c] = n]
        /\ n.todo = {} /\ n.ready = s.ready /\ n.running \in {s.running, s.running \union {k}}
        /\ \A h \in Candidates : n.until[h] # None => n.until[h] \in 0 .. Horizon
        /\ aware' \in BOOLEAN /\ open' \in SUBSET Candidates
        /\ cooldown' \in [Candidates -> Cooldowns \union {None}]
        /\ attempts' \in [Candidates -> Seq(Attempts)]
        /\ \A h \in Candidates \ {k} : attempts'[h] = attempts[h]
  <2>1. CASE GiveUp(c, k, s) /\ UNCHANGED attempts
    <3>. HIDE DEF s
    <3>1. attempts' = attempts /\ attempts \in [Candidates -> Seq(Attempts)]
      BY <2>1 DEF TypeInv, TypeOK
    <3>2. /\ \E n \in Cycles :
               /\ cycle' = [cycle EXCEPT ![c] = n]
               /\ n.todo = s.todo /\ n.ready = s.ready /\ n.running = s.running
               /\ \A h \in Candidates : n.until[h] # None => n.until[h] \in 0 .. Horizon
          /\ aware' \in BOOLEAN /\ open' \in SUBSET Candidates
          /\ cooldown' \in [Candidates -> Cooldowns \union {None}]
      BY <1>3, <1>4, <2>1, GiveUpTypes
    <3>. QED  BY <1>4, <3>1, <3>2
  <2>2. CASE /\ UNCHANGED <<aware, cooldown, open>>
             /\ SaveStart(k, cycle[c].plan)
             /\ cycle' = [cycle EXCEPT ![c] = [s EXCEPT !.running = @ \union {k}]]
    <3>. HIDE DEF s
    <3>. DEFINE n == [s EXCEPT !.running = @ \union {k}]
    <3>1. n \in Cycles /\ n.until = cycle[c].until /\ n.todo = {}
          /\ n.ready = s.ready /\ n.running = s.running \union {k}
      BY <1>3, <1>4 DEF Cycles
    <3>2. cycle' = [cycle EXCEPT ![c] = n]
      BY <2>2
    <3>3. \A h \in Candidates : n.until[h] # None => n.until[h] \in 0 .. Horizon
      BY <3>1 DEF TypeInv, Bounded
    <3>4. /\ aware' \in BOOLEAN /\ open' \in SUBSET Candidates
          /\ cooldown' \in [Candidates -> Cooldowns \union {None}]
      BY <2>2 DEF TypeInv, TypeOK
    <3>5. /\ attempts' \in [Candidates -> Seq(Attempts)]
          /\ \A h \in Candidates \ {k} : attempts'[h] = attempts[h]
      BY <1>3, <2>2, StartSaved DEF TypeInv
    <3>. HIDE DEF n
    <3>. QED  BY <3>1, <3>2, <3>3, <3>4, <3>5
  <2>. QED  BY <1>2, <2>1, <2>2
<1>6. PICK n \in Cycles :
        /\ cycle' = [cycle EXCEPT ![c] = n]
        /\ n.todo = {} /\ n.ready = s.ready /\ n.running \in {s.running, s.running \union {k}}
        /\ \A h \in Candidates : n.until[h] # None => n.until[h] \in 0 .. Horizon
        /\ aware' \in BOOLEAN /\ open' \in SUBSET Candidates
        /\ cooldown' \in [Candidates -> Cooldowns \union {None}]
        /\ attempts' \in [Candidates -> Seq(Attempts)]
        /\ \A h \in Candidates \ {k} : attempts'[h] = attempts[h]
  BY <1>5
<1>7. /\ n.ready \subseteq Of(c) /\ n.running \subseteq Of(c)
      /\ n.todo \intersect n.ready = {} /\ n.ready \intersect n.running = {}
      /\ \A h \in Candidates \ Of(c) : attempts'[h] = attempts[h]
  BY <1>3, <1>4, <1>6, CycleOfTyped
<1>8. /\ last' \in [Coalitions -> Time \union {None}]
      /\ notBefore' \in [Coalitions -> Nat \union {None}]
      /\ mishaps' \in 0 .. MaxMishaps
      /\ cycles' \in [Coalitions -> SUBSET SavedCycles]
  BY <1>1 DEF TypeInv, TypeOK
<1>. HIDE DEF s
<1>. QED  BY <1>1, <1>6, <1>7, <1>8, CycleStepTypes

LEMMA FinishTypes ==
  ASSUME TypeInv, NEW c \in Coalitions, Finish(c)
  PROVE  TypeInv' /\ Elsewhere(c)
<1>1. /\ worker[c] = "execute" /\ Goto(c, "execute")
      /\ UNCHANGED <<now, ended, aware, hand, interrupted, last, notBefore, cycles, restarts>>
  BY DEF Finish, Goto, world, recovery, schedule, TypeInv, TypeOK
<1>2. PICK k \in cycle[c].running, status \in {"completed", "blocked"} :
        /\ SaveEnd(k, Latest(k), status)
        /\ cycle' = [cycle EXCEPT ![c].running = @ \ {k},
                                  ![c].until[k] = now + Cooldown[status]]
        /\ cooldown' = [cooldown EXCEPT ![k] = Merged(@, Cool(now, now, status))]
        /\ open' = open \ {k}
  BY DEF Finish
<1>. DEFINE u == [cycle[c].until EXCEPT ![k] = now + Cooldown[status]]
            n == [cycle[c] EXCEPT !.running = @ \ {k}, !.until = u]
<1>3. /\ k \in Of(c) /\ k \in Candidates /\ cycle[c] \in Cycles /\ cycle[c].until \in Untils
      /\ cycle[c].todo = {} /\ cycle[c].ready \intersect cycle[c].running = {}
      /\ now \in Time /\ now + Cooldown[status] \in 0 .. Horizon /\ Horizon \in Nat
  BY <1>1, CycleOfTyped, ConstantTypes DEF TypeInv, InPlace, Cycles
<1>4. u \in Untils /\ \A h \in Candidates : u[h] # None => u[h] \in 0 .. Horizon
  BY <1>3 DEF Untils, TypeInv, Bounded
<1>5. /\ n \in Cycles /\ n.until = u /\ n.todo = {} /\ n.ready = cycle[c].ready
      /\ n.running = cycle[c].running \ {k}
  <2>. HIDE DEF u
  <2>. QED  BY <1>3, <1>4 DEF Cycles
<1>6. cycle' = [cycle EXCEPT ![c] = n]
  BY <1>2 DEF TypeInv, TypeOK, Cycles
<1>7. /\ open' \in SUBSET Candidates /\ aware' \in BOOLEAN
      /\ cooldown' \in [Candidates -> Cooldowns \union {None}]
  <2>1. Merged(cooldown[k], Cool(now, now, status)) \in Cooldowns \union {None}
    BY <1>3, CoolTyped, MergedTyped DEF TypeInv, TypeOK
  <2>. QED  BY <1>1, <1>2, <2>1 DEF TypeInv, TypeOK
<1>8. /\ attempts' \in [Candidates -> Seq(Attempts)] /\ mishaps' \in 0 .. MaxMishaps
      /\ \A h \in Candidates \ {k} : attempts'[h] = attempts[h]
  <2>1. attempts[k] \in Seq(Attempts) /\ attempts \in [Candidates -> Seq(Attempts)]
        /\ mishaps \in 0 .. MaxMishaps /\ MaxMishaps \in Nat
    BY <1>3, ConstantTypes DEF TypeInv, TypeOK
  <2>2. CASE Latest(k) \in Numbers(k)
    BY <1>2, <1>3, <2>2, EndTypes
  <2>3. CASE Latest(k) \notin Numbers(k)
    <3>1. attempts[k] = << >>
      BY <2>1, <2>3 DEF Numbers, Latest
    <3>2. attempts' = attempts \/ attempts' = [attempts EXCEPT ![k][Latest(k)].status = status,
                                                             ![k][Latest(k)].ended = now]
      BY <1>2 DEF SaveEnd
    <3>3. ASSUME attempts' # attempts PROVE attempts' = [attempts EXCEPT ![k] = << >>]
      <4>1. \A s, i : s = << >> => [s EXCEPT ![i].status = status] = << >>
                                  /\ [s EXCEPT ![i].ended = now] = << >>
        OBVIOUS
      <4>. QED  BY <3>1, <3>2, <3>3, <2>1, <1>3, <4>1
    <3>4. attempts' = attempts
      BY <3>1, <3>3, <2>1
    <3>5. mishaps' \in 0 .. MaxMishaps
      BY <1>2, <2>1 DEF SaveEnd
    <3>. QED  BY <2>1, <3>4, <3>5
  <2>. QED  BY <2>2, <2>3
<1>9. /\ last' \in [Coalitions -> Time \union {None}]
      /\ notBefore' \in [Coalitions -> Nat \union {None}]
      /\ cycles' \in [Coalitions -> SUBSET SavedCycles]
  BY <1>1 DEF TypeInv, TypeOK
<1>10. /\ n.ready \subseteq Of(c) /\ n.running \subseteq Of(c)
       /\ n.ready \intersect n.running = {}
       /\ \A h \in Candidates \ Of(c) : attempts'[h] = attempts[h]
  BY <1>3, <1>5, <1>8, CycleOfTyped
<1>. HIDE DEF n, u
<1>. QED  BY <1>1, <1>4, <1>5, <1>6, <1>7, <1>8, <1>9, <1>10, CycleStepTypes

LEMMA RaiseTypes ==
  ASSUME TypeInv, NEW c \in Coalitions, Raise(c)
  PROVE  TypeInv' /\ Elsewhere(c)
<1>1. /\ worker[c] = "execute" /\ Goto(c, "execute") /\ mishaps' \in 0 .. MaxMishaps
      /\ UNCHANGED <<now, ended, hand, interrupted, last, notBefore, attempts, cycles, restarts>>
  BY ConstantTypes DEF Raise, Goto, recovery, schedule, audit, TypeInv, TypeOK
<1>2. PICK k \in cycle[c].running : GiveUp(c, k, [cycle[c] EXCEPT !.running = @ \ {k}])
  BY DEF Raise
<1>. DEFINE s == [cycle[c] EXCEPT !.running = @ \ {k}]
<1>3. /\ k \in Of(c) /\ cycle[c].todo = {}
      /\ cycle[c].ready \intersect cycle[c].running = {}
  BY <1>1, CycleOfTyped DEF TypeInv, InPlace
<1>4. /\ s \in Cycles /\ s.until = cycle[c].until
      /\ s.todo = {} /\ s.ready = cycle[c].ready /\ s.running = cycle[c].running \ {k}
  BY <1>3, CycleOfTyped DEF Cycles
<1>5. GiveUp(c, k, s)
  BY <1>2
<1>. HIDE DEF s
<1>6. PICK n \in Cycles :
        /\ cycle' = [cycle EXCEPT ![c] = n]
        /\ n.todo = s.todo /\ n.ready = s.ready /\ n.running = s.running
        /\ \A h \in Candidates : n.until[h] # None => n.until[h] \in 0 .. Horizon
        /\ aware' \in BOOLEAN /\ open' \in SUBSET Candidates
        /\ cooldown' \in [Candidates -> Cooldowns \union {None}]
  BY <1>3, <1>4, <1>5, GiveUpTypes
<1>7. /\ n.ready \subseteq Of(c) /\ n.running \subseteq Of(c)
      /\ n.todo \intersect n.ready = {} /\ n.ready \intersect n.running = {}
  BY <1>3, <1>4, <1>6, CycleOfTyped
<1>8. /\ last' \in [Coalitions -> Time \union {None}]
      /\ notBefore' \in [Coalitions -> Nat \union {None}]
      /\ attempts' \in [Candidates -> Seq(Attempts)]
      /\ \A h \in Candidates \ Of(c) : attempts'[h] = attempts[h]
      /\ cycles' \in [Coalitions -> SUBSET SavedCycles]
  BY <1>1 DEF TypeInv, TypeOK
<1>. QED  BY <1>1, <1>4, <1>6, <1>7, <1>8, CycleStepTypes

LEMMA RetainTypes ==
  ASSUME TypeInv, NEW c \in Coalitions, Retain(c)
  PROVE  TypeInv' /\ Elsewhere(c)
<1>1. /\ worker[c] = "execute" /\ cycle' = [cycle EXCEPT ![c] = NoCycle]
      /\ UNCHANGED <<now, ended, aware, hand, interrupted, open, last, notBefore, cooldown,
                     attempts, restarts, mishaps>>
  BY DEF Retain, world, recovery, schedule, bounds
<1>. DEFINE r == [started |-> cycle[c].started, until |-> cycle[c].until,
                  empty |-> cycle[c].empty]
<1>2. PICK w \in {"idle", "stopped", "failed"} :
        /\ Goto(c, w)
        /\ cycles' = cycles \/ cycles' = [cycles EXCEPT ![c] = @ \union {r}]
  BY DEF Retain
<1>3. r \in SavedCycles /\ r.until = cycle[c].until
  BY CycleOfTyped DEF Cycles, SavedCycles
<1>. HIDE DEF r
<1>4. cycles' \in [Coalitions -> SUBSET SavedCycles]
  BY <1>2, <1>3 DEF TypeInv, TypeOK
<1>5. \A d \in Coalitions : \A x \in cycles'[d] \ cycles[d] : x = r
  BY <1>2 DEF TypeInv, TypeOK
<1>6. \A d \in Coalitions : \A x \in cycles'[d] \ cycles[d], k \in Candidates :
        x.until[k] # None => x.until[k] \in 0 .. Horizon
  BY <1>3, <1>5 DEF TypeInv, Bounded
<1>7. /\ NoCycle \in Cycles /\ NoCycle.todo = {} /\ NoCycle.ready = {}
      /\ NoCycle.running = {} /\ \A k \in Candidates : NoCycle.until[k] = None
  <2>1. NoCycle.todo = {} /\ NoCycle.ready = {} /\ NoCycle.running = {}
    BY DEF NoCycle
  <2>. QED  BY <2>1, NoCycleTyped
<1>8. /\ aware' \in BOOLEAN /\ open' \in SUBSET Candidates
      /\ last' \in [Coalitions -> Time \union {None}]
      /\ notBefore' \in [Coalitions -> Nat \union {None}]
      /\ cooldown' \in [Candidates -> Cooldowns \union {None}]
      /\ attempts' \in [Candidates -> Seq(Attempts)] /\ mishaps' \in 0 .. MaxMishaps
  BY <1>1 DEF TypeInv, TypeOK
<1>. DEFINE n == NoCycle
<1>9. /\ n \in Cycles /\ n.todo \subseteq Of(c) /\ n.ready \subseteq Of(c) /\ n.running = {}
      /\ n.running \subseteq Of(c) /\ n.todo = {} /\ n.ready = {}
      /\ n.todo \intersect n.ready = {} /\ n.ready \intersect n.running = {}
      /\ \A k \in Candidates : n.until[k] # None => n.until[k] \in 0 .. Horizon
  BY <1>7
<1>10. /\ w \in Deciding \union {"execute", "idle", "stopped", "failed"} /\ w # "execute"
       /\ worker[c] \in Deciding \union {"execute"}
       /\ \A k \in Candidates \ Of(c) : attempts'[k] = attempts[k]
       /\ UNCHANGED <<now, ended, hand, interrupted, restarts>>
       /\ cycle' = [cycle EXCEPT ![c] = n] /\ Goto(c, w)
  BY <1>1, <1>2
<1>. HIDE DEF n
<1>. QED  BY <1>4, <1>6, <1>8, <1>9, <1>10, CycleStepTypes

LEMMA RunCycleTypes ==
  ASSUME TypeInv, NEW c \in Coalitions, RunCycle(c)
  PROVE  TypeInv' /\ Elsewhere(c)
  BY AssessTypes, RecommendTypes, FailRecommendTypes, ActivateTypes, StartTypes, FinishTypes,
     RaiseTypes, RetainTypes DEF RunCycle

LEMMA NextTypes == TypeInv /\ [Next]_vars => TypeInv'
<1>. SUFFICES ASSUME TypeInv, [Next]_vars PROVE TypeInv'
  OBVIOUS
<1>1. CASE AdvanceClock \/ EndMission \/ Learn
  BY <1>1, WorldTypes
<1>2. CASE RestartClient
  BY <1>2, RestartTypes
<1>3. ASSUME NEW c \in Coalitions, Recover(c) \/ BeginCycle(c) \/ RunCycle(c)
      PROVE  TypeInv'
  BY <1>3, RecoverTypes, BeginCycleTypes, RunCycleTypes
<1>4. CASE UNCHANGED vars
  BY <1>4 DEF vars, world, recovery, schedule, audit, bounds, TypeInv, TypeOK, Bounded,
              OwnedBy, InPlace, Numbers
<1>. QED  BY <1>1, <1>2, <1>3, <1>4 DEF Next

(* The state of the coordinator has its types, for any candidates, limits, *)
(* cooldowns and times.                                                    *)
THEOREM TypeCorrect == Spec => []TypeOK
<1>1. TypeInv => TypeOK
  BY DEF TypeInv
<1>. QED  BY InitTypes, NextTypes, <1>1, PTL DEF Spec


-----------------------------------------------------------------------------
(* A plan that completed is not executed again.                            *)

\* What is left of a plan is looked into only while none of its attempts has
\* completed.
Unfinished(c) ==
    worker[c] = "revalidate" =>
        LET k == hand[c][1] IN
        \A i \in Numbers(k) :
            attempts[k][i].plan = attempts[k][hand[c][2]].plan
              => attempts[k][i].status # "completed"

FinalInv == TypeInv /\ CompletedIsFinal /\ \A c \in Coalitions : Unfinished(c)

\* A first snapshot does not touch it where no attempt at the plan completed.
LEMMA StartFinal ==
  ASSUME FinalInv, NEW k \in Candidates, NEW plan \in Time, SaveStart(k, plan),
         \A i \in Numbers(k) : attempts[k][i].plan = plan
                                 => attempts[k][i].status # "completed"
  PROVE  CompletedIsFinal'
<1>1. /\ \A h \in Candidates \ {k} : attempts'[h] = attempts[h]
      /\ Numbers(k) = 1 .. Latest(k) /\ Latest(k) \in Nat
      /\ Numbers(k)' = 1 .. (Latest(k) + 1)
      /\ \A i \in Numbers(k) : attempts'[k][i] = attempts[k][i]
      /\ attempts'[k][Latest(k) + 1].plan = plan
      /\ attempts'[k][Latest(k) + 1].status = "executing"
  BY StartSaved DEF FinalInv, TypeInv
<1>2. ASSUME NEW h \in Candidates, NEW i \in Numbers(h)', NEW j \in Numbers(h)',
             attempts'[h][i].status = "completed", attempts'[h][j].plan = attempts'[h][i].plan
      PROVE  j <= i
  <2>1. CASE h # k
    BY <1>1, <1>2, <2>1 DEF FinalInv, CompletedIsFinal, Numbers
  <2>2. CASE h = k
    <3>1. i \in Numbers(k)
      BY <1>1, <1>2, <2>2
    <3>2. CASE j \in Numbers(k)
      BY <1>1, <1>2, <2>2, <3>1, <3>2 DEF FinalInv, CompletedIsFinal
    <3>3. CASE j \notin Numbers(k)
      BY <1>1, <1>2, <2>2, <3>1, <3>3
    <3>. QED  BY <3>2, <3>3
  <2>. QED  BY <2>1, <2>2
<1>. QED  BY <1>2 DEF CompletedIsFinal

\* Nor does the last snapshot of the latest attempt at a plan.
LEMMA EndFinal ==
  ASSUME FinalInv, NEW k \in Candidates, NEW i \in Numbers(k),
         NEW status \in {"completed", "blocked"}, SaveEnd(k, i, status),
         \A j \in Numbers(k) : attempts[k][j].plan = attempts[k][i].plan => j <= i
  PROVE  CompletedIsFinal'
<1>1. /\ \A h \in Candidates \ {k} : attempts'[h] = attempts[h]
      /\ Numbers(k)' = Numbers(k)
      /\ \A j \in Numbers(k) \ {i} : attempts'[k][j] = attempts[k][j]
      /\ attempts'[k][i].plan = attempts[k][i].plan
  BY EndSaved DEF FinalInv, TypeInv
<1>2. ASSUME NEW h \in Candidates, NEW m \in Numbers(h)', NEW j \in Numbers(h)',
             attempts'[h][m].status = "completed", attempts'[h][j].plan = attempts'[h][m].plan
      PROVE  j <= m
  <2>1. CASE h # k
    BY <1>1, <1>2, <2>1 DEF FinalInv, CompletedIsFinal, Numbers
  <2>2. CASE h = k /\ m = i
    BY <1>1, <1>2, <2>2
  <2>3. CASE h = k /\ m # i
    BY <1>1, <1>2, <2>3 DEF FinalInv, CompletedIsFinal
  <2>. QED  BY <2>1, <2>2, <2>3
<1>. QED  BY <1>2 DEF CompletedIsFinal

\* Where no attempt changes, only the worker that comes to look into what is
\* left of a plan matters.
LEMMA SameFinal ==
  ASSUME FinalInv, UNCHANGED attempts
  PROVE  CompletedIsFinal'
  BY DEF FinalInv, CompletedIsFinal, Numbers

LEMMA ElsewhereUnfinished ==
  ASSUME FinalInv, NEW c \in Coalitions, NEW d \in Coalitions, d # c, Elsewhere(c)
  PROVE  Unfinished(d)'
<1>1. worker'[d] = worker[d] /\ hand'[d] = hand[d]
  BY DEF Elsewhere
<1>2. CASE worker[d] = "revalidate"
  <2>1. hand[d] # None
    BY <1>2 DEF FinalInv, TypeInv, InPlace, Recovering
  <2>2. PICK k \in Of(d) : k = hand[d][1]
    BY <2>1, HandTyped DEF FinalInv
  <2>3. attempts'[k] = attempts[k]
    BY CandidatesApart DEF Elsewhere
  <2>4. \A i \in Numbers(k) : attempts[k][i].plan = attempts[k][hand[d][2]].plan
                                => attempts[k][i].status # "completed"
    BY <1>2, <2>2 DEF FinalInv, Unfinished
  <2>5. \A i \in DOMAIN attempts'[hand'[d][1]] :
           attempts'[hand'[d][1]][i].plan = attempts'[hand'[d][1]][hand'[d][2]].plan
             => attempts'[hand'[d][1]][i].status # "completed"
    BY <1>1, <2>2, <2>3, <2>4 DEF Numbers
  <2>. QED  BY <2>5 DEF Unfinished, Numbers
<1>3. CASE worker[d] # "revalidate"
  BY <1>1, <1>3 DEF Unfinished
<1>. QED  BY <1>2, <1>3

\* One step of a worker.
LEMMA MonitorFinal ==
  ASSUME FinalInv, NEW c \in Coalitions, Monitor(c)
  PROVE  CompletedIsFinal' /\ Unfinished(c)'
<1>1. worker[c] = "monitor" /\ hand[c] # None
  BY DEF Monitor, FinalInv, TypeInv, InPlace, Recovering
<1>2. PICK k \in Candidates : k = hand[c][1]
  BY <1>1, HandTyped DEF FinalInv
<1>3. /\ hand[c][2] \in Numbers(k) /\ Numbers(k) = 1 .. Latest(k) /\ Latest(k) \in Nat
  BY <1>1, <1>2, HandTyped DEF FinalInv
<1>4. PICK i \in Numbers(k) :
        /\ i = Subject(k, hand[c][2])
        /\ attempts[k][i].plan = attempts[k][hand[c][2]].plan
        /\ \A n \in Numbers(k) : attempts[k][n].plan = attempts[k][hand[c][2]].plan => n <= i
  BY <1>3, SubjectIsLatest
<1>5. PICK status \in {"completed", "blocked"} :
        /\ SaveEnd(k, i, status) /\ attempts[k][i].status = "executing"
        /\ \/ Recovered(c, status)
           \/ status = "blocked" /\ Goto(c, "revalidate") /\ UNCHANGED hand
  BY <1>2, <1>4 DEF Monitor
<1>6. CompletedIsFinal'
  BY <1>4, <1>5, EndFinal
<1>7. CASE Recovered(c, status)
  BY <1>6, <1>7 DEF Recovered, Goto, Unfinished, FinalInv, TypeInv, TypeOK
<1>8. CASE status = "blocked" /\ Goto(c, "revalidate") /\ UNCHANGED hand
  <2>1. /\ Numbers(k)' = Numbers(k)
        /\ \A j \in Numbers(k) \ {i} : attempts'[k][j] = attempts[k][j]
        /\ attempts'[k][i].plan = attempts[k][i].plan
        /\ attempts'[k][i].status \in {"blocked", "executing"}
    BY <1>5, <1>8, EndSaved DEF FinalInv, TypeInv
  <2>2. ASSUME NEW j \in Numbers(k), attempts[k][j].plan = attempts[k][hand[c][2]].plan
        PROVE  attempts'[k][j].status # "completed"
    <3>1. CASE j = i
      BY <2>1, <3>1
    <3>2. CASE j # i
      BY <1>3, <1>4, <2>1, <2>2, <3>2 DEF FinalInv, CompletedIsFinal
    <3>. QED  BY <3>1, <3>2
  <2>3. DOMAIN attempts'[k] = Numbers(k)
    BY <2>1 DEF Numbers
  <2>4. \A j \in Numbers(k) : attempts'[k][j].plan = attempts[k][j].plan
    BY <2>1
  <2>5. \A j \in DOMAIN attempts'[k] :
           attempts'[k][j].plan = attempts'[k][hand[c][2]].plan
             => attempts'[k][j].status # "completed"
    BY <1>3, <2>2, <2>3, <2>4
  <2>6. \A j \in DOMAIN attempts'[hand'[c][1]] :
           attempts'[hand'[c][1]][j].plan = attempts'[hand'[c][1]][hand'[c][2]].plan
             => attempts'[hand'[c][1]][j].status # "completed"
    BY <1>2, <1>8, <2>5
  <2>. QED  BY <1>6, <2>6 DEF Unfinished, Numbers
<1>. QED  BY <1>5, <1>7, <1>8

LEMMA ResumeFinal ==
  ASSUME FinalInv, NEW c \in Coalitions, Resume(c)
  PROVE  CompletedIsFinal' /\ Unfinished(c)'
<1>1. worker[c] = "revalidate" /\ hand[c] # None
  BY DEF Resume, FinalInv, TypeInv, InPlace, Recovering
<1>2. CASE Recovered(c, "blocked") /\ UNCHANGED attempts
  BY <1>2, SameFinal DEF Recovered, Goto, Unfinished, FinalInv, TypeInv, TypeOK
<1>3. CASE /\ SaveStart(hand[c][1], attempts[hand[c][1]][hand[c][2]].plan)
           /\ Goto(c, "resumed")
  <2>1. /\ hand[c][1] \in Candidates /\ attempts[hand[c][1]][hand[c][2]].plan \in Time
    BY <1>1, HandTyped DEF FinalInv, Attempts
  <2>2. CompletedIsFinal'
    BY <1>1, <1>3, <2>1, StartFinal DEF FinalInv, Unfinished
  <2>3. Unfinished(c)'
    BY <1>3 DEF Goto, Unfinished, FinalInv, TypeInv, TypeOK
  <2>. QED  BY <2>2, <2>3
<1>. QED  BY <1>2, <1>3 DEF Resume

LEMMA FinishResumedFinal ==
  ASSUME FinalInv, NEW c \in Coalitions, FinishResumed(c)
  PROVE  CompletedIsFinal' /\ Unfinished(c)'
<1>1. worker[c] = "resumed" /\ hand[c] # None
  BY DEF FinishResumed, FinalInv, TypeInv, InPlace, Recovering
<1>2. PICK k \in Candidates : k = hand[c][1]
  BY <1>1, HandTyped DEF FinalInv
<1>3. /\ Numbers(k) = 1 .. Latest(k) /\ Latest(k) \in Nat /\ Latest(k) \in Numbers(k)
  BY <1>1, <1>2, HandTyped DEF FinalInv
<1>4. PICK status \in {"completed", "blocked"} :
        SaveEnd(k, Latest(k), status) /\ Recovered(c, status)
  BY <1>2 DEF FinishResumed
<1>5. CompletedIsFinal'
  BY <1>3, <1>4, EndFinal
<1>6. Unfinished(c)'
  BY <1>4 DEF Recovered, Goto, Unfinished, FinalInv, TypeInv, TypeOK
<1>. QED  BY <1>5, <1>6

LEMMA StartStepFinal ==
  ASSUME FinalInv, NEW c \in Coalitions, Start(c)
  PROVE  CompletedIsFinal' /\ Unfinished(c)'
<1>1. worker[c] = "execute" /\ worker' = worker
  BY DEF Start
<1>2. PICK k \in cycle[c].ready :
        \/ UNCHANGED attempts
        \/ /\ \A i \in Numbers(k) : attempts[k][i].plan # cycle[c].plan
           /\ SaveStart(k, cycle[c].plan)
  BY DEF Start
<1>3. k \in Candidates /\ cycle[c].plan \in Time
  BY CycleOfTyped DEF FinalInv, Cycles
<1>4. CompletedIsFinal'
  BY <1>2, <1>3, SameFinal, StartFinal
<1>. QED  BY <1>1, <1>4 DEF Unfinished

LEMMA FinishFinal ==
  ASSUME FinalInv, NEW c \in Coalitions, Finish(c)
  PROVE  CompletedIsFinal' /\ Unfinished(c)'
<1>1. worker[c] = "execute" /\ worker' = worker
  BY DEF Finish
<1>2. PICK k \in cycle[c].running, status \in {"completed", "blocked"} :
        SaveEnd(k, Latest(k), status)
  BY DEF Finish
<1>3. k \in Candidates /\ attempts[k] \in Seq(Attempts)
  BY CycleOfTyped DEF FinalInv, TypeInv, TypeOK
<1>4. CASE Latest(k) \in Numbers(k)
  <2>1. \A j \in Numbers(k) : j <= Latest(k)
    BY <1>3 DEF Numbers, Latest
  <2>. QED  BY <1>1, <1>2, <1>3, <1>4, <2>1, EndFinal DEF Unfinished
<1>5. CASE Latest(k) \notin Numbers(k)
  <2>1. attempts[k] = << >> /\ attempts \in [Candidates -> Seq(Attempts)]
    BY <1>3, <1>5 DEF Numbers, Latest, FinalInv, TypeInv, TypeOK
  <2>2. attempts' = attempts \/ attempts' = [attempts EXCEPT ![k][Latest(k)].status = status,
                                                           ![k][Latest(k)].ended = now]
    BY <1>2 DEF SaveEnd
  <2>3. \A s, i : s = << >> => /\ [s EXCEPT ![i].status = status] = << >>
                               /\ [s EXCEPT ![i].ended = now] = << >>
    OBVIOUS
  <2>4. attempts' = attempts \/ attempts' = [attempts EXCEPT ![k] = << >>]
    BY <1>3, <2>1, <2>2, <2>3
  <2>5. attempts' = attempts
    BY <2>1, <2>4
  <2>. QED  BY <1>1, <2>5, SameFinal DEF Unfinished
<1>. QED  BY <1>4, <1>5

\* The steps that leave the attempts alone, and do not begin a revalidation.
LEMMA OtherFinal ==
  ASSUME FinalInv, NEW c \in Coalitions, UNCHANGED attempts, worker'[c] # "revalidate"
  PROVE  CompletedIsFinal' /\ Unfinished(c)'
  BY SameFinal DEF Unfinished


LEMMA InitFinal == Init => FinalInv
<1>. SUFFICES ASSUME Init PROVE FinalInv
  OBVIOUS
<1>1. CompletedIsFinal
  <2>1. \A k \in Candidates : attempts[k] = << >>
    BY DEF Init
  <2>. QED  BY <2>1 DEF CompletedIsFinal, Numbers
<1>. QED  BY <1>1, InitTypes DEF Init, FinalInv, Unfinished

LEMMA NextFinal == FinalInv /\ [Next]_vars => FinalInv'
<1>. SUFFICES ASSUME FinalInv, [Next]_vars PROVE FinalInv'
  OBVIOUS
<1>1. TypeInv'
  BY NextTypes DEF FinalInv
<1>2. CASE AdvanceClock \/ EndMission \/ Learn \/ UNCHANGED vars
  <2>1. UNCHANGED <<attempts, worker, hand>>
    BY <1>2 DEF AdvanceClock, EndMission, Learn, vars, recovery, audit
  <2>2. \A c \in Coalitions : Unfinished(c)'
    BY <2>1 DEF FinalInv, Unfinished, Numbers
  <2>. QED  BY <1>1, <2>1, <2>2, SameFinal DEF FinalInv
<1>3. CASE RestartClient
  <2>1. UNCHANGED attempts /\ worker' = [c \in Coalitions |-> "idle"]
    BY <1>3 DEF RestartClient, audit
  <2>2. \A c \in Coalitions : Unfinished(c)'
    BY <2>1 DEF Unfinished
  <2>. QED  BY <1>1, <2>1, <2>2, SameFinal DEF FinalInv
<1>4. ASSUME NEW c \in Coalitions, Recover(c) \/ BeginCycle(c) \/ RunCycle(c)
      PROVE  FinalInv'
  <2>1. Elsewhere(c)
    BY <1>4, RecoverTypes, BeginCycleTypes, RunCycleTypes DEF FinalInv
  <2>2. CompletedIsFinal' /\ Unfinished(c)'
    <3>1. CASE TakeUp(c) \/ FailRecovery(c)
      <4>1. UNCHANGED attempts /\ worker'[c] # "revalidate"
        BY <3>1 DEF TakeUp, FailRecovery, Goto, audit, FinalInv, TypeInv, TypeOK
      <4>. QED  BY <4>1, OtherFinal
    <3>2. CASE BeginCycle(c) \/ Assess(c) \/ FailRecommend(c)
      <4>1. UNCHANGED attempts /\ worker'[c] # "revalidate"
        BY <3>2 DEF BeginCycle, Assess, FailRecommend, Goto, audit, FinalInv, TypeInv, TypeOK
      <4>. QED  BY <4>1, OtherFinal
    <3>3. CASE Recommend(c) \/ Activate(c)
      <4>1. UNCHANGED attempts /\ worker'[c] # "revalidate"
        BY <3>3 DEF Recommend, Activate, Goto, audit, FinalInv, TypeInv, TypeOK
      <4>. QED  BY <4>1, OtherFinal
    <3>4. CASE Raise(c) \/ Retain(c)
      <4>1. UNCHANGED attempts /\ worker'[c] # "revalidate"
        BY <3>4 DEF Raise, Retain, Goto, audit, FinalInv, TypeInv, TypeOK
      <4>. QED  BY <4>1, OtherFinal
    <3>. QED  BY <1>4, <3>1, <3>2, <3>3, <3>4, MonitorFinal, ResumeFinal, FinishResumedFinal,
                 StartStepFinal, FinishFinal DEF Recover, RunCycle
  <2>. QED  BY <1>1, <2>1, <2>2, ElsewhereUnfinished DEF FinalInv
<1>. QED  BY <1>2, <1>3, <1>4 DEF Next

(* A plan that completed is not executed again, however many restarts and  *)
(* unrecorded snapshots there are.                                         *)
THEOREM CompletedIsFinalHolds == Spec => []CompletedIsFinal
<1>1. FinalInv => CompletedIsFinal
  BY DEF FinalInv
<1>. QED  BY InitFinal, NextFinal, <1>1, PTL DEF Spec


-----------------------------------------------------------------------------
(* Within the limit, as long as no execution raises and no last snapshot   *)
(* is lost.                                                                *)

Runs(k, i) == i \in Numbers(k) /\ attempts[k][i].status = "executing"

\* The candidate the worker is recovering.
Held(c, k) == hand[c] # None /\ hand[c][1] = k

\* What the worker of a coalition has under way or before it.
Busy(c) == {k \in Of(c) : \/ \E x \in interrupted[c] : x[1] = k
                          \/ Held(c, k)
                          \/ k \in cycle[c].todo \union cycle[c].ready \union cycle[c].running}

\* No candidate has two executing attempts, or is to be recovered twice.
Single(c) ==
    /\ \A k \in Of(c) : \A i, j : Runs(k, i) /\ Runs(k, j) => i = j
    /\ \A x, y \in interrupted[c] : x[1] = y[1] => x = y
    /\ \A x \in interrupted[c] : ~Held(c, x[1])

\* Every attempt that is executing in the audit is the business of the worker,
\* and what the worker executes is the latest attempt in the audit.
Accounted(c) ==
    /\ \A k \in Of(c) : \A i : Runs(k, i) =>
         \/ <<k, i>> \in interrupted[c]
         \/ k \in cycle[c].running
         \/ Held(c, k) /\ worker[c] # "revalidate"
    /\ \A k \in cycle[c].running : Runs(k, Latest(k))
    /\ worker[c] = "resumed" => Runs(hand[c][1], Latest(hand[c][1]))

Room(c) == Cardinality(Busy(c)) <= Limit

InOrder(c) == Single(c) /\ Accounted(c) /\ Room(c)

LimitInv == TypeInv /\ (mishaps = 0 => \A c \in Coalitions : InOrder(c))

\* What a selection replaces by fewer has room.
LEMMA ShrinkingRoom ==
  ASSUME NEW c \in Coalitions, Room(c), Busy(c)' \subseteq Busy(c)
  PROVE  Room(c)'
<1>1. Busy(c) \subseteq Candidates /\ IsFiniteSet(Candidates)
  BY CoordinatorAssumption DEF Busy, Of
<1>2. IsFiniteSet(Busy(c))
  BY <1>1, FS_Subset
<1>3. Cardinality(Busy(c)') <= Cardinality(Busy(c))
  BY <1>2, FS_Subset
<1>4. Cardinality(Busy(c)) \in Nat /\ Cardinality(Busy(c)') \in Nat
  BY <1>2, FS_Subset, FS_CardinalityType
<1>5. Cardinality(Busy(c)') <= Limit
  BY <1>3, <1>4, ConstantTypes DEF Room
<1>. QED  BY <1>5 DEF Room

\* The snapshots of an attempt and what executes.
LEMMA StartRuns ==
  ASSUME TypeInv, NEW k \in Candidates, NEW plan \in Time, SaveStart(k, plan)
  PROVE  /\ \A i : Runs(k, i)' <=> Runs(k, i) \/ i = Latest(k) + 1
         /\ Latest(k)' = Latest(k) + 1
         /\ \A h \in Candidates \ {k} : Latest(h)' = Latest(h) /\ \A i : Runs(h, i)' <=> Runs(h, i)
<1>1. /\ \A h \in Candidates \ {k} : attempts'[h] = attempts[h]
      /\ Numbers(k) = 1 .. Latest(k) /\ Latest(k) \in Nat
      /\ Latest(k)' = Latest(k) + 1 /\ Numbers(k)' = 1 .. (Latest(k) + 1)
      /\ \A i \in Numbers(k) : attempts'[k][i] = attempts[k][i]
      /\ attempts'[k][Latest(k) + 1].status = "executing"
  BY StartSaved DEF TypeInv
<1>2. \A h \in Candidates \ {k} : Latest(h)' = Latest(h) /\ \A i : Runs(h, i)' <=> Runs(h, i)
  BY <1>1 DEF Latest, Runs, Numbers
<1>3. ASSUME NEW i PROVE Runs(k, i)' <=> Runs(k, i) \/ i = Latest(k) + 1
  <2>1. CASE i \in Numbers(k)
    BY <1>1, <2>1 DEF Runs
  <2>2. CASE i = Latest(k) + 1
    BY <1>1, <2>2 DEF Runs
  <2>3. CASE i \notin Numbers(k) /\ i # Latest(k) + 1
    <3>1. i \notin 1 .. (Latest(k) + 1)
      BY <1>1, <2>3
    <3>. QED  BY <1>1, <2>3, <3>1 DEF Runs
  <2>. QED  BY <2>1, <2>2, <2>3
<1>. QED  BY <1>1, <1>2, <1>3

LEMMA EndRuns ==
  ASSUME TypeInv, NEW k \in Candidates, NEW i \in Numbers(k), mishaps' = 0,
         NEW status \in {"completed", "blocked"}, SaveEnd(k, i, status)
  PROVE  /\ mishaps = 0
         /\ \A j : Runs(k, j)' <=> Runs(k, j) /\ j # i
         /\ Latest(k)' = Latest(k)
         /\ \A h \in Candidates \ {k} : Latest(h)' = Latest(h) /\ \A j : Runs(h, j)' <=> Runs(h, j)
<1>1. /\ \A h \in Candidates \ {k} : attempts'[h] = attempts[h]
      /\ Numbers(k)' = Numbers(k) /\ Latest(k)' = Latest(k)
      /\ \A j \in Numbers(k) \ {i} : attempts'[k][j] = attempts[k][j]
      /\ \/ attempts'[k][i].status = status /\ mishaps' = mishaps
         \/ mishaps' = mishaps + 1
  BY EndSaved DEF TypeInv
<1>2. mishaps = 0 /\ attempts'[k][i].status # "executing"
  <2>1. mishaps \in Nat
    BY ConstantTypes DEF TypeInv, TypeOK
  <2>. QED  BY <1>1, <2>1
<1>3. \A h \in Candidates \ {k} : Latest(h)' = Latest(h) /\ \A j : Runs(h, j)' <=> Runs(h, j)
  BY <1>1 DEF Latest, Runs, Numbers
<1>4. \A j : Runs(k, j)' <=> Runs(k, j) /\ j # i
  BY <1>1, <1>2 DEF Runs
<1>. QED  BY <1>1, <1>2, <1>3, <1>4

\* A step of one worker does not concern the other.
LEMMA ElsewhereLimit ==
  ASSUME TypeInv, NEW c \in Coalitions, NEW d \in Coalitions, d # c, Elsewhere(c),
         Single(d), Accounted(d), Room(d)
  PROVE  Single(d)' /\ Accounted(d)' /\ Room(d)'
<1>1. /\ worker'[d] = worker[d] /\ cycle'[d] = cycle[d]
      /\ hand'[d] = hand[d] /\ interrupted'[d] = interrupted[d]
      /\ \A k \in Of(d) : attempts'[k] = attempts[k]
  BY CandidatesApart DEF Elsewhere
<1>2. \A k \in Of(d) : Latest(k)' = Latest(k) /\ \A i : Runs(k, i)' <=> Runs(k, i)
  BY <1>1 DEF Latest, Runs, Numbers
<1>3. \A k : Held(d, k)' <=> Held(d, k)
  BY <1>1 DEF Held
<1>4. Single(d)'
  BY <1>1, <1>2, <1>3 DEF Single, Of
<1>5. Accounted(d)'
  <2>1. \A k \in Of(d) : \A i : Runs(k, i)' =>
         \/ <<k, i>> \in interrupted'[d]
         \/ k \in cycle'[d].running
         \/ Held(d, k)' /\ worker'[d] # "revalidate"
    BY <1>1, <1>2, <1>3 DEF Accounted
  <2>2. \A k \in cycle'[d].running : Runs(k, Latest(k))'
    BY <1>1, <1>2, CycleOfTyped DEF Accounted
  <2>3. ASSUME worker'[d] = "resumed" PROVE \A k : k = hand'[d][1] => Runs(k, Latest(k))'
    <3>1. hand[d][1] \in Of(d) /\ Runs(hand[d][1], Latest(hand[d][1]))
      BY <1>1, <2>3, HandTyped DEF TypeInv, InPlace, Recovering, Accounted
    <3>. QED  BY <1>1, <1>2, <3>1
  <2>. QED  BY <2>1, <2>2, <2>3 DEF Accounted, Of
<1>6. Busy(d)' = Busy(d)
  BY <1>1, <1>3 DEF Busy, Of
<1>. QED  BY <1>4, <1>5, <1>6, ShrinkingRoom


-----------------------------------------------------------------------------
(* A step of a recovery keeps the coalition in order.                      *)

LEMMA SameRuns ==
  ASSUME UNCHANGED attempts
  PROVE  \A k : Latest(k)' = Latest(k) /\ \A i : Runs(k, i)' <=> Runs(k, i)
  BY DEF Latest, Runs, Numbers

LEMMA TakeUpKeeps ==
  ASSUME TypeInv, NEW c \in Coalitions, TakeUp(c), InOrder(c)
  PROVE  InOrder(c)'
<1>1. PICK x \in interrupted[c] :
         /\ hand' = [hand EXCEPT ![c] = x]
         /\ interrupted' = [interrupted EXCEPT ![c] = @ \ {x}]
  BY DEF TakeUp
<1>2. /\ worker'[c] = "monitor" /\ hand'[c] = x /\ interrupted'[c] = interrupted[c] \ {x}
      /\ cycle' = cycle /\ attempts' = attempts
      /\ x \in Candidates \X Nat /\ x[1] \in Of(c) /\ x # None
      /\ hand[c] = None /\ cycle[c].running = {}
  <2>1. worker[c] = "idle" /\ worker'[c] = "monitor" /\ cycle' = cycle /\ attempts' = attempts
    BY DEF TakeUp, Goto, audit, TypeInv, TypeOK
  <2>2. hand[c] = None /\ cycle[c].running = {}
    BY <2>1 DEF TypeInv, InPlace
  <2>3. x \in Candidates \X Nat /\ x[1] \in Of(c) /\ x # None
    BY CoordinatorAssumption DEF TypeInv, TypeOK, OwnedBy
  <2>4. hand'[c] = x /\ interrupted'[c] = interrupted[c] \ {x}
    BY <1>1 DEF TypeInv, TypeOK
  <2>. QED  BY <2>1, <2>2, <2>3, <2>4
<1>3. \A k : Latest(k)' = Latest(k) /\ \A i : Runs(k, i)' <=> Runs(k, i)
  BY <1>2, SameRuns
<1>4. \A k : Held(c, k)' <=> k = x[1]
  BY <1>2 DEF Held
<1>5. Single(c)'
  BY <1>2, <1>3, <1>4 DEF Single, InOrder, Of
<1>6. Accounted(c)'
  <2>1. ASSUME NEW k \in Of(c), NEW i, Runs(k, i)
        PROVE  <<k, i>> \in interrupted'[c] \/ k = x[1]
    <3>1. <<k, i>> \in interrupted[c]
      BY <1>2, <2>1 DEF InOrder, Accounted, Held
    <3>. QED  BY <1>2, <3>1
  <2>2. cycle'[c].running = {} /\ worker'[c] # "resumed" /\ worker'[c] # "revalidate"
    BY <1>2
  <2>. QED  BY <1>3, <1>4, <2>1, <2>2 DEF Accounted, Of
<1>7. Busy(c)' \subseteq Busy(c)
  BY <1>2, <1>4 DEF Busy, Of
<1>. QED  BY <1>5, <1>6, <1>7, ShrinkingRoom DEF InOrder

\* The steps that end, or block, the attempt the worker has in hand.
LEMMA HandEndKeeps ==
  ASSUME TypeInv, NEW c \in Coalitions, InOrder(c), mishaps' = 0, worker[c] \in Recovering,
         NEW i \in Numbers(hand[c][1]), Runs(hand[c][1], i),
         NEW status \in {"completed", "blocked"}, SaveEnd(hand[c][1], i, status),
         UNCHANGED <<cycle, interrupted>>,
         \/ worker'[c] = "idle" /\ hand'[c] = None
         \/ worker'[c] = "revalidate" /\ hand'[c] = hand[c]
  PROVE  InOrder(c)'
<1>1. hand[c] # None /\ cycle[c].running = {}
  BY DEF TypeInv, InPlace, Recovering
<1>2. PICK k \in Of(c) : k = hand[c][1] /\ k \in Candidates
  BY <1>1, HandTyped
<1>3. /\ \A j : Runs(k, j)' <=> Runs(k, j) /\ j # i
      /\ \A h \in Candidates \ {k} : \A j : Runs(h, j)' <=> Runs(h, j)
  BY <1>2, EndRuns
<1>4. \A j : ~Runs(k, j)'
  BY <1>2, <1>3 DEF InOrder, Single
<1>5. \A h : Held(c, h)' => Held(c, h) /\ h = k
  BY <1>1, <1>2 DEF Held
<1>6. \A h \in Of(c) : \A j : Runs(h, j)' => h # k /\ Runs(h, j)
  BY <1>3, <1>4 DEF Of
<1>7. Single(c)'
  BY <1>5, <1>6 DEF Single, InOrder, Of
<1>8. Accounted(c)'
  <2>1. ASSUME NEW h \in Of(c), NEW j, Runs(h, j)' PROVE <<h, j>> \in interrupted[c]
    BY <1>1, <1>2, <1>6, <2>1 DEF InOrder, Accounted, Held
  <2>. QED  BY <1>1, <2>1 DEF Accounted, Of
<1>9. Busy(c)' \subseteq Busy(c)
  BY <1>5 DEF Busy, Of
<1>. QED  BY <1>7, <1>8, <1>9, ShrinkingRoom DEF InOrder

LEMMA MonitorKeeps ==
  ASSUME TypeInv, NEW c \in Coalitions, Monitor(c), InOrder(c), mishaps' = 0
  PROVE  InOrder(c)'
<1>1. worker[c] = "monitor" /\ hand[c] # None
  BY DEF Monitor, TypeInv, InPlace, Recovering
<1>2. PICK k \in Candidates : k = hand[c][1]
  BY <1>1, HandTyped
<1>3. /\ hand[c][2] \in Numbers(k) /\ Numbers(k) = 1 .. Latest(k) /\ Latest(k) \in Nat
  BY <1>1, <1>2, HandTyped
<1>4. PICK i \in Numbers(k) : i = Subject(k, hand[c][2])
  BY <1>3, SubjectIsLatest
<1>5. PICK status \in {"completed", "blocked"} :
        /\ SaveEnd(k, i, status) /\ attempts[k][i].status = "executing"
        /\ \/ Recovered(c, status)
           \/ Goto(c, "revalidate") /\ UNCHANGED hand
  BY <1>2, <1>4 DEF Monitor
<1>6. \/ worker'[c] = "idle" /\ hand'[c] = None
      \/ worker'[c] = "revalidate" /\ hand'[c] = hand[c]
  <2>1. CASE Recovered(c, status)
    BY <2>1 DEF Recovered, Goto, TypeInv, TypeOK
  <2>2. CASE Goto(c, "revalidate") /\ UNCHANGED hand
    BY <2>2 DEF Goto, TypeInv, TypeOK
  <2>. QED  BY <1>5, <2>1, <2>2
<1>7. UNCHANGED <<cycle, interrupted>>
  BY DEF Monitor
<1>8. Runs(k, i)
  BY <1>5 DEF Runs
<1>. QED  BY <1>1, <1>2, <1>5, <1>6, <1>7, <1>8, HandEndKeeps DEF Recovering

LEMMA FinishResumedKeeps ==
  ASSUME TypeInv, NEW c \in Coalitions, FinishResumed(c), InOrder(c), mishaps' = 0
  PROVE  InOrder(c)'
<1>1. /\ worker[c] = "resumed" /\ hand[c] # None /\ UNCHANGED <<cycle, interrupted>>
      /\ Runs(hand[c][1], Latest(hand[c][1]))
  BY DEF FinishResumed, TypeInv, InPlace, Recovering, InOrder, Accounted
<1>2. Latest(hand[c][1]) \in Numbers(hand[c][1])
  BY <1>1 DEF Runs
<1>3. PICK status \in {"completed", "blocked"} :
        SaveEnd(hand[c][1], Latest(hand[c][1]), status) /\ Recovered(c, status)
  BY DEF FinishResumed
<1>4. worker'[c] = "idle" /\ hand'[c] = None
  BY <1>3 DEF Recovered, Goto, TypeInv, TypeOK
<1>. QED  BY <1>1, <1>2, <1>3, <1>4, HandEndKeeps DEF Recovering

LEMMA ResumeKeeps ==
  ASSUME TypeInv, NEW c \in Coalitions, Resume(c), InOrder(c)
  PROVE  InOrder(c)'
<1>1. /\ worker[c] = "revalidate" /\ hand[c] # None /\ cycle[c].running = {}
      /\ UNCHANGED <<cycle, interrupted>>
  BY DEF Resume, TypeInv, InPlace, Recovering
<1>2. PICK k \in Of(c) : k = hand[c][1] /\ k \in Candidates /\ Latest(k) \in Nat
                         /\ attempts[k][hand[c][2]].plan \in Time /\ Numbers(k) = 1 .. Latest(k)
  BY <1>1, HandTyped DEF Attempts
<1>3. Held(c, k) /\ \A j : ~Runs(k, j)
  <2>1. Held(c, k)
    BY <1>1, <1>2 DEF Held
  <2>2. ASSUME NEW j, Runs(k, j) PROVE FALSE
    <3>1. <<k, j>> \in interrupted[c]
      BY <1>1, <2>2 DEF InOrder, Accounted
    <3>. QED  BY <2>1, <3>1 DEF InOrder, Single
  <2>. QED  BY <2>1, <2>2
<1>4. CASE Recovered(c, "blocked") /\ UNCHANGED attempts
  <2>1. worker'[c] = "idle" /\ hand'[c] = None
    BY <1>4 DEF Recovered, Goto, TypeInv, TypeOK
  <2>2. \A h : Latest(h)' = Latest(h) /\ \A i : Runs(h, i)' <=> Runs(h, i)
    BY <1>4, SameRuns
  <2>3. \A h : ~Held(c, h)'
    BY <2>1 DEF Held
  <2>4. Single(c)'
    BY <1>1, <2>2, <2>3 DEF Single, InOrder, Of
  <2>5. Accounted(c)'
    BY <1>1, <2>1, <2>2 DEF Accounted, InOrder, Of
  <2>6. Busy(c)' \subseteq Busy(c)
    BY <1>1, <2>3 DEF Busy, Of
  <2>. QED  BY <2>4, <2>5, <2>6, ShrinkingRoom DEF InOrder
<1>5. CASE SaveStart(k, attempts[k][hand[c][2]].plan) /\ Goto(c, "resumed") /\ UNCHANGED hand
  <2>1. worker'[c] = "resumed" /\ hand'[c] = hand[c]
    BY <1>5 DEF Goto, TypeInv, TypeOK
  <2>2. /\ \A i : Runs(k, i)' <=> i = Latest(k) + 1
        /\ Latest(k)' = Latest(k) + 1
        /\ \A h \in Candidates \ {k} : \A i : Runs(h, i)' <=> Runs(h, i)
    BY <1>2, <1>3, <1>5, StartRuns
  <2>3. \A h : Held(c, h)' <=> Held(c, h)
    BY <2>1 DEF Held
  <2>4. Single(c)'
    BY <1>1, <2>2, <2>3 DEF Single, InOrder, Of
  <2>5. Accounted(c)'
    <3>1. \A h \in Of(c) : \A i : Runs(h, i)' => <<h, i>> \in interrupted'[c] \/ Held(c, h)'
      BY <1>1, <1>3, <2>2, <2>3 DEF InOrder, Accounted, Of
    <3>2. \A h : h = hand'[c][1] => Runs(h, Latest(h))'
      BY <1>2, <2>1, <2>2
    <3>. QED  BY <1>1, <2>1, <3>1, <3>2 DEF Accounted, Of
  <2>6. Busy(c)' \subseteq Busy(c)
    BY <1>1, <2>3 DEF Busy, Of
  <2>. QED  BY <2>4, <2>5, <2>6, ShrinkingRoom DEF InOrder
<1>. QED  BY <1>2, <1>4, <1>5 DEF Resume


-----------------------------------------------------------------------------
(* A step of a cycle does.                                                 *)

\* The steps of a worker that leave attempts and recoveries alone and begin
\* nothing that they did not have before, or begin what has room.
LEMMA GoOnKeeps ==
  ASSUME TypeInv, NEW c \in Coalitions, InOrder(c), UNCHANGED attempts,
         worker'[c] \notin {"revalidate", "resumed"},
         hand'[c] = hand[c], interrupted'[c] = interrupted[c],
         cycle'[c].running = cycle[c].running, Room(c)'
  PROVE  InOrder(c)'
<1>1. \A k : Latest(k)' = Latest(k) /\ \A i : Runs(k, i)' <=> Runs(k, i)
  BY SameRuns
<1>2. \A k : Held(c, k)' <=> Held(c, k)
  BY DEF Held
<1>3. Single(c)'
  BY <1>1, <1>2 DEF Single, InOrder, Of
<1>4. Accounted(c)'
  BY <1>1, <1>2 DEF Accounted, InOrder, Of
<1>. QED  BY <1>3, <1>4 DEF InOrder

LEMMA StopKeeps ==
  ASSUME TypeInv, NEW c \in Coalitions, InOrder(c),
         BeginCycle(c) \/ FailRecommend(c) \/ FailRecovery(c)
  PROVE  InOrder(c)'
<1>1. /\ UNCHANGED <<attempts, cycle, hand, interrupted>>
      /\ \E w \in {"ready", "stopped", "failed"} : Goto(c, w)
  BY DEF BeginCycle, FailRecommend, FailRecovery, recovery, audit
<1>2. worker'[c] \notin {"revalidate", "resumed"}
  BY <1>1 DEF Goto, TypeInv, TypeOK
<1>3. Busy(c)' = Busy(c)
  BY <1>1 DEF Busy, Held, Of
<1>. QED  BY <1>1, <1>2, <1>3, ShrinkingRoom, GoOnKeeps DEF InOrder

LEMMA AssessKeeps ==
  ASSUME TypeInv, NEW c \in Coalitions, InOrder(c), Assess(c)
  PROVE  InOrder(c)'
<1>1. worker[c] = "ready" /\ UNCHANGED <<attempts, hand, interrupted>>
  BY DEF Assess, recovery, audit
<1>2. PICK w \in {"stopped", "failed", "idle", "recommend"} :
        /\ Goto(c, w)
        /\ cycle' = cycle \/ cycle' = [cycle EXCEPT ![c] = [NoCycle EXCEPT !.started = now]]
  BY DEF Assess
<1>3. worker'[c] \notin {"revalidate", "resumed"}
  BY <1>2 DEF Goto, TypeInv, TypeOK
<1>4. cycle[c].running = {}
  BY <1>1 DEF TypeInv, InPlace
<1>5. cycle'[c] = cycle[c] \/ cycle'[c] = [NoCycle EXCEPT !.started = now]
  BY <1>2 DEF TypeInv, TypeOK
<1>6. \/ cycle'[c] = cycle[c]
      \/ cycle'[c].todo = {} /\ cycle'[c].ready = {} /\ cycle'[c].running = {}
  BY <1>5 DEF NoCycle
<1>7. Busy(c)' \subseteq Busy(c) /\ cycle'[c].running = cycle[c].running
  BY <1>1, <1>4, <1>6 DEF Busy, Held, Of
<1>. QED  BY <1>1, <1>3, <1>7, ShrinkingRoom, GoOnKeeps DEF InOrder

\* A selection fits beside the goals that are open already.
LEMMA RecommendKeeps ==
  ASSUME TypeInv, NEW c \in Coalitions, InOrder(c), Recommend(c)
  PROVE  InOrder(c)'
<1>1. worker[c] = "recommend" /\ UNCHANGED <<attempts, hand, interrupted, open>>
  BY DEF Recommend, recovery, audit
<1>2. PICK S \in SUBSET Of(c) :
         /\ S # {} => Cardinality(open \intersect Of(c)) + Cardinality(S) <= Limit
         /\ cycle' = [cycle EXCEPT ![c].plan = now, ![c].todo = S, ![c].empty = (S = {})]
         /\ Goto(c, IF S = {} THEN "execute" ELSE "activate")
  BY DEF Recommend, Eligible
<1>3. worker'[c] \notin {"revalidate", "resumed"}
  BY <1>2 DEF Goto, TypeInv, TypeOK
<1>4. /\ cycle[c].ready = {} /\ cycle[c].running = {} /\ interrupted[c] = {}
      /\ hand[c] = None
  BY <1>1 DEF TypeInv, InPlace, Deciding
<1>5. cycle'[c].todo = S /\ cycle'[c].ready = {} /\ cycle'[c].running = {}
  BY <1>2, <1>4 DEF TypeInv, TypeOK, Cycles
<1>6. Busy(c)' \subseteq S
  BY <1>1, <1>4, <1>5 DEF Busy, Held, Of
<1>7. IsFiniteSet(S) /\ IsFiniteSet(open \intersect Of(c))
  <2>1. S \subseteq Candidates /\ open \intersect Of(c) \subseteq Candidates
        /\ IsFiniteSet(Candidates)
    BY CoordinatorAssumption DEF Of
  <2>. QED  BY <2>1, FS_Subset
<1>8. Cardinality(S) <= Limit
  <2>1. CASE S = {}
    BY <2>1, FS_EmptySet, ConstantTypes
  <2>2. CASE S # {}
    <3>1. Cardinality(S) \in Nat /\ Cardinality(open \intersect Of(c)) \in Nat
      BY <1>7, FS_CardinalityType
    <3>. QED  BY <1>2, <2>2, <3>1, ConstantTypes
  <2>. QED  BY <2>1, <2>2
<1>9. Cardinality(Busy(c)') <= Cardinality(S) /\ IsFiniteSet(Busy(c)')
  BY <1>6, <1>7, FS_Subset
<1>10. Cardinality(Busy(c)') <= Limit
  <2>1. Cardinality(S) \in Nat /\ Cardinality(Busy(c)') \in Nat
    BY <1>7, <1>9, FS_CardinalityType
  <2>. QED  BY <1>8, <1>9, <2>1, ConstantTypes
<1>11. Room(c)'
  BY <1>10 DEF Room
<1>. QED  BY <1>1, <1>3, <1>4, <1>5, <1>11, GoOnKeeps

LEMMA ActivateKeeps ==
  ASSUME TypeInv, NEW c \in Coalitions, InOrder(c), Activate(c)
  PROVE  InOrder(c)'
<1>1. /\ worker[c] = "activate" /\ UNCHANGED <<attempts, hand, interrupted>>
      /\ \E w \in {"execute", "activate"} : Goto(c, w)
  BY DEF Activate, recovery, audit
<1>2. PICK k \in cycle[c].todo :
        LET s == [cycle[c] EXCEPT !.todo = @ \ {k}] IN
        \/ GiveUp(c, k, s)
        \/ cycle' = [cycle EXCEPT ![c] = [s EXCEPT !.ready = @ \union {k}]]
  BY DEF Activate
<1>. DEFINE s == [cycle[c] EXCEPT !.todo = @ \ {k}]
<1>3. /\ s \in Cycles /\ s.until = cycle[c].until /\ k \in Of(c)
      /\ s.todo = cycle[c].todo \ {k} /\ s.ready = cycle[c].ready
      /\ s.running = cycle[c].running
  BY CycleOfTyped DEF Cycles
<1>4. /\ cycle'[c].todo = s.todo /\ cycle'[c].running = cycle[c].running
      /\ cycle'[c].ready \in {s.ready, s.ready \union {k}}
  <2>1. CASE GiveUp(c, k, s)
    <3>. HIDE DEF s
    <3>1. PICK n \in Cycles : /\ cycle' = [cycle EXCEPT ![c] = n]
                              /\ n.todo = s.todo /\ n.ready = s.ready /\ n.running = s.running
      BY <1>3, <2>1, GiveUpTypes
    <3>2. cycle'[c] = n
      BY <3>1 DEF TypeInv, TypeOK
    <3>. QED  BY <1>3, <3>1, <3>2
  <2>2. CASE cycle' = [cycle EXCEPT ![c] = [s EXCEPT !.ready = @ \union {k}]]
    <3>. HIDE DEF s
    <3>1. cycle'[c] = [s EXCEPT !.ready = @ \union {k}]
      BY <2>2 DEF TypeInv, TypeOK
    <3>. QED  BY <1>3, <3>1 DEF Cycles
  <2>. QED  BY <1>2, <2>1, <2>2
<1>5. worker'[c] \notin {"revalidate", "resumed"}
  BY <1>1 DEF Goto, TypeInv, TypeOK
<1>6. Busy(c)' \subseteq Busy(c)
  <2>. HIDE DEF s
  <2>. QED  BY <1>1, <1>3, <1>4 DEF Busy, Held, Of
<1>. QED  BY <1>1, <1>4, <1>5, <1>6, ShrinkingRoom, GoOnKeeps DEF InOrder

LEMMA StartKeeps ==
  ASSUME TypeInv, NEW c \in Coalitions, InOrder(c), Start(c)
  PROVE  InOrder(c)'
<1>1. worker[c] = "execute" /\ UNCHANGED <<worker, hand, interrupted>>
  BY DEF Start, recovery
<1>2. PICK k \in cycle[c].ready :
        LET s == [cycle[c] EXCEPT !.ready = @ \ {k}] IN
        \/ GiveUp(c, k, s) /\ UNCHANGED attempts
        \/ /\ SaveStart(k, cycle[c].plan)
           /\ cycle' = [cycle EXCEPT ![c] = [s EXCEPT !.running = @ \union {k}]]
  BY DEF Start
<1>. DEFINE s == [cycle[c] EXCEPT !.ready = @ \ {k}]
<1>3. /\ s \in Cycles /\ s.until = cycle[c].until /\ k \in Of(c) /\ k \in Candidates
      /\ s.todo = cycle[c].todo /\ s.ready = cycle[c].ready \ {k}
      /\ s.running = cycle[c].running /\ cycle[c].plan \in Time
  BY CycleOfTyped DEF Cycles
<1>4. CASE GiveUp(c, k, s) /\ UNCHANGED attempts
  <2>. HIDE DEF s
  <2>1. PICK n \in Cycles : /\ cycle' = [cycle EXCEPT ![c] = n]
                            /\ n.todo = s.todo /\ n.ready = s.ready /\ n.running = s.running
    BY <1>3, <1>4, GiveUpTypes
  <2>2. cycle'[c] = n
    BY <2>1 DEF TypeInv, TypeOK
  <2>3. Busy(c)' \subseteq Busy(c) /\ cycle'[c].running = cycle[c].running
    BY <1>1, <1>3, <2>1, <2>2 DEF Busy, Held, Of
  <2>. QED  BY <1>1, <1>4, <2>3, ShrinkingRoom, GoOnKeeps DEF InOrder
<1>5. CASE /\ SaveStart(k, cycle[c].plan)
           /\ cycle' = [cycle EXCEPT ![c] = [s EXCEPT !.running = @ \union {k}]]
  <2>. HIDE DEF s
  <2>1. cycle'[c] = [s EXCEPT !.running = @ \union {k}]
    BY <1>5 DEF TypeInv, TypeOK
  <2>2. /\ cycle'[c].todo = cycle[c].todo /\ cycle'[c].ready = cycle[c].ready \ {k}
        /\ cycle'[c].running = cycle[c].running \union {k}
    BY <1>3, <2>1 DEF Cycles
  <2>3. interrupted[c] = {} /\ hand[c] = None /\ k \notin cycle[c].running
    BY <1>1 DEF TypeInv, InPlace, Deciding
  <2>4. \A j : ~Runs(k, j)
    BY <1>3, <2>3 DEF InOrder, Accounted, Held
  <2>5. /\ \A i : Runs(k, i)' <=> i = Latest(k) + 1
        /\ Latest(k)' = Latest(k) + 1
        /\ \A h \in Candidates \ {k} : Latest(h)' = Latest(h) /\ \A i : Runs(h, i)' <=> Runs(h, i)
    BY <1>3, <1>5, <2>4, StartRuns
  <2>6. \A h : ~Held(c, h) /\ ~Held(c, h)'
    BY <1>1, <2>3 DEF Held
  <2>7. Single(c)'
    BY <1>1, <2>3, <2>5 DEF Single, InOrder, Of
  <2>8. Accounted(c)'
    <3>1. \A h \in Of(c) : \A i : Runs(h, i)' => h \in cycle'[c].running
      BY <2>2, <2>3, <2>5, <2>6 DEF InOrder, Accounted, Of
    <3>2. \A h \in cycle'[c].running : Runs(h, Latest(h))'
      BY <2>2, <2>5, CycleOfTyped DEF InOrder, Accounted
    <3>. QED  BY <1>1, <3>1, <3>2 DEF Accounted, Of
  <2>9. Busy(c)' \subseteq Busy(c)
    BY <1>1, <2>2, <2>6 DEF Busy, Of
  <2>. QED  BY <2>7, <2>8, <2>9, ShrinkingRoom DEF InOrder
<1>. QED  BY <1>2, <1>4, <1>5

LEMMA FinishKeeps ==
  ASSUME TypeInv, NEW c \in Coalitions, InOrder(c), Finish(c), mishaps' = 0
  PROVE  InOrder(c)'
<1>1. worker[c] = "execute" /\ UNCHANGED <<worker, hand, interrupted>>
  BY DEF Finish, recovery
<1>2. PICK k \in cycle[c].running, status \in {"completed", "blocked"} :
        /\ SaveEnd(k, Latest(k), status)
        /\ cycle' = [cycle EXCEPT ![c].running = @ \ {k},
                                  ![c].until[k] = now + Cooldown[status]]
  BY DEF Finish
<1>3. /\ k \in Of(c) /\ k \in Candidates /\ Runs(k, Latest(k)) /\ Latest(k) \in Numbers(k)
      /\ interrupted[c] = {} /\ hand[c] = None
  BY <1>1, CycleOfTyped DEF TypeInv, InPlace, InOrder, Accounted, Runs
<1>4. /\ cycle'[c].todo = cycle[c].todo /\ cycle'[c].ready = cycle[c].ready
      /\ cycle'[c].running = cycle[c].running \ {k}
  BY <1>2 DEF TypeInv, TypeOK, Cycles
<1>5. /\ \A j : Runs(k, j)' <=> Runs(k, j) /\ j # Latest(k)
      /\ \A h \in Candidates \ {k} : Latest(h)' = Latest(h) /\ \A j : Runs(h, j)' <=> Runs(h, j)
  BY <1>2, <1>3, EndRuns
<1>6. \A h \in Of(c) : \A j : Runs(h, j)' => h # k /\ Runs(h, j)
  BY <1>3, <1>5 DEF InOrder, Single, Of
<1>7. \A h : ~Held(c, h) /\ ~Held(c, h)'
  BY <1>1, <1>3 DEF Held
<1>8. Single(c)'
  BY <1>1, <1>3, <1>6 DEF Single, InOrder, Of
<1>9. Accounted(c)'
  <2>1. \A h \in Of(c) : \A i : Runs(h, i)' => h \in cycle'[c].running
    BY <1>3, <1>4, <1>6, <1>7 DEF InOrder, Accounted
  <2>2. \A h \in cycle'[c].running : Runs(h, Latest(h))'
    BY <1>4, <1>5, CycleOfTyped DEF InOrder, Accounted
  <2>. QED  BY <1>1, <2>1, <2>2 DEF Accounted, Of
<1>10. Busy(c)' \subseteq Busy(c)
  BY <1>1, <1>4, <1>7 DEF Busy, Of
<1>. QED  BY <1>8, <1>9, <1>10, ShrinkingRoom DEF InOrder

LEMMA RetainKeeps ==
  ASSUME TypeInv, NEW c \in Coalitions, InOrder(c), Retain(c)
  PROVE  InOrder(c)'
<1>1. /\ UNCHANGED <<attempts, hand, interrupted>> /\ cycle[c].running = {}
      /\ cycle' = [cycle EXCEPT ![c] = NoCycle]
      /\ \E w \in {"idle", "stopped", "failed"} : Goto(c, w)
  BY DEF Retain, recovery
<1>2. worker'[c] \notin {"revalidate", "resumed"}
  BY <1>1 DEF Goto, TypeInv, TypeOK
<1>3. cycle'[c] = NoCycle
  BY <1>1 DEF TypeInv, TypeOK
<1>4. cycle'[c].todo = {} /\ cycle'[c].ready = {} /\ cycle'[c].running = {}
  BY <1>3 DEF NoCycle
<1>5. Busy(c)' \subseteq Busy(c)
  BY <1>1, <1>4 DEF Busy, Held, Of
<1>. QED  BY <1>1, <1>2, <1>4, <1>5, ShrinkingRoom, GoOnKeeps DEF InOrder


-----------------------------------------------------------------------------
(* All steps do.                                                           *)

\* What the audit says is executing is what the coordinator was at.
LEMMA RestartKeeps ==
  ASSUME TypeInv, NEW c \in Coalitions, InOrder(c), RestartClient
  PROVE  InOrder(c)'
<1>1. /\ worker'[c] = "idle" /\ cycle'[c] = NoCycle /\ hand'[c] = None
      /\ interrupted'[c] = Interrupted(c) /\ attempts' = attempts
  BY DEF RestartClient, audit
<1>2. cycle'[c].todo = {} /\ cycle'[c].ready = {} /\ cycle'[c].running = {}
  BY <1>1 DEF NoCycle
<1>3. \A k : Latest(k)' = Latest(k) /\ \A i : Runs(k, i)' <=> Runs(k, i)
  BY <1>1, SameRuns
<1>4. /\ \A k \in Of(c) : \A i : Runs(k, i) => <<k, i>> \in Interrupted(c)
      /\ \A x \in Interrupted(c) : /\ x[1] \in Of(c) /\ Runs(x[1], x[2])
                                   /\ x = <<x[1], x[2]>>
  <2>1. ASSUME NEW k \in Of(c), NEW i, Runs(k, i) PROVE <<k, i>> \in Interrupted(c)
    BY <2>1 DEF Interrupted, Runs
  <2>2. \A x \in Interrupted(c) : x[1] \in Of(c) /\ Runs(x[1], x[2]) /\ x = <<x[1], x[2]>>
    BY InterruptedOwned DEF TypeInv, Runs
  <2>. QED  BY <2>1, <2>2
<1>5. \A k : ~Held(c, k)'
  BY <1>1 DEF Held
<1>6. Single(c)'
  <2>1. \A x, y \in Interrupted(c) : x[1] = y[1] => x = y
    BY <1>4 DEF InOrder, Single
  <2>2. \A k \in Of(c) : \A i, j : Runs(k, i)' /\ Runs(k, j)' => i = j
    BY <1>3 DEF InOrder, Single
  <2>. QED  BY <1>1, <1>5, <2>1, <2>2 DEF Single, Of
<1>7. Accounted(c)'
  <2>1. \A k \in Of(c) : \A i : Runs(k, i)' => <<k, i>> \in interrupted'[c]
    BY <1>1, <1>3, <1>4
  <2>. QED  BY <1>1, <1>2, <2>1 DEF Accounted, Of
<1>8. Busy(c)' \subseteq Busy(c)
  <2>1. ASSUME NEW x \in Interrupted(c) PROVE x[1] \in Busy(c)
    <3>1. x[1] \in Of(c) /\ Runs(x[1], x[2])
      BY <1>4
    <3>2. \/ \E y \in interrupted[c] : y[1] = x[1]
          \/ x[1] \in cycle[c].running
          \/ Held(c, x[1])
      BY <3>1 DEF InOrder, Accounted
    <3>. QED  BY <3>1, <3>2 DEF Busy
  <2>. QED  BY <1>1, <1>2, <1>5, <2>1 DEF Busy, Of
<1>. QED  BY <1>6, <1>7, <1>8, ShrinkingRoom DEF InOrder

LEMMA InitLimit == Init => LimitInv
<1>. SUFFICES ASSUME Init PROVE LimitInv
  OBVIOUS
<1>1. ASSUME NEW c \in Coalitions PROVE Single(c) /\ Accounted(c) /\ Room(c)
  <2>1. \A k \in Candidates : attempts[k] = << >>
    BY DEF Init
  <2>2. /\ worker[c] = "idle" /\ cycle[c].todo = {} /\ cycle[c].ready = {}
        /\ cycle[c].running = {} /\ interrupted[c] = {} /\ \A k : ~Held(c, k)
    BY DEF Init, NoCycle, Held
  <2>3. \A k \in Of(c) : \A i : ~Runs(k, i)
    BY <2>1 DEF Of, Runs, Numbers
  <2>4. Busy(c) = {}
    BY <2>2 DEF Busy
  <2>5. Room(c)
    BY <2>4, FS_EmptySet, ConstantTypes DEF Room
  <2>. QED  BY <2>2, <2>3, <2>5 DEF Single, Accounted
<1>. QED  BY <1>1, InitTypes DEF LimitInv, InOrder

\* Mishaps only grow in number.
LEMMA MishapsGrow ==
  ASSUME TypeInv, [Next]_vars, mishaps' = 0
  PROVE  mishaps = 0
<1>1. mishaps \in Nat
  BY ConstantTypes DEF TypeInv, TypeOK
<1>2. mishaps' = mishaps \/ mishaps' = mishaps + 1
  <2>1. CASE AdvanceClock \/ EndMission \/ Learn \/ RestartClient \/ UNCHANGED vars
    BY <2>1 DEF AdvanceClock, EndMission, Learn, RestartClient, vars, bounds
  <2>2. ASSUME NEW c \in Coalitions, Recover(c) \/ BeginCycle(c)
        PROVE  mishaps' = mishaps \/ mishaps' = mishaps + 1
    BY <2>2 DEF Recover, BeginCycle, TakeUp, Monitor, Resume, FinishResumed, FailRecovery,
                SaveEnd, bounds
  <2>3. ASSUME NEW c \in Coalitions, RunCycle(c)
        PROVE  mishaps' = mishaps \/ mishaps' = mishaps + 1
    BY <2>3 DEF RunCycle, Assess, Recommend, FailRecommend, Activate, Start, Finish, Raise,
                Retain, SaveEnd, bounds
  <2>. QED  BY <2>1, <2>2, <2>3 DEF Next
<1>. QED  BY <1>1, <1>2

LEMMA NextLimit == LimitInv /\ [Next]_vars => LimitInv'
<1>. SUFFICES ASSUME LimitInv, [Next]_vars, mishaps' = 0
              PROVE  \A c \in Coalitions : InOrder(c)'
  BY NextTypes DEF LimitInv
<1>1. TypeInv /\ mishaps = 0 /\ \A c \in Coalitions : InOrder(c)
  BY MishapsGrow DEF LimitInv
<1>2. CASE AdvanceClock \/ EndMission \/ Learn \/ UNCHANGED vars
  <2>1. UNCHANGED <<attempts, worker, cycle, hand, interrupted>>
    BY <1>2 DEF AdvanceClock, EndMission, Learn, vars, recovery, audit
  <2>2. \A k : Latest(k)' = Latest(k) /\ \A i : Runs(k, i)' <=> Runs(k, i)
    BY <2>1, SameRuns
  <2>3. ASSUME NEW c \in Coalitions PROVE InOrder(c)'
    <3>1. InOrder(c) /\ Busy(c)' = Busy(c) /\ \A k : Held(c, k)' <=> Held(c, k)
      BY <1>1, <2>1 DEF Busy, Held, Of
    <3>2. Single(c)'
      BY <2>1, <2>2, <3>1 DEF Single, InOrder, Of
    <3>3. Accounted(c)'
      BY <2>1, <2>2, <3>1 DEF Accounted, InOrder, Of
    <3>. QED  BY <3>1, <3>2, <3>3, ShrinkingRoom DEF InOrder
  <2>. QED  BY <2>3
<1>3. CASE RestartClient
  BY <1>1, <1>3, RestartKeeps
<1>4. ASSUME NEW c \in Coalitions, Recover(c) \/ BeginCycle(c) \/ RunCycle(c)
      PROVE  \A d \in Coalitions : InOrder(d)'
  <2>1. Elsewhere(c)
    BY <1>1, <1>4, RecoverTypes, BeginCycleTypes, RunCycleTypes
  <2>2. ~Raise(c)
    BY <1>1 DEF Raise
  <2>3. InOrder(c)'
    <3>1. CASE Recover(c) \/ BeginCycle(c)
      BY <1>1, <3>1, TakeUpKeeps, MonitorKeeps, ResumeKeeps, FinishResumedKeeps, StopKeeps
         DEF Recover
    <3>2. CASE RunCycle(c)
      BY <1>1, <2>2, <3>2, AssessKeeps, RecommendKeeps, StopKeeps, ActivateKeeps, StartKeeps,
         FinishKeeps, RetainKeeps DEF RunCycle
    <3>. QED  BY <1>4, <3>1, <3>2
  <2>. QED  BY <1>1, <2>1, <2>3, ElsewhereLimit DEF InOrder
<1>. QED  BY <1>2, <1>3, <1>4 DEF Next

\* The attempts that execute are of different candidates, which have room.
LEMMA LimitInvImplies == LimitInv => WithinLimit
<1>. SUFFICES ASSUME LimitInv, mishaps = 0, NEW c \in Coalitions
              PROVE  /\ Cardinality(Interrupted(c)) <= Limit
                     /\ \A x, y \in Interrupted(c) : x[1] = y[1] => x = y
  BY DEF WithinLimit
<1>1. TypeInv /\ Single(c) /\ Accounted(c) /\ Room(c)
  BY DEF LimitInv, InOrder
<1>2. \A x \in Interrupted(c) : x[1] \in Of(c) /\ Runs(x[1], x[2]) /\ x = <<x[1], x[2]>>
  BY <1>1, InterruptedOwned DEF TypeInv, Runs
<1>3. \A x, y \in Interrupted(c) : x[1] = y[1] => x = y
  BY <1>1, <1>2 DEF Single
<1>4. \A x \in Interrupted(c) : x[1] \in Busy(c)
  BY <1>1, <1>2 DEF Accounted, Busy
<1>5. IsFiniteSet(Busy(c))
  <2>1. Busy(c) \subseteq Candidates /\ IsFiniteSet(Candidates)
    BY CoordinatorAssumption DEF Busy, Of
  <2>. QED  BY <2>1, FS_Subset
<1>. DEFINE f == [x \in Interrupted(c) |-> x[1]]
<1>6. f \in Injection(Interrupted(c), Busy(c))
  BY <1>3, <1>4 DEF Injection, IsInjective
<1>7. IsFiniteSet(Interrupted(c)) /\ Cardinality(Interrupted(c)) <= Cardinality(Busy(c))
  <2>. HIDE DEF f
  <2>. QED  BY <1>5, <1>6, FS_Injection
<1>8. Cardinality(Interrupted(c)) \in Nat /\ Cardinality(Busy(c)) \in Nat
  BY <1>5, <1>7, FS_CardinalityType
<1>9. Cardinality(Interrupted(c)) <= Limit
  BY <1>1, <1>7, <1>8, ConstantTypes DEF Room
<1>. QED  BY <1>3, <1>9

(* Neither coalition exceeds its limit and no candidate has two plans      *)
(* executing, over any restart, and no plan is executed after it           *)
(* completed: for any candidates, limits and number of restarts.           *)
THEOREM ExecutionsInOrderHolds == Spec => []ExecutionsInOrder
<1>1. Spec => []LimitInv
  BY InitLimit, NextLimit, PTL DEF Spec
<1>2. LimitInv /\ CompletedIsFinal => ExecutionsInOrder
  BY LimitInvImplies DEF ExecutionsInOrder
<1>. QED  BY <1>1, <1>2, CompletedIsFinalHolds, PTL

-----------------------------------------------------------------------------
(* The schedule that the coordinator keeps in memory, and what the audit   *)
(* says of the cycles.                                                     *)

\* The cycles on record start at different times, and until the next one is
\* recommended, the memory tells of the last of them.
Cadenced(c) ==
    /\ \A r \in cycles[c] : r.started <= now
    /\ \A r, s \in cycles[c] : r.started = s.started => r = s
    /\ worker[c] \in Recovering \union {"idle", "ready", "recommend"} =>
         \A r \in cycles[c] :
           /\ last[c] # None /\ r.started <= last[c]
           /\ (r.empty /\ \A s \in cycles[c] : s.started <= r.started) =>
                notBefore[c] # None /\ r.started + Backoff <= notBefore[c]
    /\ worker[c] = "recommend" => CadenceHeld(c)
    /\ worker[c] \in {"activate", "execute"} =>
         /\ last[c] = cycle[c].started
         /\ \A r \in cycles[c] : r.started < cycle[c].started
         /\ cycle[c].empty => notBefore[c] = cycle[c].started + Backoff
    /\ cycle[c].started <= now

CadenceInv == TypeInv /\ \A c \in Coalitions : Cadenced(c)

\* Nor does it concern the other coalition's schedule and cooldowns.
Apart(c) ==
    /\ now' = now
    /\ \A d \in Coalitions \ {c} :
         last'[d] = last[d] /\ notBefore'[d] = notBefore[d] /\ cycles'[d] = cycles[d]
    /\ \A k \in Candidates \ Of(c) : cooldown'[k] = cooldown[k]

LEMMA NoneApart == None \notin Nat /\ None \notin Cooldowns
<1>1. Time \subseteq Nat
  BY ConstantTypes DEF Time
<1>. QED  BY <1>1, CoordinatorAssumption DEF Cooldowns

LEMMA ScheduleTypes ==
  ASSUME TypeInv, NEW c \in Coalitions
  PROVE  /\ now \in Nat /\ cycle[c].started \in Nat
         /\ \A r \in cycles[c] : r.started \in Nat
         /\ last[c] \in Nat \union {None} /\ notBefore[c] \in Nat \union {None}
         /\ Cadence \in Nat /\ Cadence > 0 /\ Backoff \in Nat
<1>1. Time \subseteq Nat
  BY ConstantTypes DEF Time
<1>2. now \in Nat /\ cycle[c].started \in Nat
  BY <1>1, CycleOfTyped
<1>3. \A r \in cycles[c] : r.started \in Nat
  <2>1. cycles[c] \subseteq SavedCycles
    BY DEF TypeInv, TypeOK
  <2>2. \A r \in SavedCycles : r.started \in Time
    BY DEF SavedCycles
  <2>. QED  BY <1>1, <2>1, <2>2
<1>4. last[c] \in Nat \union {None} /\ notBefore[c] \in Nat \union {None}
  BY <1>1 DEF TypeInv, TypeOK
<1>5. Cadence \in Nat /\ Cadence > 0 /\ Backoff \in Nat
  <2>1. Cadence \in Nat \ {0} /\ Backoff \in Nat
    BY CoordinatorAssumption, Zenon
  <2>. QED  BY <2>1
<1>. QED  BY <1>2, <1>3, <1>4, <1>5

LEMMA RecoveryApart ==
  ASSUME TypeInv, NEW c \in Coalitions, Recover(c) \/ BeginCycle(c)
  PROVE  Apart(c) /\ UNCHANGED <<cycle, last, notBefore, cycles>>
<1>1. CASE TakeUp(c) \/ FailRecovery(c) \/ BeginCycle(c)
  BY <1>1 DEF TakeUp, FailRecovery, BeginCycle, Apart, world, schedule, audit
<1>2. CASE Monitor(c) \/ Resume(c) \/ FinishResumed(c)
  <2>1. UNCHANGED <<now, cycle, last, notBefore, cycles>>
    BY <1>2 DEF Monitor, Resume, FinishResumed, world, schedule
  <2>2. hand[c] # None
    BY <1>2 DEF Monitor, Resume, FinishResumed, TypeInv, InPlace, Recovering
  <2>3. PICK k \in Of(c) : k = hand[c][1]
    BY <2>2, HandTyped
  <2>4. cooldown' = cooldown \/ \E x : cooldown' = [cooldown EXCEPT ![k] = x]
    BY <1>2, <2>3 DEF Monitor, Resume, FinishResumed, Recovered
  <2>5. \A h \in Candidates \ Of(c) : cooldown'[h] = cooldown[h]
    BY <2>4 DEF TypeInv, TypeOK
  <2>. QED  BY <2>1, <2>5 DEF Apart
<1>. QED  BY <1>1, <1>2 DEF Recover

LEMMA CycleApart ==
  ASSUME TypeInv, NEW c \in Coalitions, RunCycle(c)
  PROVE  Apart(c) /\ UNCHANGED <<hand, interrupted>>
<1>0. Of(c) \subseteq Candidates /\ cycle[c].todo \subseteq Of(c)
      /\ cycle[c].ready \subseteq Of(c) /\ cycle[c].running \subseteq Of(c)
  BY CycleOfTyped
<1>1. /\ now' = now /\ UNCHANGED <<hand, interrupted>>
  BY DEF RunCycle, Assess, Recommend, FailRecommend, Activate, Start, Finish, Raise, Retain,
         world, recovery
<1>2. \/ cooldown' = cooldown
      \/ \E k \in Of(c) : \E x : cooldown' = [cooldown EXCEPT ![k] = x]
  <2>1. CASE Assess(c) \/ Recommend(c) \/ FailRecommend(c) \/ Retain(c)
    BY <2>1 DEF Assess, Recommend, FailRecommend, Retain
  <2>2. CASE Activate(c)
    BY <1>0, <2>2 DEF Activate, GiveUp
  <2>3. CASE Start(c)
    BY <1>0, <2>3 DEF Start, GiveUp
  <2>4. CASE Finish(c)
    BY <1>0, <2>4 DEF Finish
  <2>5. CASE Raise(c)
    BY <1>0, <2>5 DEF Raise, GiveUp
  <2>. QED  BY <2>1, <2>2, <2>3, <2>4, <2>5 DEF RunCycle
<1>3. \A h \in Candidates \ Of(c) : cooldown'[h] = cooldown[h]
  BY <1>2 DEF TypeInv, TypeOK
<1>4. \A d \in Coalitions \ {c} : last'[d] = last[d] /\ notBefore'[d] = notBefore[d]
  <2>1. UNCHANGED <<last, notBefore>> \/ Recommend(c)
    BY DEF RunCycle, Assess, FailRecommend, Activate, Start, Finish, Raise, Retain, schedule
  <2>2. CASE Recommend(c)
    <3>1. PICK x, y : last' = [last EXCEPT ![c] = x] /\ notBefore' = [notBefore EXCEPT ![c] = y]
      BY <2>2 DEF Recommend
    <3>. QED  BY <3>1 DEF TypeInv, TypeOK
  <2>. QED  BY <2>1, <2>2
<1>5. \A d \in Coalitions \ {c} : cycles'[d] = cycles[d]
  <2>1. UNCHANGED cycles \/ Retain(c)
    BY DEF RunCycle, Assess, Recommend, FailRecommend, Activate, Start, Finish, Raise, audit
  <2>2. CASE Retain(c)
    <3>1. cycles' = cycles \/ \E x : cycles' = [cycles EXCEPT ![c] = x]
      BY <2>2 DEF Retain
    <3>. QED  BY <3>1 DEF TypeInv, TypeOK
  <2>. QED  BY <2>1, <2>2
<1>. QED  BY <1>1, <1>3, <1>4, <1>5 DEF Apart

\* The steps that leave the cycles on record and the schedule alone.
LEMMA CadenceSame ==
  ASSUME TypeInv, NEW d \in Coalitions, Cadenced(d), now' \in Time, now <= now',
         cycles'[d] = cycles[d], last'[d] = last[d], notBefore'[d] = notBefore[d],
         cycle'[d].started = cycle[d].started, cycle'[d].empty = cycle[d].empty,
         \/ worker'[d] = worker[d]
         \/ worker'[d] \in {"stopped", "failed"}
         \/ worker[d] \in Recovering \union {"idle", "ready"}
            /\ worker'[d] \in Recovering \union {"idle", "ready"}
         \/ worker[d] = "activate" /\ worker'[d] = "execute"
  PROVE  Cadenced(d)'
<1>1. cycle[d].started <= now' /\ \A r \in cycles[d] : r.started <= now'
  <2>1. now \in Nat /\ now' \in Nat /\ cycle[d].started \in Nat
    BY CycleOfTyped, ConstantTypes DEF Time
  <2>2. \A r \in cycles[d] : r.started \in Nat
    BY ConstantTypes DEF TypeInv, TypeOK, SavedCycles, Time
  <2>. QED  BY <2>1, <2>2 DEF Cadenced
<1>2. worker'[d] = "recommend" => CadenceHeld(d)'
  BY DEF Cadenced, CadenceHeld, Recovering
<1>3. worker'[d] \in Recovering \union {"idle", "ready", "recommend"} =>
        worker[d] \in Recovering \union {"idle", "ready", "recommend"}
  BY DEF Recovering
<1>4. worker'[d] \in {"activate", "execute"} => worker[d] \in {"activate", "execute"}
  BY DEF Recovering
<1>. QED  BY <1>1, <1>2, <1>3, <1>4 DEF Cadenced

\* What a step that gives an attempt up does to its cycle and its cooldown.
LEMMA GaveUp ==
  ASSUME TypeInv, NEW c \in Coalitions, NEW k \in Of(c), NEW s \in Cycles, GiveUp(c, k, s)
  PROVE  /\ cycle'[c].started = s.started /\ cycle'[c].empty = s.empty
         /\ cycle'[c].todo = s.todo /\ cycle'[c].ready = s.ready
         /\ cycle'[c].running = s.running
         /\ \A h \in Candidates \ {k} : /\ cycle'[c].until[h] = s.until[h]
                                        /\ cooldown'[h] = cooldown[h]
         /\ \/ cycle'[c].until[k] = s.until[k] /\ cooldown'[k] = cooldown[k]
            \/ /\ cycle'[c].until[k] = now + Cooldown["failed"]
               /\ cooldown'[k] = Merged(cooldown[k], Cool(now, now, "failed"))
<1>1. k \in Candidates /\ s.until \in Untils
  BY CycleOfTyped DEF Cycles
<1>2. CASE cycle' = [cycle EXCEPT ![c] = [s EXCEPT !.changed = TRUE]] /\ UNCHANGED cooldown
  <2>1. cycle'[c] = [s EXCEPT !.changed = TRUE]
    BY <1>2 DEF TypeInv, TypeOK
  <2>. QED  BY <1>2, <2>1 DEF Cycles
<1>3. CASE /\ cycle' = [cycle EXCEPT ![c] = [s EXCEPT !.until[k] = now + Cooldown["failed"]]]
           /\ cooldown' = [cooldown EXCEPT ![k] = Merged(@, Cool(now, now, "failed"))]
  <2>. DEFINE u == [s.until EXCEPT ![k] = now + Cooldown["failed"]]
  <2>1. u[k] = now + Cooldown["failed"] /\ \A h \in Candidates \ {k} : u[h] = s.until[h]
    BY <1>1 DEF Untils
  <2>2. cycle'[c] = [s EXCEPT !.until = u]
    BY <1>3 DEF TypeInv, TypeOK, Cycles
  <2>3. /\ cycle'[c].started = s.started /\ cycle'[c].empty = s.empty
        /\ cycle'[c].todo = s.todo /\ cycle'[c].ready = s.ready
        /\ cycle'[c].running = s.running /\ cycle'[c].until = u
    <3>. HIDE DEF u
    <3>. QED  BY <2>2 DEF Cycles
  <2>4. /\ cooldown'[k] = Merged(cooldown[k], Cool(now, now, "failed"))
        /\ \A h \in Candidates \ {k} : cooldown'[h] = cooldown[h]
    BY <1>1, <1>3 DEF TypeInv, TypeOK
  <2>. HIDE DEF u
  <2>. QED  BY <2>1, <2>3, <2>4
<1>. QED  BY <1>2, <1>3 DEF GiveUp

\* The four steps of a cycle that concern one candidate: what each does to the
\* cycle.  s is the cycle without the candidate.
LEMMA Activated ==
  ASSUME TypeInv, NEW c \in Coalitions, Activate(c)
  PROVE  \E k \in cycle[c].todo, s \in Cycles :
           /\ s.started = cycle[c].started /\ s.empty = cycle[c].empty
           /\ s.until = cycle[c].until /\ s.running = cycle[c].running
           /\ s.todo = cycle[c].todo \ {k} /\ s.ready = cycle[c].ready
           /\ \/ GiveUp(c, k, s)
              \/ /\ cooldown' = cooldown
                 /\ cycle'[c].started = s.started /\ cycle'[c].empty = s.empty
                 /\ cycle'[c].todo = s.todo /\ cycle'[c].ready = s.ready \union {k}
                 /\ cycle'[c].running = s.running /\ cycle'[c].until = s.until
<1>1. PICK k \in cycle[c].todo :
        LET s == [cycle[c] EXCEPT !.todo = @ \ {k}] IN
        \/ GiveUp(c, k, s)
        \/ /\ cooldown' = cooldown
           /\ cycle' = [cycle EXCEPT ![c] = [s EXCEPT !.ready = @ \union {k}]]
  BY DEF Activate
<1>. DEFINE s == [cycle[c] EXCEPT !.todo = @ \ {k}]
<1>2. k \in Candidates
  BY CycleOfTyped
<1>3. /\ s \in Cycles /\ s.started = cycle[c].started /\ s.empty = cycle[c].empty
      /\ s.until = cycle[c].until /\ s.running = cycle[c].running
      /\ s.todo = cycle[c].todo \ {k} /\ s.ready = cycle[c].ready
  BY <1>2, CycleOfTyped DEF Cycles
<1>4. \/ GiveUp(c, k, s)
      \/ cooldown' = cooldown /\ cycle' = [cycle EXCEPT ![c] = [s EXCEPT !.ready = @ \union {k}]]
  BY <1>1
<1>. HIDE DEF s
<1>5. ASSUME cycle' = [cycle EXCEPT ![c] = [s EXCEPT !.ready = @ \union {k}]]
      PROVE  /\ cycle'[c].started = s.started /\ cycle'[c].empty = s.empty
             /\ cycle'[c].todo = s.todo /\ cycle'[c].ready = s.ready \union {k}
             /\ cycle'[c].running = s.running /\ cycle'[c].until = s.until
  <2>1. cycle'[c] = [s EXCEPT !.ready = @ \union {k}]
    BY <1>5 DEF TypeInv, TypeOK
  <2>. QED  BY <1>3, <2>1 DEF Cycles
<1>. QED  BY <1>3, <1>4, <1>5

LEMMA Started ==
  ASSUME TypeInv, NEW c \in Coalitions, Start(c)
  PROVE  \E k \in cycle[c].ready, s \in Cycles :
           /\ s.started = cycle[c].started /\ s.empty = cycle[c].empty
           /\ s.until = cycle[c].until /\ s.running = cycle[c].running
           /\ s.todo = cycle[c].todo /\ s.ready = cycle[c].ready \ {k}
           /\ \/ GiveUp(c, k, s) /\ attempts' = attempts
              \/ /\ cooldown' = cooldown /\ SaveStart(k, cycle[c].plan)
                 /\ \A i \in Numbers(k) : attempts[k][i].plan # cycle[c].plan
                 /\ cycle'[c].started = s.started /\ cycle'[c].empty = s.empty
                 /\ cycle'[c].todo = s.todo /\ cycle'[c].ready = s.ready
                 /\ cycle'[c].running = s.running \union {k} /\ cycle'[c].until = s.until
<1>1. PICK k \in cycle[c].ready :
        LET s == [cycle[c] EXCEPT !.ready = @ \ {k}] IN
        \/ GiveUp(c, k, s) /\ attempts' = attempts
        \/ /\ cooldown' = cooldown /\ SaveStart(k, cycle[c].plan)
           /\ \A i \in Numbers(k) : attempts[k][i].plan # cycle[c].plan
           /\ cycle' = [cycle EXCEPT ![c] = [s EXCEPT !.running = @ \union {k}]]
  BY DEF Start
<1>. DEFINE s == [cycle[c] EXCEPT !.ready = @ \ {k}]
<1>2. k \in Candidates
  BY CycleOfTyped
<1>3. /\ s \in Cycles /\ s.started = cycle[c].started /\ s.empty = cycle[c].empty
      /\ s.until = cycle[c].until /\ s.running = cycle[c].running
      /\ s.todo = cycle[c].todo /\ s.ready = cycle[c].ready \ {k}
  BY <1>2, CycleOfTyped DEF Cycles
<1>4. \/ GiveUp(c, k, s) /\ attempts' = attempts
      \/ /\ cooldown' = cooldown /\ SaveStart(k, cycle[c].plan)
         /\ \A i \in Numbers(k) : attempts[k][i].plan # cycle[c].plan
         /\ cycle' = [cycle EXCEPT ![c] = [s EXCEPT !.running = @ \union {k}]]
  BY <1>1
<1>. HIDE DEF s
<1>5. ASSUME cycle' = [cycle EXCEPT ![c] = [s EXCEPT !.running = @ \union {k}]]
      PROVE  /\ cycle'[c].started = s.started /\ cycle'[c].empty = s.empty
             /\ cycle'[c].todo = s.todo /\ cycle'[c].ready = s.ready
             /\ cycle'[c].running = s.running \union {k} /\ cycle'[c].until = s.until
  <2>1. cycle'[c] = [s EXCEPT !.running = @ \union {k}]
    BY <1>5 DEF TypeInv, TypeOK
  <2>. QED  BY <1>3, <2>1 DEF Cycles
<1>. QED  BY <1>3, <1>4, <1>5

LEMMA Finished ==
  ASSUME TypeInv, NEW c \in Coalitions, Finish(c)
  PROVE  \E k \in cycle[c].running, status \in {"completed", "blocked"} :
           /\ SaveEnd(k, Latest(k), status)
           /\ cycle'[c].started = cycle[c].started /\ cycle'[c].empty = cycle[c].empty
           /\ cycle'[c].todo = cycle[c].todo /\ cycle'[c].ready = cycle[c].ready
           /\ cycle'[c].running = cycle[c].running \ {k}
           /\ cycle'[c].until[k] = now + Cooldown[status]
           /\ cooldown'[k] = Merged(cooldown[k], Cool(now, now, status))
           /\ \A h \in Candidates \ {k} : /\ cycle'[c].until[h] = cycle[c].until[h]
                                          /\ cooldown'[h] = cooldown[h]
<1>1. PICK k \in cycle[c].running, status \in {"completed", "blocked"} :
        /\ SaveEnd(k, Latest(k), status)
        /\ cycle' = [cycle EXCEPT ![c].running = @ \ {k},
                                  ![c].until[k] = now + Cooldown[status]]
        /\ cooldown' = [cooldown EXCEPT ![k] = Merged(@, Cool(now, now, status))]
  BY DEF Finish
<1>. DEFINE u == [cycle[c].until EXCEPT ![k] = now + Cooldown[status]]
            n == [cycle[c] EXCEPT !.running = @ \ {k}, !.until = u]
<1>2. k \in Candidates /\ cycle[c] \in Cycles /\ cycle[c].until \in Untils
  BY CycleOfTyped DEF Cycles
<1>3. u[k] = now + Cooldown[status] /\ \A h \in Candidates \ {k} : u[h] = cycle[c].until[h]
  BY <1>2 DEF Untils
<1>4. cycle'[c] = n
  BY <1>1 DEF TypeInv, TypeOK, Cycles
<1>5. /\ cycle'[c].started = cycle[c].started /\ cycle'[c].empty = cycle[c].empty
      /\ cycle'[c].todo = cycle[c].todo /\ cycle'[c].ready = cycle[c].ready
      /\ cycle'[c].running = cycle[c].running \ {k} /\ cycle'[c].until = u
  <2>. HIDE DEF u
  <2>. QED  BY <1>2, <1>4 DEF Cycles
<1>6. /\ cooldown'[k] = Merged(cooldown[k], Cool(now, now, status))
      /\ \A h \in Candidates \ {k} : cooldown'[h] = cooldown[h]
  BY <1>1, <1>2 DEF TypeInv, TypeOK
<1>. HIDE DEF u, n
<1>. QED  BY <1>1, <1>3, <1>5, <1>6

LEMMA Raised ==
  ASSUME TypeInv, NEW c \in Coalitions, Raise(c)
  PROVE  \E k \in cycle[c].running, s \in Cycles :
           /\ s.started = cycle[c].started /\ s.empty = cycle[c].empty
           /\ s.todo = cycle[c].todo /\ s.ready = cycle[c].ready
           /\ s.running = cycle[c].running \ {k} /\ GiveUp(c, k, s)
<1>1. PICK k \in cycle[c].running : GiveUp(c, k, [cycle[c] EXCEPT !.running = @ \ {k}])
  BY DEF Raise
<1>. DEFINE s == [cycle[c] EXCEPT !.running = @ \ {k}]
<1>2. k \in Candidates
  BY CycleOfTyped
<1>3. /\ s \in Cycles /\ s.started = cycle[c].started /\ s.empty = cycle[c].empty
      /\ s.todo = cycle[c].todo /\ s.ready = cycle[c].ready
      /\ s.running = cycle[c].running \ {k}
  BY <1>2, CycleOfTyped DEF Cycles
<1>4. GiveUp(c, k, s)
  BY <1>1
<1>. HIDE DEF s
<1>. QED  BY <1>3, <1>4

LEMMA ExecutionCadence ==
  ASSUME TypeInv, NEW c \in Coalitions, Cadenced(c),
         Activate(c) \/ Start(c) \/ Finish(c) \/ Raise(c)
  PROVE  Cadenced(c)'
<1>0. /\ Of(c) \subseteq Candidates /\ cycle[c].todo \subseteq Of(c)
      /\ cycle[c].ready \subseteq Of(c) /\ cycle[c].running \subseteq Of(c)
      /\ now \in Time /\ now \in Nat
  BY CycleOfTyped, ConstantTypes DEF Time
<1>1. cycle'[c].started = cycle[c].started /\ cycle'[c].empty = cycle[c].empty
  <2>1. CASE Activate(c)
    <3>1. PICK k \in cycle[c].todo, s \in Cycles :
            /\ s.started = cycle[c].started /\ s.empty = cycle[c].empty
            /\ \/ GiveUp(c, k, s)
               \/ cycle'[c].started = s.started /\ cycle'[c].empty = s.empty
      BY <2>1, Activated
    <3>. QED  BY <1>0, <3>1, GaveUp
  <2>2. CASE Start(c)
    <3>1. PICK k \in cycle[c].ready, s \in Cycles :
            /\ s.started = cycle[c].started /\ s.empty = cycle[c].empty
            /\ \/ GiveUp(c, k, s)
               \/ cycle'[c].started = s.started /\ cycle'[c].empty = s.empty
      BY <2>2, Started
    <3>. QED  BY <1>0, <3>1, GaveUp
  <2>3. CASE Finish(c)
    BY <2>3, Finished
  <2>4. CASE Raise(c)
    BY <1>0, <2>4, Raised, GaveUp
  <2>. QED  BY <2>1, <2>2, <2>3, <2>4
<1>2. UNCHANGED <<last, notBefore, cycles>> /\ now' = now
  BY DEF Activate, Start, Finish, Raise, schedule, audit, world
<1>3. \/ worker'[c] = worker[c]
      \/ worker[c] = "activate" /\ worker'[c] = "execute"
  <2>1. CASE Activate(c)
    <3>1. worker[c] = "activate" /\ \E w \in {"activate", "execute"} : Goto(c, w)
      BY <2>1 DEF Activate
    <3>. QED  BY <3>1 DEF Goto, TypeInv, TypeOK
  <2>2. CASE Start(c) \/ Finish(c) \/ Raise(c)
    BY <2>2 DEF Start, Finish, Raise
  <2>. QED  BY <2>1, <2>2
<1>4. now' \in Time /\ now <= now'
  BY <1>0, <1>2
<1>. QED  BY <1>1, <1>2, <1>3, <1>4, CadenceSame

LEMMA WaitingCadence ==
  ASSUME TypeInv, NEW c \in Coalitions, Cadenced(c),
         Recover(c) \/ BeginCycle(c) \/ FailRecommend(c)
           \/ (Assess(c) /\ worker'[c] # "recommend")
  PROVE  Cadenced(c)'
<1>1. /\ UNCHANGED <<last, notBefore, cycles, cycle>> /\ now' = now
      /\ now' \in Time /\ now <= now'
  <2>1. UNCHANGED <<last, notBefore, cycles>> /\ now' = now
    <3>1. CASE Recover(c) \/ BeginCycle(c)
      BY <3>1, RecoveryApart DEF Apart
    <3>2. CASE FailRecommend(c) \/ Assess(c)
      BY <3>2 DEF FailRecommend, Assess, world, schedule, audit
    <3>. QED  BY <3>1, <3>2
  <2>2. cycle' = cycle
    <3>1. CASE Recover(c) \/ BeginCycle(c)
      BY <3>1, RecoveryApart
    <3>2. CASE FailRecommend(c)
      BY <3>2 DEF FailRecommend
    <3>3. CASE Assess(c) /\ worker'[c] # "recommend"
      BY <3>3 DEF Assess, Goto, TypeInv, TypeOK
    <3>. QED  BY <3>1, <3>2, <3>3
  <2>. QED  BY <2>1, <2>2, CycleOfTyped, ConstantTypes DEF Time
<1>2. \/ worker'[c] = worker[c]
      \/ worker'[c] \in {"stopped", "failed"}
      \/ worker[c] \in Recovering \union {"idle", "ready"}
         /\ worker'[c] \in Recovering \union {"idle", "ready"}
  <2>1. \/ worker[c] \in Recovering \union {"idle", "ready"}
           /\ \E w \in Recovering \union {"idle", "ready", "stopped", "failed"} : Goto(c, w)
        \/ \E w \in {"stopped", "failed"} : Goto(c, w)
        \/ Assess(c) /\ worker'[c] # "recommend"
    <3>1. CASE TakeUp(c) \/ FailRecovery(c) \/ BeginCycle(c) \/ FailRecommend(c)
      BY <3>1 DEF TakeUp, FailRecovery, BeginCycle, FailRecommend, Recovering
    <3>2. CASE Monitor(c) \/ Resume(c) \/ FinishResumed(c)
      BY <3>2 DEF Monitor, Resume, FinishResumed, Recovered, Recovering
    <3>. QED  BY <3>1, <3>2 DEF Recover
  <2>2. CASE Assess(c) /\ worker'[c] # "recommend"
    BY <2>2 DEF Assess, Goto, TypeInv, TypeOK
  <2>3. ASSUME NEW w \in Recovering \union {"idle", "ready", "stopped", "failed"}, Goto(c, w)
        PROVE  worker'[c] = w
    BY <2>3 DEF Goto, TypeInv, TypeOK
  <2>. QED  BY <2>1, <2>2, <2>3
<1>. QED  BY <1>1, <1>2, CadenceSame

LEMMA AssessCadence ==
  ASSUME TypeInv, NEW c \in Coalitions, Cadenced(c), Assess(c), worker'[c] = "recommend"
  PROVE  Cadenced(c)'
<1>1. /\ worker[c] = "ready" /\ UNCHANGED <<last, notBefore, cycles>> /\ now' = now
  BY DEF Assess, world, schedule, audit
<1>2. Due(c) /\ cycle' = [cycle EXCEPT ![c] = [NoCycle EXCEPT !.started = now]]
  BY DEF Assess, Goto, TypeInv, TypeOK
<1>3. cycle'[c].started = now
  BY <1>2 DEF TypeInv, TypeOK, NoCycle
<1>4. CadenceHeld(c)'
  <2>1. ASSUME NEW r \in cycles[c]
        PROVE  /\ now >= r.started + Cadence
               /\ (r.empty /\ \A s \in cycles[c] : s.started <= r.started) =>
                    now >= r.started + Backoff
    <3>1. /\ last[c] # None /\ r.started <= last[c]
          /\ (r.empty /\ \A s \in cycles[c] : s.started <= r.started) =>
               notBefore[c] # None /\ r.started + Backoff <= notBefore[c]
      BY <1>1 DEF Cadenced
    <3>2. /\ last[c] \in Nat /\ (notBefore[c] # None => notBefore[c] \in Nat)
          /\ r.started \in Nat /\ now \in Nat /\ Cadence \in Nat /\ Backoff \in Nat
      BY <3>1, ScheduleTypes
    <3>3. /\ now >= last[c] + Cadence /\ (notBefore[c] # None => now >= notBefore[c])
      BY <1>2, <3>1 DEF Due
    <3>4. now >= r.started + Cadence
      BY <3>1, <3>2, <3>3
    <3>5. ASSUME r.empty, \A s \in cycles[c] : s.started <= r.started
          PROVE  now >= r.started + Backoff
      BY <3>1, <3>2, <3>3, <3>5
    <3>. QED  BY <3>4, <3>5
  <2>. QED  BY <1>1, <1>3, <2>1 DEF CadenceHeld
<1>5. now' \in Nat /\ cycle'[c].started <= now'
  BY <1>1, <1>3, CycleOfTyped, ConstantTypes DEF Time
<1>. QED  BY <1>1, <1>4, <1>5 DEF Cadenced, Recovering

LEMMA RecommendCadence ==
  ASSUME TypeInv, NEW c \in Coalitions, Cadenced(c), Recommend(c)
  PROVE  Cadenced(c)'
<1>1. /\ worker[c] = "recommend" /\ UNCHANGED cycles /\ now' = now
      /\ last' = [last EXCEPT ![c] = cycle[c].started]
  BY DEF Recommend, world, audit
<1>2. PICK S \in SUBSET Of(c) :
         /\ cycle' = [cycle EXCEPT ![c].plan = now, ![c].todo = S, ![c].empty = (S = {})]
         /\ notBefore' = [notBefore EXCEPT ![c] =
                            IF S = {} THEN cycle[c].started + Backoff ELSE None]
         /\ Goto(c, IF S = {} THEN "execute" ELSE "activate")
  BY DEF Recommend, Eligible
<1>. DEFINE n == [cycle[c] EXCEPT !.plan = now, !.todo = S, !.empty = (S = {})]
<1>3. cycle'[c] = n
  BY <1>2 DEF TypeInv, TypeOK
<1>4. cycle'[c].started = cycle[c].started /\ cycle'[c].empty = (S = {})
  BY <1>3, CycleOfTyped DEF Cycles
<1>5. /\ last'[c] = cycle[c].started
      /\ notBefore'[c] = IF S = {} THEN cycle[c].started + Backoff ELSE None
      /\ worker'[c] \in {"activate", "execute"}
  BY <1>1, <1>2 DEF Goto, TypeInv, TypeOK
<1>6. \A r \in cycles[c] : r.started < cycle[c].started
  <2>. SUFFICES ASSUME NEW r \in cycles[c] PROVE r.started < cycle[c].started
    OBVIOUS
  <2>1. cycle[c].started >= r.started + Cadence
    BY <1>1 DEF Cadenced, CadenceHeld
  <2>2. r.started \in Nat /\ cycle[c].started \in Nat /\ Cadence \in Nat /\ Cadence > 0
    BY ScheduleTypes
  <2>. QED  BY <2>1, <2>2
<1>. HIDE DEF n
<1>. QED  BY <1>1, <1>4, <1>5, <1>6 DEF Cadenced, Recovering

LEMMA RetainCadence ==
  ASSUME TypeInv, NEW c \in Coalitions, Cadenced(c), Retain(c)
  PROVE  Cadenced(c)'
<1>. DEFINE x == [started |-> cycle[c].started, until |-> cycle[c].until,
                  empty |-> cycle[c].empty]
<1>1. /\ worker[c] = "execute" /\ cycle' = [cycle EXCEPT ![c] = NoCycle]
      /\ UNCHANGED <<last, notBefore>> /\ now' = now
      /\ \/ cycles' = [cycles EXCEPT ![c] = @ \union {x}]
            /\ \E w \in {"idle", "stopped", "failed"} : Goto(c, w)
         \/ cycles' = cycles /\ \E w \in {"stopped", "failed"} : Goto(c, w)
  BY DEF Retain, world, schedule
<1>2. cycle'[c].started = 0 /\ x.started = cycle[c].started /\ x.empty = cycle[c].empty
  BY <1>1 DEF TypeInv, TypeOK, NoCycle
<1>3. /\ last[c] = cycle[c].started /\ cycle[c].started <= now
      /\ \A r \in cycles[c] : r.started < cycle[c].started /\ r.started <= now
      /\ \A r, s \in cycles[c] : r.started = s.started => r = s
      /\ cycle[c].empty => notBefore[c] = cycle[c].started + Backoff
  BY <1>1 DEF Cadenced
<1>4. /\ now \in Nat /\ cycle[c].started \in Nat /\ \A r \in cycles[c] : r.started \in Nat
      /\ last[c] \in Nat /\ last[c] # None /\ cycle[c].started + Backoff \in Nat
      /\ cycle[c].started + Backoff # None
  BY <1>3, ScheduleTypes, NoneApart
<1>. HIDE DEF x
<1>5. CASE cycles' = cycles /\ \E w \in {"stopped", "failed"} : Goto(c, w)
  <2>1. worker'[c] \in {"stopped", "failed"}
    BY <1>5 DEF Goto, TypeInv, TypeOK
  <2>2. \A r \in cycles[c] : r.started <= now'
    BY <1>1, <1>3
  <2>. QED  BY <1>1, <1>2, <1>3, <1>4, <1>5, <2>1, <2>2 DEF Cadenced, Recovering
<1>6. CASE /\ cycles' = [cycles EXCEPT ![c] = @ \union {x}]
           /\ \E w \in {"idle", "stopped", "failed"} : Goto(c, w)
  <2>1. cycles'[c] = cycles[c] \union {x} /\ worker'[c] \in {"idle", "stopped", "failed"}
    BY <1>6 DEF Goto, TypeInv, TypeOK
  <2>2. \A r \in cycles[c] \union {x} : r.started <= now /\ r.started <= last[c]
    <3>1. x.started <= now /\ x.started <= last[c]
      BY <1>2, <1>3, <1>4
    <3>2. \A r \in cycles[c] : r.started <= last[c]
      BY <1>3, <1>4
    <3>. QED  BY <1>3, <3>1, <3>2
  <2>3. \A r \in cycles[c] : r.started # x.started /\ ~(x.started <= r.started)
    BY <1>2, <1>3, <1>4
  <2>4. \A r, s \in cycles[c] \union {x} : r.started = s.started => r = s
    BY <1>3, <2>3
  <2>5. \A r \in cycles[c] \union {x} :
          (r.empty /\ \A s \in cycles[c] \union {x} : s.started <= r.started) =>
             notBefore[c] # None /\ r.started + Backoff <= notBefore[c]
    <3>1. \A r \in cycles[c] \union {x} :
            (\A s \in cycles[c] \union {x} : s.started <= r.started) => r = x
      BY <2>3
    <3>2. x.empty => notBefore[c] # None /\ x.started + Backoff <= notBefore[c]
      <4>1. ASSUME x.empty PROVE notBefore[c] = x.started + Backoff
        BY <1>2, <1>3, <4>1
      <4>. QED  BY <1>2, <1>4, <4>1
    <3>. QED  BY <3>1, <3>2
  <2>6. cycle'[c].started <= now'
    BY <1>1, <1>2, <1>4
  <2>. QED  BY <1>1, <1>4, <2>1, <2>2, <2>4, <2>5, <2>6 DEF Cadenced
<1>. QED  BY <1>1, <1>5, <1>6

LEMMA RestartCadence ==
  ASSUME TypeInv, NEW c \in Coalitions, Cadenced(c), RestartClient
  PROVE  Cadenced(c)'
<1>1. /\ worker'[c] = "idle" /\ cycle'[c] = NoCycle /\ cycles' = cycles /\ now' = now
      /\ last'[c] = RestoredLast(c) /\ notBefore'[c] = RestoredNotBefore(c)
  BY DEF RestartClient, world, audit
<1>2. cycle'[c].started = 0 /\ now \in Nat
  BY <1>1, ScheduleTypes DEF NoCycle
<1>3. CASE cycles[c] = {}
  BY <1>1, <1>2, <1>3 DEF Cadenced
<1>4. CASE cycles[c] # {}
  <2>1. PICK m \in cycles[c] : m = LatestCycle(cycles[c])
                               /\ \A s \in cycles[c] : s.started <= m.started
    <3>1. cycles[c] \in SUBSET SavedCycles
      BY DEF TypeInv, TypeOK
    <3>. QED  BY <1>4, <3>1, LatestCycleExists
  <2>2. /\ last'[c] = m.started
        /\ m.empty => notBefore'[c] = m.started + Backoff
    BY <1>1, <1>4, <2>1 DEF RestoredLast, RestoredNotBefore
  <2>3. m.started \in Nat /\ m.started # None /\ m.started + Backoff \in Nat
        /\ m.started + Backoff # None /\ \A r \in cycles[c] : r.started \in Nat
    BY ScheduleTypes, NoneApart
  <2>4. ASSUME NEW r \in cycles[c], \A s \in cycles[c] : s.started <= r.started
        PROVE  r = m
    <3>1. m.started <= r.started /\ r.started <= m.started
      BY <2>1, <2>4
    <3>2. m.started = r.started
      BY <2>3, <3>1
    <3>. QED  BY <3>2 DEF Cadenced
  <2>5. \A r \in cycles[c] :
          /\ last'[c] # None /\ r.started <= last'[c]
          /\ (r.empty /\ \A s \in cycles[c] : s.started <= r.started) =>
               notBefore'[c] # None /\ r.started + Backoff <= notBefore'[c]
    BY <2>1, <2>2, <2>3, <2>4
  <2>. QED  BY <1>1, <1>2, <2>5 DEF Cadenced
<1>. QED  BY <1>3, <1>4

LEMMA InitCadence == Init => CadenceInv
<1>. SUFFICES ASSUME Init PROVE CadenceInv
  OBVIOUS
<1>1. TypeInv
  BY InitTypes
<1>2. ASSUME NEW c \in Coalitions PROVE Cadenced(c)
  <2>1. worker[c] = "idle" /\ cycles[c] = {} /\ cycle[c].started <= now
    <3>1. worker[c] = "idle" /\ cycles[c] = {} /\ cycle[c] = NoCycle /\ now = 0
      BY DEF Init
    <3>. QED  BY <3>1 DEF NoCycle
  <2>. QED  BY <2>1 DEF Cadenced
<1>. QED  BY <1>1, <1>2 DEF CadenceInv

\* A step that concerns neither workers nor the audit.
LEMMA WorldSame ==
  ASSUME TypeInv, AdvanceClock \/ EndMission \/ Learn \/ UNCHANGED vars
  PROVE  /\ UNCHANGED <<worker, cycle, hand, interrupted, last, notBefore, cooldown,
                        attempts, cycles, mishaps>>
         /\ now' \in Time /\ now <= now'
<1>1. UNCHANGED <<worker, cycle, hand, interrupted, last, notBefore, cooldown,
                  attempts, cycles, mishaps>>
  BY DEF AdvanceClock, EndMission, Learn, vars, world, recovery, schedule, audit, bounds
<1>2. now' = now \/ (now < MaxTime /\ now' = now + 1)
  BY DEF AdvanceClock, EndMission, Learn, vars, world
<1>3. now \in 0 .. MaxTime /\ MaxTime \in Nat
  BY ConstantTypes DEF TypeInv, TypeOK, Time
<1>. QED  BY <1>1, <1>2, <1>3 DEF Time

LEMMA NextCadence == CadenceInv /\ [Next]_vars => CadenceInv'
<1>. SUFFICES ASSUME CadenceInv, [Next]_vars PROVE \A c \in Coalitions : Cadenced(c)'
  BY NextTypes DEF CadenceInv
<1>1. TypeInv /\ \A c \in Coalitions : Cadenced(c)
  BY DEF CadenceInv
<1>2. CASE AdvanceClock \/ EndMission \/ Learn \/ UNCHANGED vars
  BY <1>1, <1>2, WorldSame, CadenceSame
<1>3. CASE RestartClient
  BY <1>1, <1>3, RestartCadence
<1>4. ASSUME NEW c \in Coalitions, Recover(c) \/ BeginCycle(c) \/ RunCycle(c),
             NEW d \in Coalitions
      PROVE  Cadenced(d)'
  <2>1. Apart(c) /\ Elsewhere(c)
    BY <1>1, <1>4, RecoveryApart, CycleApart, RecoverTypes, BeginCycleTypes, RunCycleTypes
  <2>2. CASE d # c
    <3>1. /\ worker'[d] = worker[d] /\ cycle'[d] = cycle[d] /\ now' = now
          /\ last'[d] = last[d] /\ notBefore'[d] = notBefore[d] /\ cycles'[d] = cycles[d]
      BY <2>1, <2>2 DEF Apart, Elsewhere
    <3>2. now' \in Time /\ now <= now'
      BY <1>1, <3>1, CycleOfTyped, ConstantTypes DEF Time
    <3>. QED  BY <1>1, <3>1, <3>2, CadenceSame
  <2>3. CASE d = c
    BY <1>1, <1>4, <2>3, WaitingCadence, AssessCadence, RecommendCadence, ExecutionCadence,
       RetainCadence DEF RunCycle
  <2>. QED  BY <2>2, <2>3
<1>. QED  BY <1>2, <1>3, <1>4 DEF Next

-----------------------------------------------------------------------------
(* The cooldowns.                                                          *)

\* The end of the cooldown that an attempt began when it ended.
CoolUntil(a) == a.ended + Cooldown[a.status]

\* The last attempt of a candidate has ended.
Rests(k) == Latest(k) # 0 /\ attempts[k][Latest(k)].status # "executing"

LastAtPlan(k, i) ==
    \A n \in Numbers(k) : attempts[k][n].plan = attempts[k][i].plan => n <= i

\* The attempts of a candidate follow each other, and between those at
\* different plans lies the cooldown.
Ordered(k) ==
    /\ \A i \in Numbers(k) : /\ attempts[k][i].started <= attempts[k][i].ended
                             /\ attempts[k][i].ended <= now
    /\ \A i : Runs(k, i) => i = Latest(k)
    /\ \A i \in Numbers(k) : i # Latest(k) =>
         /\ attempts[k][i].ended <= attempts[k][Latest(k)].started
         /\ LastAtPlan(k, i) => CoolUntil(attempts[k][i]) <= attempts[k][Latest(k)].started

\* The cooldown in memory lasts as long as the last attempt demands, from its
\* end or the end of its recovery, and is older than what is to be recovered.
Remembered(c, k) ==
    /\ cooldown[k] # None => cooldown[k].since <= now
    /\ (/\ Rests(k) /\ worker[c] \notin {"stopped", "failed"}
        /\ ~(worker[c] = "revalidate" /\ Held(c, k))) =>
         cooldown[k] # None /\ CoolUntil(attempts[k][Latest(k)]) <= cooldown[k].until
    /\ \A x \in interrupted[c] : x[1] = k =>
         /\ x[2] = Latest(k)
         /\ cooldown[k] # None => cooldown[k].since <= attempts[k][x[2]].started
    /\ (worker[c] \in Recovering /\ Held(c, k)) =>
         /\ cooldown[k] # None => cooldown[k].since <= attempts[k][hand[c][2]].started
         /\ worker[c] # "resumed" => hand[c][2] = Latest(k)
         /\ worker[c] = "revalidate" => attempts[k][Latest(k)].status = "blocked"

\* What a cycle says of the end of the cooldown does not hide one that ends later.
Covers(k, started, until) ==
    (until # None /\ Latest(k) # 0) =>
        LET a == attempts[k][Latest(k)] IN
        IF a.status = "executing" THEN started <= a.started
        ELSE CoolUntil(a) <= until \/ started <= a.ended

\* The cycles on record and the one under way; what it selected has cooled down.
Selected(c, k) ==
    /\ \A r \in cycles[c] : Covers(k, r.started, r.until[k])
    /\ Rests(k) => Covers(k, cycle[c].started, cycle[c].until[k])
    /\ (k \in cycle[c].todo \union cycle[c].ready /\ Rests(k)) =>
         CoolUntil(attempts[k][Latest(k)]) <= cycle[c].started

Cooled(c, k) == Ordered(k) /\ Remembered(c, k) /\ Selected(c, k)

CooledInv ==
    /\ CadenceInv /\ LimitInv
    /\ mishaps = 0 => \A c \in Coalitions : \A k \in Of(c) : Cooled(c, k)

-----------------------------------------------------------------------------
(* What cooldowns are, and what is kept by what leaves an attempt alone.   *)

LEMMA AttemptTypes ==
  ASSUME TypeInv, NEW k \in Candidates
  PROVE  /\ Latest(k) \in Nat /\ Numbers(k) = 1 .. Latest(k) /\ now \in Nat
         /\ \A i \in Numbers(k) :
              /\ attempts[k][i].started \in Nat /\ attempts[k][i].ended \in Nat
              /\ attempts[k][i].status \in {"executing", "blocked", "completed"}
              /\ attempts[k][i].status # "executing" =>
                   /\ Cooldown[attempts[k][i].status] \in Nat
                   /\ CoolUntil(attempts[k][i]) \in Nat
                   /\ attempts[k][i].ended <= CoolUntil(attempts[k][i])
<1>1. attempts[k] \in Seq(Attempts) /\ Time \subseteq Nat /\ now \in Nat
  BY ConstantTypes DEF TypeInv, TypeOK, Time
<1>2. Latest(k) \in Nat /\ Numbers(k) = 1 .. Latest(k)
  BY <1>1 DEF Latest, Numbers
<1>3. ASSUME NEW i \in Numbers(k)
      PROVE  /\ attempts[k][i].started \in Nat /\ attempts[k][i].ended \in Nat
             /\ attempts[k][i].status \in {"executing", "blocked", "completed"}
             /\ attempts[k][i].status # "executing" =>
                  /\ Cooldown[attempts[k][i].status] \in Nat
                  /\ CoolUntil(attempts[k][i]) \in Nat
                  /\ attempts[k][i].ended <= CoolUntil(attempts[k][i])
  <2>1. attempts[k][i] \in Attempts
    BY <1>1 DEF Numbers
  <2>2. /\ attempts[k][i].started \in Nat /\ attempts[k][i].ended \in Nat
        /\ attempts[k][i].status \in {"executing", "blocked", "completed"}
    BY <1>1, <2>1 DEF Attempts
  <2>3. attempts[k][i].status # "executing" => Cooldown[attempts[k][i].status] \in Nat
    BY <2>2, CoordinatorAssumption
  <2>. QED  BY <2>2, <2>3 DEF CoolUntil
<1>. QED  BY <1>1, <1>2, <1>3

\* A cooldown that replaces one that began no later lasts as it says, or longer.
LEMMA MergedUntil ==
  ASSUME NEW old \in Cooldowns \union {None}, NEW new \in Cooldowns,
         old # None => old.since <= new.since
  PROVE  /\ Merged(old, new) # None /\ new.until <= Merged(old, new).until
         /\ Merged(old, new).since = new.since
<1>1. new # None /\ new.since \in Nat /\ new.until \in Nat
  BY NoneApart, ConstantTypes DEF Cooldowns, Time
<1>2. CASE old = None
  BY <1>1, <1>2 DEF Merged
<1>3. CASE old # None
  <2>1. old.since \in Nat /\ old.until \in Nat
    BY <1>3, ConstantTypes DEF Cooldowns, Time
  <2>2. CASE AtMost(old, new)
    BY <1>1, <2>2 DEF Merged
  <2>3. CASE ~AtMost(old, new)
    <3>1. old.since = new.since /\ new.until <= old.until
      BY <1>1, <1>3, <2>1, <2>3 DEF AtMost
    <3>. QED  BY <1>3, <2>3, <3>1 DEF Merged
  <2>. QED  BY <2>2, <2>3
<1>. QED  BY <1>2, <1>3

LEMMA CoolIs ==
  ASSUME NEW since, NEW end, NEW status
  PROVE  /\ Cool(since, end, status).since = since
         /\ Cool(since, end, status).until = end + Cooldown[status]
  BY DEF Cool

LEMMA OrderedSame ==
  ASSUME TypeInv, NEW k \in Candidates, Ordered(k), attempts'[k] = attempts[k],
         now' \in Time, now <= now'
  PROVE  Ordered(k)'
<1>1. /\ Latest(k)' = Latest(k) /\ Numbers(k)' = Numbers(k)
      /\ (\A i : Runs(k, i)' <=> Runs(k, i))
      /\ (\A i : LastAtPlan(k, i)' <=> LastAtPlan(k, i))
  BY DEF Latest, Numbers, Runs, LastAtPlan
<1>2. \A i \in Numbers(k) : attempts[k][i].ended <= now'
  <2>1. now \in Nat /\ now' \in Nat /\ \A i \in Numbers(k) : attempts[k][i].ended \in Nat
    BY AttemptTypes, ConstantTypes DEF Time
  <2>. QED  BY <2>1 DEF Ordered
<1>. QED  BY <1>1, <1>2 DEF Ordered

LEMMA RememberedSame ==
  ASSUME TypeInv, NEW c \in Coalitions, NEW k \in Of(c), Remembered(c, k),
         attempts'[k] = attempts[k], cooldown'[k] = cooldown[k],
         now' \in Time, now <= now', interrupted'[c] \subseteq interrupted[c],
         \/ worker'[c] \in {"stopped", "failed"}
         \/ worker'[c] = worker[c] /\ hand'[c] = hand[c]
         \/ worker[c] \notin {"stopped", "failed"} /\ ~Held(c, k) /\ ~Held(c, k)'
  PROVE  Remembered(c, k)'
<1>1. Latest(k)' = Latest(k) /\ Rests(k)' = Rests(k)
  BY DEF Latest, Rests
<1>2. cooldown'[k] # None => cooldown'[k].since <= now'
  <2>1. now \in Nat /\ now' \in Nat
    BY CycleOfTyped, ConstantTypes DEF Time
  <2>2. k \in Candidates /\ (cooldown[k] # None => cooldown[k].since \in Nat)
    BY ConstantTypes DEF Of, TypeInv, TypeOK, Cooldowns, Time
  <2>. QED  BY <2>1, <2>2 DEF Remembered
<1>3. (/\ Rests(k)' /\ worker'[c] \notin {"stopped", "failed"}
       /\ ~(worker'[c] = "revalidate" /\ Held(c, k)')) =>
         cooldown'[k] # None /\ CoolUntil(attempts'[k][Latest(k)]) <= cooldown'[k].until
  BY <1>1 DEF Remembered, Held
<1>4. \A x \in interrupted'[c] : x[1] = k =>
         /\ x[2] = Latest(k)
         /\ cooldown'[k] # None => cooldown'[k].since <= attempts'[k][x[2]].started
  BY DEF Remembered
<1>5. (worker'[c] \in Recovering /\ Held(c, k)') =>
         /\ cooldown'[k] # None => cooldown'[k].since <= attempts'[k][hand'[c][2]].started
         /\ worker'[c] # "resumed" => hand'[c][2] = Latest(k)
         /\ worker'[c] = "revalidate" => attempts'[k][Latest(k)].status = "blocked"
  BY DEF Remembered, Held, Recovering
<1>. QED  BY <1>1, <1>2, <1>3, <1>4, <1>5 DEF Remembered, CoolUntil

LEMMA SelectedSame ==
  ASSUME NEW c \in Coalitions, NEW k \in Of(c), Selected(c, k),
         attempts'[k] = attempts[k], cycles'[c] = cycles[c],
         k \in cycle'[c].todo \union cycle'[c].ready =>
           k \in cycle[c].todo \union cycle[c].ready,
         \/ cycle'[c].started = cycle[c].started /\ cycle'[c].until[k] = cycle[c].until[k]
         \/ cycle'[c].until[k] = None /\ k \notin cycle'[c].todo \union cycle'[c].ready
  PROVE  Selected(c, k)'
<1>1. /\ Latest(k)' = Latest(k) /\ Rests(k)' = Rests(k)
      /\ \A s, u : Covers(k, s, u)' <=> Covers(k, s, u)
  BY DEF Latest, Rests, Covers, CoolUntil
<1>2. \A r \in cycles'[c] : Covers(k, r.started, r.until[k])
  BY DEF Selected
<1>3. Rests(k) => Covers(k, cycle'[c].started, cycle'[c].until[k])
  <2>1. CASE cycle'[c].until[k] = None
    BY <2>1 DEF Covers
  <2>2. CASE cycle'[c].started = cycle[c].started /\ cycle'[c].until[k] = cycle[c].until[k]
    BY <2>2 DEF Selected
  <2>. QED  BY <2>1, <2>2
<1>4. (k \in cycle'[c].todo \union cycle'[c].ready /\ Rests(k)) =>
         CoolUntil(attempts'[k][Latest(k)]) <= cycle'[c].started
  BY DEF Selected
<1>. QED  BY <1>1, <1>2, <1>3, <1>4 DEF Selected, CoolUntil

-----------------------------------------------------------------------------
(* What the snapshots of the last attempt do.                              *)

\* The last attempt ends, in one way or another: no cycle began after it did.
LEMMA EndOrdered ==
  ASSUME CadenceInv, NEW c \in Coalitions, NEW k \in Of(c), Ordered(k), Selected(c, k),
         mishaps' = 0, Runs(k, Latest(k)),
         NEW status \in {"completed", "blocked"}, SaveEnd(k, Latest(k), status),
         cycles'[c] = cycles[c], now' = now, cycle'[c].started = cycle[c].started,
         k \notin cycle'[c].todo \union cycle'[c].ready
  PROVE  /\ Ordered(k)' /\ Selected(c, k)' /\ Latest(k)' = Latest(k)
         /\ \A i \in Numbers(k) : attempts'[k][i].started = attempts[k][i].started
         /\ attempts'[k][Latest(k)].status = status
         /\ CoolUntil(attempts'[k][Latest(k)]) = now + Cooldown[status]
<1>0. TypeInv /\ Cadenced(c) /\ k \in Candidates /\ Latest(k) \in Numbers(k)
  BY DEF CadenceInv, Of, Runs
<1>1. /\ Numbers(k) = 1 .. Latest(k) /\ Latest(k) \in Nat
      /\ Numbers(k)' = Numbers(k) /\ Latest(k)' = Latest(k)
      /\ \A j \in Numbers(k) \ {Latest(k)} : attempts'[k][j] = attempts[k][j]
      /\ attempts'[k][Latest(k)].plan = attempts[k][Latest(k)].plan
      /\ attempts'[k][Latest(k)].started = attempts[k][Latest(k)].started
      /\ attempts'[k][Latest(k)].status = status /\ attempts'[k][Latest(k)].ended = now
  <2>1. mishaps' # mishaps + 1
    BY <1>0, ConstantTypes DEF TypeInv, TypeOK
  <2>. QED  BY <1>0, <2>1, EndSaved DEF TypeInv
<1>2. \A i \in Numbers(k) : /\ attempts'[k][i].started = attempts[k][i].started
                            /\ attempts'[k][i].plan = attempts[k][i].plan
  BY <1>1
<1>3. CoolUntil(attempts'[k][Latest(k)]) = now + Cooldown[status]
  BY <1>1 DEF CoolUntil
<1>4. Ordered(k)'
  <2>1. \A i \in Numbers(k) : /\ attempts'[k][i].started <= attempts'[k][i].ended
                              /\ attempts'[k][i].ended <= now
    <3>1. attempts[k][Latest(k)].started <= now
      <4>1. /\ attempts[k][Latest(k)].started \in Nat /\ attempts[k][Latest(k)].ended \in Nat
            /\ now \in Nat
        BY <1>0, AttemptTypes
      <4>2. /\ attempts[k][Latest(k)].started <= attempts[k][Latest(k)].ended
            /\ attempts[k][Latest(k)].ended <= now
        BY <1>0 DEF Ordered
      <4>. QED  BY <4>1, <4>2
    <3>2. now <= now
      BY <1>0, AttemptTypes
    <3>. QED  BY <1>1, <3>1, <3>2 DEF Ordered
  <2>2. \A i : ~Runs(k, i)'
    BY <1>0, <1>1 DEF Runs, Ordered
  <2>3. \A i : LastAtPlan(k, i)' /\ i \in Numbers(k) => LastAtPlan(k, i)
    BY <1>1, <1>2 DEF LastAtPlan
  <2>4. \A i \in Numbers(k) : i # Latest(k) =>
         /\ attempts'[k][i].ended <= attempts'[k][Latest(k)].started
         /\ LastAtPlan(k, i)' => CoolUntil(attempts'[k][i]) <= attempts'[k][Latest(k)].started
    BY <1>1, <2>3 DEF Ordered
  <2>. QED  BY <1>1, <2>1, <2>2, <2>4 DEF Ordered, CoolUntil
<1>5. Selected(c, k)'
  <2>1. \A s, u : s <= now => Covers(k, s, u)'
    BY <1>1 DEF Covers
  <2>2. \A r \in cycles[c] : r.started <= now
    BY <1>0 DEF Cadenced
  <2>3. cycle'[c].started <= now
    BY <1>0 DEF Cadenced
  <2>. QED  BY <2>1, <2>2, <2>3 DEF Selected
<1>. QED  BY <1>1, <1>2, <1>3, <1>4, <1>5

\* The next attempt starts when all cooldowns are over, but for that of an
\* attempt at the plan that it goes on with.
LEMMA StartOrdered ==
  ASSUME CadenceInv, NEW c \in Coalitions, NEW k \in Of(c), Ordered(k), Selected(c, k),
         \A i : ~Runs(k, i), NEW plan \in Time, SaveStart(k, plan),
         \A i \in Numbers(k) : (attempts[k][i].plan # plan /\ LastAtPlan(k, i)) =>
            CoolUntil(attempts[k][i]) <= now,
         cycles'[c] = cycles[c], now' = now
  PROVE  /\ Ordered(k)' /\ Selected(c, k)' /\ ~Rests(k)'
         /\ \A i \in Numbers(k) : attempts'[k][i] = attempts[k][i]
<1>0. TypeInv /\ Cadenced(c) /\ k \in Candidates
  BY DEF CadenceInv, Of
<1>. DEFINE m == Latest(k) + 1
<1>1. /\ Numbers(k) = 1 .. Latest(k) /\ Latest(k) \in Nat
      /\ Latest(k)' = m /\ Numbers(k)' = 1 .. m
      /\ \A i \in Numbers(k) : attempts'[k][i] = attempts[k][i]
      /\ attempts'[k][m].plan = plan /\ attempts'[k][m].status = "executing"
      /\ attempts'[k][m].started = now /\ attempts'[k][m].ended = now
  BY <1>0, StartSaved DEF TypeInv
<1>2. /\ m \in Nat /\ m \in 1 .. m /\ now \in Nat /\ m # 0
      /\ \A i \in 1 .. m : i # m => i \in Numbers(k)
      /\ \A i \in Numbers(k) : i \in 1 .. m /\ ~(m <= i)
  BY <1>0, <1>1, AttemptTypes
<1>. HIDE DEF m
<1>3. ~Rests(k)'
  BY <1>1 DEF Rests
<1>4. Ordered(k)'
  <2>1. \A i \in 1 .. m : /\ attempts'[k][i].started <= attempts'[k][i].ended
                          /\ attempts'[k][i].ended <= now
    <3>1. now <= now
      BY <1>2
    <3>. QED  BY <1>1, <1>2, <3>1 DEF Ordered
  <2>2. \A i : Runs(k, i)' => i = m
    BY <1>1, <1>2 DEF Runs
  <2>3. ASSUME NEW i \in Numbers(k)
        PROVE  /\ attempts[k][i].ended <= now
               /\ LastAtPlan(k, i)' => CoolUntil(attempts[k][i]) <= now
    <3>1. attempts[k][i].ended <= now
      BY DEF Ordered
    <3>2. ASSUME LastAtPlan(k, i)' PROVE CoolUntil(attempts[k][i]) <= now
      <4>1. \A n \in 1 .. m : attempts'[k][n].plan = attempts'[k][i].plan => n <= i
        BY <1>1, <3>2 DEF LastAtPlan
      <4>2. attempts[k][i].plan # plan
        BY <1>1, <1>2, <4>1
      <4>3. LastAtPlan(k, i)
        BY <1>1, <1>2, <4>1 DEF LastAtPlan
      <4>. QED  BY <4>2, <4>3
    <3>. QED  BY <3>1, <3>2
  <2>4. \A i \in 1 .. m : i # m =>
         /\ attempts'[k][i].ended <= attempts'[k][m].started
         /\ LastAtPlan(k, i)' => CoolUntil(attempts'[k][i]) <= attempts'[k][m].started
    BY <1>1, <1>2, <2>3
  <2>. QED  BY <1>1, <2>1, <2>2, <2>4 DEF Ordered, CoolUntil
<1>5. Selected(c, k)'
  <2>1. \A s, u : s <= now => Covers(k, s, u)'
    BY <1>1 DEF Covers
  <2>2. \A r \in cycles[c] : r.started <= now
    BY <1>0 DEF Cadenced
  <2>. QED  BY <1>3, <2>1, <2>2 DEF Selected
<1>. QED  BY <1>1, <1>3, <1>4, <1>5

\* After an end, the cooldown in memory lasts as it demands.
LEMMA EndRemembered ==
  ASSUME CadenceInv, NEW c \in Coalitions, NEW k \in Of(c),
         NEW since \in Time, NEW status \in {"completed", "blocked", "failed"},
         cooldown[k] # None => cooldown[k].since <= since, since <= now, now' = now,
         cooldown'[k] = Merged(cooldown[k], Cool(since, now, status)),
         NEW t \in Nat, t <= now + Cooldown[status],
         Rests(k)' => CoolUntil(attempts'[k][Latest(k)']) = t,
         \A x \in interrupted'[c] : x[1] # k, ~Held(c, k)'
  PROVE  Remembered(c, k)'
<1>. DEFINE new == Cool(since, now, status)
<1>1. /\ k \in Candidates /\ now \in Time /\ TypeInv /\ now + Cooldown[status] \in Nat
  BY CycleOfTyped, ConstantTypes DEF CadenceInv, Of
<1>2. /\ new \in Cooldowns /\ cooldown[k] \in Cooldowns \union {None}
      /\ new.since = since /\ new.until = now + Cooldown[status]
  BY <1>1, CoolTyped, CoolIs DEF TypeInv, TypeOK
<1>. HIDE DEF new
<1>3. /\ cooldown'[k] # None /\ new.until <= cooldown'[k].until
      /\ cooldown'[k].since = since /\ cooldown'[k].until \in Nat
  <2>1. cooldown'[k] = Merged(cooldown[k], new)
    BY DEF new
  <2>2. cooldown'[k] # None /\ new.until <= cooldown'[k].until /\ cooldown'[k].since = since
    BY <1>2, <2>1, MergedUntil
  <2>3. cooldown'[k] \in Cooldowns
    BY <1>2, <2>1, <2>2, MergedTyped
  <2>. QED  BY <2>2, <2>3 DEF Cooldowns
<1>4. t <= cooldown'[k].until
  BY <1>1, <1>2, <1>3
<1>. QED  BY <1>3, <1>4 DEF Remembered

-----------------------------------------------------------------------------
(* The steps of a recovery.                                                *)

\* A worker at a recovery or a cycle, with what else it needs.
LEMMA CoolTypes ==
  ASSUME CadenceInv
  PROVE  TypeInv /\ now \in Time /\ now <= now
  BY CycleOfTyped, ConstantTypes DEF CadenceInv, TypeInv, TypeOK, Time

\* A candidate that the step is not about.
LEMMA OtherCooled ==
  ASSUME CadenceInv, NEW c \in Coalitions, NEW k \in Of(c), Cooled(c, k), now' = now,
         attempts'[k] = attempts[k], cooldown'[k] = cooldown[k], cycles'[c] = cycles[c],
         interrupted'[c] \subseteq interrupted[c],
         \/ worker'[c] \in {"stopped", "failed"}
         \/ worker'[c] = worker[c] /\ hand'[c] = hand[c]
         \/ worker[c] \notin {"stopped", "failed"} /\ ~Held(c, k) /\ ~Held(c, k)',
         k \in cycle'[c].todo \union cycle'[c].ready =>
           k \in cycle[c].todo \union cycle[c].ready,
         \/ cycle'[c].started = cycle[c].started /\ cycle'[c].until[k] = cycle[c].until[k]
         \/ cycle'[c].until[k] = None /\ k \notin cycle'[c].todo \union cycle'[c].ready
  PROVE  Cooled(c, k)'
<1>1. TypeInv /\ now' \in Time /\ now <= now' /\ k \in Candidates
  BY CoolTypes DEF Of
<1>2. Ordered(k)'
  BY <1>1, OrderedSame DEF Cooled
<1>3. Remembered(c, k)'
  BY <1>1, RememberedSame DEF Cooled
<1>4. Selected(c, k)'
  BY SelectedSame DEF Cooled
<1>. QED  BY <1>2, <1>3, <1>4 DEF Cooled

LEMMA TakeUpCooled ==
  ASSUME CadenceInv, NEW c \in Coalitions, \A k \in Of(c) : Cooled(c, k), TakeUp(c)
  PROVE  \A k \in Of(c) : Cooled(c, k)'
<1>. SUFFICES ASSUME NEW k \in Of(c) PROVE Cooled(c, k)'
  OBVIOUS
<1>1. PICK x \in interrupted[c] :
         /\ hand' = [hand EXCEPT ![c] = x]
         /\ interrupted' = [interrupted EXCEPT ![c] = @ \ {x}]
  BY DEF TakeUp
<1>2. /\ worker[c] = "idle" /\ worker' = [worker EXCEPT ![c] = "monitor"]
      /\ UNCHANGED <<cycle, cooldown, attempts, cycles>> /\ now' = now
  BY DEF TakeUp, Goto, world, audit
<1>3. TypeInv /\ now' \in Time /\ now <= now' /\ k \in Candidates
  BY <1>2, CoolTypes DEF Of
<1>4. /\ worker'[c] = "monitor" /\ hand'[c] = x /\ interrupted'[c] = interrupted[c] \ {x}
      /\ hand[c] = None /\ ~Held(c, k)
  BY <1>1, <1>2, <1>3 DEF TypeInv, TypeOK, InPlace, Held
<1>5. Ordered(k)' /\ Selected(c, k)'
  BY <1>2, <1>3, OrderedSame, SelectedSame DEF Cooled
<1>6. Remembered(c, k)'
  <2>1. CASE x[1] # k
    <3>1. ~Held(c, k)'
      BY <1>4, <2>1 DEF Held
    <3>. QED  BY <1>2, <1>3, <1>4, <3>1, RememberedSame DEF Cooled
  <2>2. CASE x[1] = k
    <3>1. Remembered(c, k)
      BY DEF Cooled
    <3>2. Latest(k)' = Latest(k) /\ Rests(k)' = Rests(k)
      BY <1>2 DEF Latest, Rests
    <3>3. /\ x[2] = Latest(k)
          /\ cooldown[k] # None => cooldown[k].since <= attempts[k][x[2]].started
      BY <2>2, <3>1 DEF Remembered
    <3>4. Rests(k) => cooldown[k] # None /\ CoolUntil(attempts[k][Latest(k)]) <= cooldown[k].until
      BY <1>2, <3>1 DEF Remembered
    <3>5. cooldown[k] # None => cooldown[k].since <= now
      BY <3>1 DEF Remembered
    <3>6. \A y \in interrupted'[c] : y[1] = k =>
            /\ y[2] = Latest(k)
            /\ cooldown[k] # None => cooldown[k].since <= attempts[k][y[2]].started
      BY <1>4, <3>1 DEF Remembered
    <3>. QED  BY <1>2, <1>4, <3>2, <3>3, <3>4, <3>5, <3>6 DEF Remembered, CoolUntil
  <2>. QED  BY <2>1, <2>2
<1>. QED  BY <1>5, <1>6 DEF Cooled

\* The candidate in hand, and the others.
LEMMA HandCooled ==
  ASSUME CadenceInv, NEW c \in Coalitions, InOrder(c), \A k \in Of(c) : Cooled(c, k),
         worker[c] \in Recovering
  PROVE  /\ hand[c] # None /\ hand[c][1] \in Of(c) /\ hand[c][2] \in Numbers(hand[c][1])
         /\ Held(c, hand[c][1])
         /\ cooldown[hand[c][1]] # None =>
              cooldown[hand[c][1]].since <= attempts[hand[c][1]][hand[c][2]].started
         /\ attempts[hand[c][1]][hand[c][2]].started \in Time
         /\ attempts[hand[c][1]][hand[c][2]].started <= now
         /\ worker[c] # "resumed" => hand[c][2] = Latest(hand[c][1])
         /\ worker[c] = "revalidate" =>
              attempts[hand[c][1]][Latest(hand[c][1])].status = "blocked"
         /\ \A x \in interrupted[c] : x[1] # hand[c][1]
         /\ cycle[c].todo = {} /\ cycle[c].ready = {}
<1>1. TypeInv /\ hand[c] # None /\ cycle[c].todo = {} /\ cycle[c].ready = {}
  BY DEF CadenceInv, TypeInv, InPlace, Recovering
<1>2. PICK k \in Of(c) : k = hand[c][1] /\ hand[c][2] \in Numbers(k)
  BY <1>1, HandTyped
<1>3. Held(c, k) /\ Ordered(k) /\ Remembered(c, k) /\ k \in Candidates
  BY <1>1, <1>2 DEF Held, Cooled, Of
<1>4. attempts[k][hand[c][2]].started \in Time /\ attempts[k][hand[c][2]].started <= now
  <2>1. attempts[k][hand[c][2]].started \in Time
    BY <1>1, <1>2, HandTyped DEF Attempts
  <2>2. /\ attempts[k][hand[c][2]].started \in Nat /\ attempts[k][hand[c][2]].ended \in Nat
        /\ now \in Nat
    BY <1>1, <1>2, <1>3, AttemptTypes
  <2>3. /\ attempts[k][hand[c][2]].started <= attempts[k][hand[c][2]].ended
        /\ attempts[k][hand[c][2]].ended <= now
    BY <1>2, <1>3 DEF Ordered
  <2>. QED  BY <2>1, <2>2, <2>3
<1>5. \A x \in interrupted[c] : x[1] # k
  BY <1>3 DEF InOrder, Single
<1>. QED  BY <1>1, <1>2, <1>3, <1>4, <1>5 DEF Remembered

\* A recovery is over.
LEMMA RecoveredCooled ==
  ASSUME CadenceInv, NEW c \in Coalitions, InOrder(c), \A k \in Of(c) : Cooled(c, k),
         worker[c] \in Recovering, NEW status \in {"completed", "blocked"},
         Recovered(c, status), UNCHANGED <<cycle, interrupted, cycles>>, now' = now,
         \A h \in Of(c) \ {hand[c][1]} : attempts'[h] = attempts[h],
         \A h : h = hand[c][1] =>
           /\ Ordered(h)' /\ Selected(c, h)'
           /\ \E t \in Nat : /\ t <= now + Cooldown[status]
                             /\ Rests(h)' => CoolUntil(attempts'[h][Latest(h)']) = t
  PROVE  \A k \in Of(c) : Cooled(c, k)'
<1>1. TypeInv /\ now' \in Time /\ now <= now' /\ now \in Time /\ Of(c) \subseteq Candidates
  BY CoolTypes DEF Of
<1>2. PICK g \in Of(c) : g = hand[c][1] /\ Held(c, g) /\ g \in Candidates
  BY <1>1, HandCooled
<1>3. /\ worker'[c] = "idle" /\ hand'[c] = None /\ \A k : ~Held(c, k)'
      /\ cooldown' = [cooldown EXCEPT ![g] =
                        Merged(@, Cool(attempts[g][hand[c][2]].started, now, status))]
  <2>1. worker'[c] = "idle" /\ hand'[c] = None
    BY <1>1 DEF Recovered, Goto, TypeInv, TypeOK
  <2>. QED  BY <1>2, <2>1 DEF Recovered, Held
<1>4. Cooled(c, g)'
  <2>1. PICK t \in Nat : /\ t <= now + Cooldown[status]
                         /\ Rests(g)' => CoolUntil(attempts'[g][Latest(g)']) = t
    BY <1>2
  <2>2. PICK since \in Time :
          /\ since = attempts[g][hand[c][2]].started /\ since <= now
          /\ cooldown[g] # None => cooldown[g].since <= since
    BY <1>2, HandCooled
  <2>3. cooldown'[g] = Merged(cooldown[g], Cool(since, now, status))
    BY <1>1, <1>2, <1>3, <2>2 DEF TypeInv, TypeOK
  <2>4. \A x \in interrupted'[c] : x[1] # g
    BY <1>2, HandCooled
  <2>5. Remembered(c, g)'
    BY <1>3, <2>1, <2>2, <2>3, <2>4, EndRemembered
  <2>. QED  BY <1>2, <2>5 DEF Cooled
<1>5. ASSUME NEW k \in Of(c), k # g PROVE Cooled(c, k)'
  <2>1. attempts'[k] = attempts[k] /\ cooldown'[k] = cooldown[k]
    BY <1>1, <1>2, <1>3, <1>5 DEF TypeInv, TypeOK
  <2>2. ~Held(c, k) /\ ~Held(c, k)' /\ worker[c] \notin {"stopped", "failed"}
    BY <1>2, <1>3, <1>5 DEF Held, Recovering
  <2>. QED  BY <1>1, <2>1, <2>2, OtherCooled DEF Cooled
<1>. QED  BY <1>4, <1>5

\* What ends the attempt in hand, and cools the candidate down or goes on.
LEMMA HandEndCooled ==
  ASSUME CadenceInv, NEW c \in Coalitions, InOrder(c), \A k \in Of(c) : Cooled(c, k),
         worker[c] \in Recovering, mishaps' = 0, Runs(hand[c][1], Latest(hand[c][1])),
         NEW status \in {"completed", "blocked"},
         SaveEnd(hand[c][1], Latest(hand[c][1]), status),
         UNCHANGED <<cycle, interrupted, cycles>>, now' = now,
         \/ Recovered(c, status)
         \/ /\ worker[c] = "monitor" /\ status = "blocked" /\ Goto(c, "revalidate")
            /\ UNCHANGED <<hand, cooldown>>
  PROVE  \A k \in Of(c) : Cooled(c, k)'
<1>1. TypeInv /\ now' \in Time /\ now <= now' /\ now \in Time /\ Of(c) \subseteq Candidates
  BY CoolTypes DEF Of
<1>2. PICK g \in Of(c) : /\ g = hand[c][1] /\ Held(c, g) /\ g \in Candidates
                         /\ hand[c][2] \in Numbers(g)
                         /\ worker[c] # "resumed" => hand[c][2] = Latest(g)
                         /\ cycle[c].todo = {} /\ cycle[c].ready = {}
                         /\ \A x \in interrupted[c] : x[1] # g
                         /\ cooldown[g] # None =>
                              cooldown[g].since <= attempts[g][hand[c][2]].started
                         /\ attempts[g][hand[c][2]].started <= now
  BY <1>1, HandCooled
<1>3. /\ Ordered(g)' /\ Selected(c, g)' /\ Latest(g)' = Latest(g)
      /\ \A i \in Numbers(g) : attempts'[g][i].started = attempts[g][i].started
      /\ attempts'[g][Latest(g)].status = status
      /\ CoolUntil(attempts'[g][Latest(g)]) = now + Cooldown[status]
  BY <1>1, <1>2, EndOrdered DEF Cooled
<1>4. \A h \in Of(c) \ {g} : attempts'[h] = attempts[h]
  <2>1. Latest(g) \in Numbers(g)
    BY <1>2 DEF Runs
  <2>. QED  BY <1>1, <1>2, <2>1, EndTypes
<1>5. now + Cooldown[status] \in Nat
  BY <1>1, ConstantTypes
<1>6. CASE Recovered(c, status)
  <2>1. \A h : h = hand[c][1] =>
          /\ Ordered(h)' /\ Selected(c, h)'
          /\ \E t \in Nat : /\ t <= now + Cooldown[status]
                            /\ Rests(h)' => CoolUntil(attempts'[h][Latest(h)']) = t
    BY <1>2, <1>3, <1>5
  <2>. QED  BY <1>2, <1>4, <1>6, <2>1, RecoveredCooled
<1>7. CASE /\ worker[c] = "monitor" /\ status = "blocked" /\ Goto(c, "revalidate")
           /\ UNCHANGED <<hand, cooldown>>
  <2>1. worker'[c] = "revalidate"
    BY <1>1, <1>7 DEF Goto, TypeInv, TypeOK
  <2>2. \A k : Held(c, k)' <=> Held(c, k)
    BY <1>7 DEF Held
  <2>3. Remembered(c, g)'
    <3>1. Held(c, g)' /\ hand'[c][2] = Latest(g)
      BY <1>2, <1>7, <2>2
    <3>2. cooldown'[g] # None => cooldown'[g].since <= now'
      BY <1>2, <1>7 DEF Cooled, Remembered
    <3>3. cooldown'[g] # None => cooldown'[g].since <= attempts'[g][hand'[c][2]].started
      BY <1>2, <1>3, <1>7
    <3>. QED  BY <1>2, <1>3, <1>7, <2>1, <3>1, <3>2, <3>3 DEF Remembered
  <2>4. ASSUME NEW k \in Of(c), k # g PROVE Cooled(c, k)'
    <3>1. ~Held(c, k) /\ ~Held(c, k)'
      BY <1>2, <2>2, <2>4 DEF Held
    <3>. QED  BY <1>1, <1>4, <1>7, <2>4, <3>1, OtherCooled
  <2>5. Cooled(c, g)'
    BY <1>3, <2>3 DEF Cooled
  <2>. QED  BY <2>4, <2>5
<1>. QED  BY <1>6, <1>7

LEMMA MonitorCooled ==
  ASSUME CadenceInv, NEW c \in Coalitions, InOrder(c), \A k \in Of(c) : Cooled(c, k),
         Monitor(c), mishaps' = 0
  PROVE  \A k \in Of(c) : Cooled(c, k)'
<1>1. /\ worker[c] = "monitor" /\ worker[c] \in Recovering /\ TypeInv
      /\ UNCHANGED <<cycle, interrupted, cycles>> /\ now' = now
  BY CoolTypes DEF Monitor, Recovering, world
<1>2. PICK g \in Of(c) : g = hand[c][1] /\ hand[c][2] = Latest(g)
                         /\ hand[c][2] \in Numbers(g) /\ g \in Candidates
  BY <1>1, HandCooled DEF Of
<1>3. Subject(g, hand[c][2]) = Latest(g)
  <2>1. Numbers(g) = 1 .. Latest(g) /\ Latest(g) \in Nat
    BY <1>1, <1>2, AttemptTypes
  <2>2. /\ Subject(g, hand[c][2]) \in Numbers(g)
        /\ \A n \in Numbers(g) :
             attempts[g][n].plan = attempts[g][hand[c][2]].plan => n <= Subject(g, hand[c][2])
    BY <1>2, <2>1, SubjectIsLatest
  <2>. QED  BY <1>2, <2>1, <2>2
<1>4. /\ attempts[g][Latest(g)].status = "executing"
      /\ \/ \E status \in {"completed", "blocked"} :
              SaveEnd(g, Latest(g), status) /\ Recovered(c, status)
         \/ SaveEnd(g, Latest(g), "blocked") /\ Goto(c, "revalidate") /\ UNCHANGED <<hand, cooldown>>
  BY <1>2, <1>3 DEF Monitor
<1>5. Runs(g, Latest(g))
  BY <1>2, <1>4 DEF Runs
<1>. QED  BY <1>1, <1>2, <1>4, <1>5, HandEndCooled

LEMMA FinishResumedCooled ==
  ASSUME CadenceInv, NEW c \in Coalitions, InOrder(c), \A k \in Of(c) : Cooled(c, k),
         FinishResumed(c), mishaps' = 0
  PROVE  \A k \in Of(c) : Cooled(c, k)'
<1>1. /\ worker[c] \in Recovering /\ UNCHANGED <<cycle, interrupted, cycles>> /\ now' = now
      /\ Runs(hand[c][1], Latest(hand[c][1]))
  BY DEF FinishResumed, Recovering, world, InOrder, Accounted
<1>2. PICK status \in {"completed", "blocked"} :
        SaveEnd(hand[c][1], Latest(hand[c][1]), status) /\ Recovered(c, status)
  BY DEF FinishResumed
<1>. QED  BY <1>1, <1>2, HandEndCooled

LEMMA ResumeCooled ==
  ASSUME CadenceInv, NEW c \in Coalitions, InOrder(c), \A k \in Of(c) : Cooled(c, k),
         Resume(c)
  PROVE  \A k \in Of(c) : Cooled(c, k)'
<1>1. /\ worker[c] = "revalidate" /\ worker[c] \in Recovering
      /\ UNCHANGED <<cycle, interrupted, cycles>> /\ now' = now
  BY DEF Resume, Recovering, world
<1>2. TypeInv /\ now' \in Time /\ now <= now' /\ now \in Time /\ Of(c) \subseteq Candidates
  BY <1>1, CoolTypes DEF Of
<1>3. PICK g \in Of(c) : /\ g = hand[c][1] /\ Held(c, g) /\ g \in Candidates
                         /\ hand[c][2] = Latest(g) /\ Latest(g) \in Numbers(g)
                         /\ attempts[g][Latest(g)].status = "blocked"
                         /\ cycle[c].todo = {} /\ cycle[c].ready = {}
                         /\ \A x \in interrupted[c] : x[1] # g
                         /\ cooldown[g] # None =>
                              cooldown[g].since <= attempts[g][Latest(g)].started
                         /\ attempts[g][Latest(g)].started <= now
  BY <1>1, <1>2, HandCooled
<1>4. CASE Recovered(c, "blocked") /\ UNCHANGED attempts
  <2>1. Ordered(g)' /\ Selected(c, g)'
    BY <1>1, <1>2, <1>3, <1>4, OrderedSame, SelectedSame DEF Cooled
  <2>2. Latest(g)' = Latest(g) /\ CoolUntil(attempts'[g][Latest(g)]) = CoolUntil(attempts[g][Latest(g)])
    BY <1>4 DEF Latest
  <2>3. /\ CoolUntil(attempts[g][Latest(g)]) \in Nat
        /\ CoolUntil(attempts[g][Latest(g)]) <= now + Cooldown["blocked"]
    <3>1. /\ CoolUntil(attempts[g][Latest(g)]) \in Nat /\ now \in Nat
          /\ Cooldown["blocked"] \in Nat /\ attempts[g][Latest(g)].ended \in Nat
      BY <1>2, <1>3, AttemptTypes
    <3>2. attempts[g][Latest(g)].ended <= now
      BY <1>3 DEF Cooled, Ordered
    <3>3. CoolUntil(attempts[g][Latest(g)]) = attempts[g][Latest(g)].ended + Cooldown["blocked"]
      BY <1>3 DEF CoolUntil
    <3>. QED  BY <3>1, <3>2, <3>3
  <2>4. \A h : h = hand[c][1] =>
          /\ Ordered(h)' /\ Selected(c, h)'
          /\ \E t \in Nat : /\ t <= now + Cooldown["blocked"]
                            /\ Rests(h)' => CoolUntil(attempts'[h][Latest(h)']) = t
    BY <1>3, <2>1, <2>2, <2>3
  <2>. QED  BY <1>1, <1>4, <2>4, RecoveredCooled
<1>5. CASE /\ SaveStart(g, attempts[g][hand[c][2]].plan) /\ Goto(c, "resumed")
           /\ UNCHANGED <<hand, cooldown>>
  <2>. DEFINE p == attempts[g][Latest(g)].plan
  <2>1. p \in Time /\ SaveStart(g, p)
    <3>1. attempts[g][Latest(g)] \in Attempts
      BY <1>2, <1>3, HandTyped DEF Held
    <3>. QED  BY <1>3, <1>5, <3>1 DEF Attempts
  <2>2. \A i : ~Runs(g, i)
    <3>1. \A i : Runs(g, i) => i = Latest(g)
      BY <1>3 DEF Cooled, Ordered
    <3>. QED  BY <1>3, <3>1 DEF Runs
  <2>3. ASSUME NEW i \in Numbers(g), attempts[g][i].plan # p, LastAtPlan(g, i)
        PROVE  CoolUntil(attempts[g][i]) <= now
    <3>1. CoolUntil(attempts[g][i]) <= attempts[g][Latest(g)].started
      BY <1>3, <2>3 DEF Cooled, Ordered
    <3>2. /\ CoolUntil(attempts[g][i]) \in Nat /\ attempts[g][Latest(g)].started \in Nat
          /\ now \in Nat
      BY <1>2, <1>3, <2>2, AttemptTypes DEF Runs
    <3>. QED  BY <1>3, <3>1, <3>2
  <2>. HIDE DEF p
  <2>4. /\ Ordered(g)' /\ Selected(c, g)' /\ ~Rests(g)'
        /\ \A i \in Numbers(g) : attempts'[g][i] = attempts[g][i]
    BY <1>1, <2>1, <2>2, <2>3, StartOrdered DEF Cooled
  <2>5. /\ worker'[c] = "resumed" /\ \A k : Held(c, k)' <=> Held(c, k)
        /\ \A h \in Of(c) \ {g} : attempts'[h] = attempts[h]
    <3>1. worker'[c] = "resumed"
      BY <1>2, <1>5 DEF Goto, TypeInv, TypeOK
    <3>2. \A h \in Of(c) \ {g} : attempts'[h] = attempts[h]
      BY <1>2, <1>3, <2>1, StartSaved DEF TypeInv
    <3>. QED  BY <1>5, <3>1, <3>2 DEF Held
  <2>6. Remembered(c, g)'
    <3>1. cooldown'[g] # None => cooldown'[g].since <= now'
      BY <1>1, <1>3, <1>5 DEF Cooled, Remembered
    <3>2. cooldown'[g] # None => cooldown'[g].since <= attempts'[g][hand'[c][2]].started
      BY <1>3, <1>5, <2>4
    <3>. QED  BY <1>1, <1>3, <2>4, <2>5, <3>1, <3>2 DEF Remembered
  <2>7. ASSUME NEW k \in Of(c), k # g PROVE Cooled(c, k)'
    <3>1. ~Held(c, k) /\ ~Held(c, k)' /\ worker[c] \notin {"stopped", "failed"}
      BY <1>1, <1>3, <2>5, <2>7 DEF Held
    <3>. QED  BY <1>1, <1>5, <2>5, <2>7, <3>1, OtherCooled
  <2>8. Cooled(c, g)'
    BY <2>4, <2>6 DEF Cooled
  <2>. QED  BY <2>7, <2>8
<1>6. \/ Recovered(c, "blocked") /\ UNCHANGED attempts
      \/ /\ SaveStart(g, attempts[g][hand[c][2]].plan) /\ Goto(c, "resumed")
         /\ UNCHANGED <<hand, cooldown>>
  BY <1>3 DEF Resume
<1>. QED  BY <1>4, <1>5, <1>6

\* The steps that lead to a selection, or to the end of the worker.
LEMMA WaitCooled ==
  ASSUME CadenceInv, NEW c \in Coalitions, \A k \in Of(c) : Cooled(c, k),
         FailRecovery(c) \/ BeginCycle(c) \/ FailRecommend(c) \/ Assess(c)
  PROVE  \A k \in Of(c) : Cooled(c, k)'
<1>. SUFFICES ASSUME NEW k \in Of(c) PROVE Cooled(c, k)'
  OBVIOUS
<1>1. TypeInv /\ UNCHANGED <<hand, interrupted, cooldown, attempts, cycles>> /\ now' = now
  BY CoolTypes DEF FailRecovery, BeginCycle, FailRecommend, Assess, world, recovery, audit
<1>2. \/ worker'[c] \in {"stopped", "failed"}
      \/ worker[c] \notin {"stopped", "failed"} /\ ~Held(c, k) /\ ~Held(c, k)'
  <2>1. CASE FailRecovery(c) \/ FailRecommend(c)
    <3>1. \E w \in {"stopped", "failed"} : Goto(c, w)
      BY <2>1 DEF FailRecovery, FailRecommend
    <3>. QED  BY <1>1, <3>1 DEF Goto, TypeInv, TypeOK
  <2>2. CASE BeginCycle(c) \/ Assess(c)
    <3>1. worker[c] \in {"idle", "ready"}
      BY <2>2 DEF BeginCycle, Assess
    <3>2. hand[c] = None
      BY <1>1, <3>1 DEF TypeInv, InPlace, Deciding
    <3>. QED  BY <1>1, <3>1, <3>2 DEF Held
  <2>. QED  BY <2>1, <2>2
<1>3. \/ cycle'[c] = cycle[c]
      \/ cycle'[c].until[k] = None /\ cycle'[c].todo = {} /\ cycle'[c].ready = {}
  <2>1. cycle' = cycle \/ cycle' = [cycle EXCEPT ![c] = [NoCycle EXCEPT !.started = now]]
    BY DEF FailRecovery, BeginCycle, FailRecommend, Assess
  <2>2. CASE cycle' = [cycle EXCEPT ![c] = [NoCycle EXCEPT !.started = now]]
    <3>1. cycle'[c] = [NoCycle EXCEPT !.started = now]
      BY <1>1, <2>2 DEF TypeInv, TypeOK
    <3>. QED  BY <3>1 DEF NoCycle, Of
  <2>. QED  BY <2>1, <2>2
<1>. QED  BY <1>1, <1>2, <1>3, OtherCooled

-----------------------------------------------------------------------------
(* The steps of a cycle.                                                   *)

\* What a worker at a cycle does not have.
LEMMA AtCycle ==
  ASSUME CadenceInv, NEW c \in Coalitions, worker[c] \in Deciding \union {"execute"}
  PROVE  /\ interrupted[c] = {} /\ hand[c] = None /\ (\A k : ~Held(c, k))
         /\ worker[c] \notin {"stopped", "failed"} \union Recovering
  BY DEF CadenceInv, TypeInv, InPlace, Deciding, Held, Recovering

LEMMA IdleCandidate ==
  ASSUME CadenceInv, NEW c \in Coalitions, InOrder(c), NEW k \in Of(c),
         worker[c] \in Deciding \union {"execute"}, k \notin cycle[c].running
  PROVE  \A i : ~Runs(k, i)
  BY AtCycle DEF InOrder, Accounted

LEMMA RecommendCooled ==
  ASSUME CadenceInv, NEW c \in Coalitions, InOrder(c), \A k \in Of(c) : Cooled(c, k),
         Recommend(c)
  PROVE  \A k \in Of(c) : Cooled(c, k)'
<1>. SUFFICES ASSUME NEW k \in Of(c) PROVE Cooled(c, k)'
  OBVIOUS
<1>1. /\ worker[c] = "recommend" /\ now' = now
      /\ UNCHANGED <<hand, interrupted, cooldown, attempts, cycles>>
  BY DEF Recommend, world, recovery, audit
<1>2. TypeInv /\ now' \in Time /\ now <= now' /\ k \in Candidates
  BY <1>1, CoolTypes DEF Of
<1>3. PICK S \in SUBSET Eligible(c) :
         cycle' = [cycle EXCEPT ![c].plan = now, ![c].todo = S, ![c].empty = (S = {})]
  BY DEF Recommend
<1>. DEFINE n == [cycle[c] EXCEPT !.plan = now, !.todo = S, !.empty = (S = {})]
<1>4. /\ cycle'[c].started = cycle[c].started /\ cycle'[c].todo = S
      /\ cycle'[c].ready = cycle[c].ready /\ cycle'[c].until = cycle[c].until
  <2>1. cycle'[c] = n
    BY <1>2, <1>3 DEF TypeInv, TypeOK
  <2>. QED  BY <1>2, <2>1, CycleOfTyped DEF Cycles
<1>. HIDE DEF n
<1>5. /\ (\A h : ~Held(c, h)) /\ (\A h : ~Held(c, h)') /\ cycle[c].ready = {}
      /\ worker[c] \notin {"stopped", "failed"}
  <2>1. (\A h : ~Held(c, h)) /\ worker[c] \notin {"stopped", "failed"}
    BY <1>1, AtCycle DEF Deciding
  <2>2. cycle[c].ready = {}
    BY <1>1, <1>2 DEF TypeInv, InPlace
  <2>. QED  BY <1>1, <2>1, <2>2 DEF Held
<1>6. Ordered(k)' /\ Remembered(c, k)'
  BY <1>1, <1>2, <1>5, OrderedSame, RememberedSame DEF Cooled
<1>7. Selected(c, k)'
  <2>1. /\ Latest(k)' = Latest(k) /\ Rests(k)' = Rests(k)
        /\ \A s, u : Covers(k, s, u)' <=> Covers(k, s, u)
    BY <1>1 DEF Latest, Rests, Covers, CoolUntil
  <2>2. ASSUME k \in S, Rests(k)
        PROVE  CoolUntil(attempts[k][Latest(k)]) <= cycle[c].started
    <3>1. ~Active(k, cycle[c].started)
      BY <2>2 DEF Eligible
    <3>2. cooldown[k] # None /\ CoolUntil(attempts[k][Latest(k)]) <= cooldown[k].until
      BY <1>1, <2>2 DEF Cooled, Remembered
    <3>3. ~(cycle[c].started < cooldown[k].until)
      BY <3>1, <3>2 DEF Active
    <3>4. cooldown[k].until \in Nat /\ cycle[c].started \in Nat
      BY <1>2, <3>2, ScheduleTypes DEF TypeInv, TypeOK, Cooldowns
    <3>5. CoolUntil(attempts[k][Latest(k)]) \in Nat
      BY <1>2, <2>2, AttemptTypes DEF Rests
    <3>. QED  BY <3>2, <3>3, <3>4, <3>5
  <2>. QED  BY <1>1, <1>4, <1>5, <2>1, <2>2 DEF Cooled, Selected, CoolUntil
<1>. QED  BY <1>6, <1>7 DEF Cooled

\* An attempt that is given up, with the step's part of the cycle.
LEMMA GiveUpCooled ==
  ASSUME CadenceInv, NEW c \in Coalitions, InOrder(c), \A k \in Of(c) : Cooled(c, k),
         worker[c] \in {"activate", "execute"}, worker'[c] \in {"activate", "execute"},
         NEW g \in Of(c), NEW s \in Cycles, GiveUp(c, g, s),
         g \in cycle[c].todo \union cycle[c].ready,
         s.started = cycle[c].started, s.until = cycle[c].until,
         s.todo \union s.ready = (cycle[c].todo \union cycle[c].ready) \ {g},
         UNCHANGED <<hand, interrupted, attempts, cycles>>, now' = now
  PROVE  \A k \in Of(c) : Cooled(c, k)'
<1>1. TypeInv /\ now' \in Time /\ now <= now' /\ now \in Time /\ Of(c) \subseteq Candidates
  BY CoolTypes DEF Of
<1>2. /\ (\A h : ~Held(c, h)) /\ (\A h : ~Held(c, h)') /\ interrupted[c] = {}
      /\ worker[c] \notin {"stopped", "failed"}
  BY AtCycle DEF Held, Deciding
<1>3. /\ cycle'[c].started = cycle[c].started
      /\ cycle'[c].todo \union cycle'[c].ready = (cycle[c].todo \union cycle[c].ready) \ {g}
      /\ \A h \in Candidates \ {g} : /\ cycle'[c].until[h] = cycle[c].until[h]
                                     /\ cooldown'[h] = cooldown[h]
      /\ \/ cycle'[c].until[g] = cycle[c].until[g] /\ cooldown'[g] = cooldown[g]
         \/ /\ cycle'[c].until[g] = now + Cooldown["failed"]
            /\ cooldown'[g] = Merged(cooldown[g], Cool(now, now, "failed"))
  BY <1>1, GaveUp
<1>4. ASSUME NEW k \in Of(c),
             cycle'[c].until[k] = cycle[c].until[k] /\ cooldown'[k] = cooldown[k]
      PROVE  Cooled(c, k)'
  BY <1>1, <1>2, <1>3, <1>4, OtherCooled
<1>5. ASSUME cycle'[c].until[g] = now + Cooldown["failed"],
             cooldown'[g] = Merged(cooldown[g], Cool(now, now, "failed"))
      PROVE  Cooled(c, g)'
  <2>. DEFINE t == IF Rests(g) THEN CoolUntil(attempts[g][Latest(g)]) ELSE 0
  <2>1. /\ Latest(g)' = Latest(g) /\ Rests(g)' = Rests(g)
        /\ \A a, u : Covers(g, a, u)' <=> Covers(g, a, u)
        /\ CoolUntil(attempts'[g][Latest(g)']) = CoolUntil(attempts[g][Latest(g)])
    BY DEF Latest, Rests, Covers, CoolUntil
  <2>2. t \in Nat /\ t <= now + Cooldown["failed"]
    <3>1. /\ now \in Nat /\ now + Cooldown["failed"] \in Nat /\ now <= now + Cooldown["failed"]
      BY <1>1, CoordinatorAssumption, ConstantTypes DEF Time
    <3>2. CASE Rests(g)
      <4>1. CoolUntil(attempts[g][Latest(g)]) <= cycle[c].started
        BY <3>2 DEF Cooled, Selected
      <4>2. CoolUntil(attempts[g][Latest(g)]) \in Nat /\ cycle[c].started \in Nat
        BY <1>1, <3>2, AttemptTypes, ScheduleTypes DEF Rests
      <4>3. cycle[c].started <= now
        BY DEF CadenceInv, Cadenced
      <4>. QED  BY <3>1, <3>2, <4>1, <4>2, <4>3
    <3>. QED  BY <3>1, <3>2
  <2>3. Remembered(c, g)'
    <3>1. cooldown[g] # None => cooldown[g].since <= now
      BY DEF Cooled, Remembered
    <3>2. Rests(g)' => CoolUntil(attempts'[g][Latest(g)']) = t
      BY <2>1
    <3>. HIDE DEF t
    <3>. QED  BY <1>1, <1>2, <1>5, <2>2, <3>1, <3>2, EndRemembered
  <2>4. Selected(c, g)'
    <3>1. Rests(g) => Covers(g, cycle'[c].started, cycle'[c].until[g])
      BY <1>5, <2>2 DEF Covers, Rests
    <3>2. g \notin cycle'[c].todo \union cycle'[c].ready
      BY <1>3
    <3>. QED  BY <2>1, <3>1, <3>2 DEF Cooled, Selected
  <2>. QED  BY <1>1, <2>3, <2>4, OrderedSame DEF Cooled
<1>6. ASSUME NEW k \in Of(c) PROVE Cooled(c, k)'
  <2>1. CASE k # g
    BY <1>1, <1>3, <1>4, <2>1
  <2>2. CASE k = g
    BY <1>3, <1>4, <1>5, <2>2 DEF Cooled
  <2>. QED  BY <2>1, <2>2
<1>. QED  BY <1>6

LEMMA ActivateCooled ==
  ASSUME CadenceInv, NEW c \in Coalitions, InOrder(c), \A k \in Of(c) : Cooled(c, k),
         Activate(c)
  PROVE  \A k \in Of(c) : Cooled(c, k)'
<1>1. /\ worker[c] = "activate" /\ UNCHANGED <<hand, interrupted, attempts, cycles>>
      /\ now' = now /\ \E w \in {"activate", "execute"} : Goto(c, w)
  BY DEF Activate, recovery, audit
<1>2. TypeInv /\ Of(c) \subseteq Candidates /\ cycle[c].todo \subseteq Of(c)
      /\ cycle[c].todo \intersect cycle[c].ready = {}
      /\ worker'[c] \in {"activate", "execute"}
  <2>1. TypeInv
    BY DEF CadenceInv
  <2>. QED  BY <1>1, <2>1, CycleOfTyped DEF TypeInv, TypeOK, InPlace, Goto
<1>3. PICK g \in cycle[c].todo, s \in Cycles :
        /\ s.started = cycle[c].started /\ s.until = cycle[c].until
        /\ s.todo = cycle[c].todo \ {g} /\ s.ready = cycle[c].ready
        /\ \/ GiveUp(c, g, s)
           \/ /\ cooldown' = cooldown
              /\ cycle'[c].started = s.started
              /\ cycle'[c].todo = s.todo /\ cycle'[c].ready = s.ready \union {g}
              /\ cycle'[c].until = s.until
  BY <1>2, Activated
<1>4. CASE GiveUp(c, g, s)
  BY <1>1, <1>2, <1>3, <1>4, GiveUpCooled
<1>5. CASE /\ cooldown' = cooldown /\ cycle'[c].started = s.started
           /\ cycle'[c].todo = s.todo /\ cycle'[c].ready = s.ready \union {g}
           /\ cycle'[c].until = s.until
  <2>. SUFFICES ASSUME NEW k \in Of(c) PROVE Cooled(c, k)'
    OBVIOUS
  <2>1. ~Held(c, k) /\ ~Held(c, k)' /\ worker[c] \notin {"stopped", "failed"}
    BY <1>1, AtCycle DEF Held, Deciding
  <2>2. k \in cycle'[c].todo \union cycle'[c].ready => k \in cycle[c].todo \union cycle[c].ready
    BY <1>3, <1>5
  <2>. QED  BY <1>1, <1>3, <1>5, <2>1, <2>2, OtherCooled
<1>. QED  BY <1>3, <1>4, <1>5

\* What is ready to start has cooled down, also from its earlier plans.
LEMMA CooledDown ==
  ASSUME CadenceInv, NEW c \in Coalitions, InOrder(c), NEW k \in Of(c), Cooled(c, k),
         worker[c] = "execute", k \in cycle[c].ready,
         NEW i \in Numbers(k), LastAtPlan(k, i)
  PROVE  CoolUntil(attempts[k][i]) <= cycle[c].started
<1>1. TypeInv /\ k \in Candidates /\ k \notin cycle[c].running
  BY DEF CadenceInv, TypeInv, InPlace, Of
<1>2. \A j : ~Runs(k, j)
  BY <1>1, IdleCandidate
<1>3. /\ Latest(k) \in Nat /\ Numbers(k) = 1 .. Latest(k)
      /\ \A j \in Numbers(k) :
           /\ attempts[k][j].started \in Nat /\ attempts[k][j].ended \in Nat
           /\ CoolUntil(attempts[k][j]) \in Nat
           /\ attempts[k][j].ended <= CoolUntil(attempts[k][j])
  BY <1>1, <1>2, AttemptTypes DEF Runs
<1>4. Latest(k) \in Numbers(k) /\ Rests(k)
  BY <1>2, <1>3 DEF Rests, Runs
<1>5. CoolUntil(attempts[k][Latest(k)]) <= cycle[c].started /\ cycle[c].started \in Nat
  BY <1>1, <1>4, ScheduleTypes DEF Cooled, Selected
<1>6. ASSUME i # Latest(k) PROVE CoolUntil(attempts[k][i]) <= cycle[c].started
  <2>1. /\ CoolUntil(attempts[k][i]) <= attempts[k][Latest(k)].started
        /\ attempts[k][Latest(k)].started <= attempts[k][Latest(k)].ended
    BY <1>4, <1>6 DEF Cooled, Ordered
  <2>. QED  BY <1>3, <1>4, <1>5, <2>1
<1>. QED  BY <1>5, <1>6

LEMMA StartCooled ==
  ASSUME CadenceInv, NEW c \in Coalitions, InOrder(c), \A k \in Of(c) : Cooled(c, k),
         Start(c)
  PROVE  \A k \in Of(c) : Cooled(c, k)'
<1>1. /\ worker[c] = "execute" /\ UNCHANGED <<worker, hand, interrupted, cycles>> /\ now' = now
  BY DEF Start, recovery
<1>2. /\ TypeInv /\ now' \in Time /\ now <= now' /\ now \in Time /\ Of(c) \subseteq Candidates
      /\ cycle[c].ready \subseteq Of(c) /\ cycle[c].plan \in Time
      /\ cycle[c].todo = {} /\ cycle[c].ready \intersect cycle[c].running = {}
  <2>1. TypeInv /\ now' \in Time /\ now <= now' /\ now \in Time
    BY <1>1, CoolTypes
  <2>. QED  BY <1>1, <2>1, CycleOfTyped DEF TypeInv, InPlace, Cycles
<1>3. PICK g \in cycle[c].ready, s \in Cycles :
        /\ s.started = cycle[c].started /\ s.until = cycle[c].until
        /\ s.todo = cycle[c].todo /\ s.ready = cycle[c].ready \ {g}
        /\ \/ GiveUp(c, g, s) /\ attempts' = attempts
           \/ /\ cooldown' = cooldown /\ SaveStart(g, cycle[c].plan)
              /\ \A i \in Numbers(g) : attempts[g][i].plan # cycle[c].plan
              /\ cycle'[c].started = s.started
              /\ cycle'[c].todo = s.todo /\ cycle'[c].ready = s.ready
              /\ cycle'[c].until = s.until
  BY <1>2, Started
<1>4. CASE GiveUp(c, g, s) /\ attempts' = attempts
  BY <1>1, <1>2, <1>3, <1>4, GiveUpCooled
<1>5. CASE /\ cooldown' = cooldown /\ SaveStart(g, cycle[c].plan)
           /\ cycle'[c].started = s.started
           /\ cycle'[c].todo = s.todo /\ cycle'[c].ready = s.ready
           /\ cycle'[c].until = s.until
  <2>1. /\ (\A h : ~Held(c, h)) /\ (\A h : ~Held(c, h)') /\ interrupted[c] = {}
        /\ worker[c] \notin {"stopped", "failed"} \union Recovering
    BY <1>1, AtCycle DEF Held
  <2>2. g \in Of(c) /\ g \in Candidates /\ \A i : ~Runs(g, i)
    BY <1>1, <1>2, IdleCandidate
  <2>3. ASSUME NEW i \in Numbers(g), LastAtPlan(g, i) PROVE CoolUntil(attempts[g][i]) <= now
    <3>1. CoolUntil(attempts[g][i]) <= cycle[c].started /\ cycle[c].started <= now
      BY <1>1, <1>3, <2>2, <2>3, CooledDown DEF CadenceInv, Cadenced
    <3>2. CoolUntil(attempts[g][i]) \in Nat /\ cycle[c].started \in Nat /\ now \in Nat
      BY <1>2, <2>2, AttemptTypes, ScheduleTypes DEF Runs
    <3>. QED  BY <3>1, <3>2
  <2>4. Ordered(g)' /\ Selected(c, g)' /\ ~Rests(g)'
    BY <1>1, <1>2, <1>5, <2>2, <2>3, StartOrdered DEF Cooled
  <2>5. \A h \in Of(c) \ {g} : attempts'[h] = attempts[h]
    BY <1>2, <1>5, <2>2, StartSaved DEF TypeInv
  <2>6. Remembered(c, g)'
    <3>1. cooldown'[g] # None => cooldown'[g].since <= now'
      BY <1>1, <1>5, <2>2 DEF Cooled, Remembered
    <3>. QED  BY <1>1, <2>1, <2>4, <3>1 DEF Remembered
  <2>7. ASSUME NEW k \in Of(c), k # g PROVE Cooled(c, k)'
    <3>1. k \in cycle'[c].todo \union cycle'[c].ready => k \in cycle[c].todo \union cycle[c].ready
      BY <1>3, <1>5
    <3>. QED  BY <1>1, <1>2, <1>3, <1>5, <2>1, <2>5, <2>7, <3>1, OtherCooled
  <2>8. Cooled(c, g)'
    BY <2>4, <2>6 DEF Cooled
  <2>. QED  BY <2>7, <2>8
<1>. QED  BY <1>3, <1>4, <1>5

LEMMA FinishCooled ==
  ASSUME CadenceInv, NEW c \in Coalitions, InOrder(c), \A k \in Of(c) : Cooled(c, k),
         Finish(c), mishaps' = 0
  PROVE  \A k \in Of(c) : Cooled(c, k)'
<1>1. /\ worker[c] = "execute" /\ UNCHANGED <<worker, hand, interrupted, cycles>> /\ now' = now
  BY DEF Finish, world, recovery
<1>2. TypeInv /\ now \in Time /\ now <= now /\ Of(c) \subseteq Candidates
  BY CoolTypes DEF Of
<1>3. PICK g \in cycle[c].running, status \in {"completed", "blocked"} :
        /\ SaveEnd(g, Latest(g), status)
        /\ cycle'[c].started = cycle[c].started
        /\ cycle'[c].todo = cycle[c].todo /\ cycle'[c].ready = cycle[c].ready
        /\ cooldown'[g] = Merged(cooldown[g], Cool(now, now, status))
        /\ \A h \in Candidates \ {g} : /\ cycle'[c].until[h] = cycle[c].until[h]
                                       /\ cooldown'[h] = cooldown[h]
  BY <1>2, Finished
<1>4. /\ (\A h : ~Held(c, h)) /\ (\A h : ~Held(c, h)') /\ interrupted[c] = {}
      /\ worker[c] \notin {"stopped", "failed"}
  BY <1>1, AtCycle DEF Held
<1>5. /\ g \in Of(c) /\ g \in Candidates /\ Runs(g, Latest(g)) /\ Latest(g) \in Numbers(g)
      /\ g \notin cycle'[c].todo \union cycle'[c].ready
  BY <1>1, <1>2, <1>3, CycleOfTyped DEF TypeInv, InPlace, InOrder, Accounted, Runs
<1>6. /\ Ordered(g)' /\ Selected(c, g)' /\ Latest(g)' = Latest(g)
      /\ CoolUntil(attempts'[g][Latest(g)]) = now + Cooldown[status]
  BY <1>1, <1>3, <1>5, EndOrdered DEF Cooled
<1>7. \A h \in Of(c) \ {g} : attempts'[h] = attempts[h]
  BY <1>2, <1>3, <1>5, EndTypes
<1>8. Remembered(c, g)'
  <2>1. now + Cooldown[status] \in Nat /\ now + Cooldown[status] <= now + Cooldown[status]
    BY <1>2, ConstantTypes
  <2>2. cooldown[g] # None => cooldown[g].since <= now
    BY <1>5 DEF Cooled, Remembered
  <2>3. CoolUntil(attempts'[g][Latest(g)']) = now + Cooldown[status]
    BY <1>6
  <2>. QED  BY <1>1, <1>2, <1>3, <1>4, <1>5, <2>1, <2>2, <2>3, EndRemembered
<1>9. ASSUME NEW k \in Of(c), k # g PROVE Cooled(c, k)'
  <2>1. k \in cycle'[c].todo \union cycle'[c].ready => k \in cycle[c].todo \union cycle[c].ready
    BY <1>3
  <2>. QED  BY <1>1, <1>2, <1>3, <1>4, <1>7, <1>9, <2>1, OtherCooled
<1>10. Cooled(c, g)'
  BY <1>6, <1>8 DEF Cooled
<1>. QED  BY <1>9, <1>10

\* A cycle is recorded when nothing of it executes any more.
LEMMA RetainCooled ==
  ASSUME CadenceInv, NEW c \in Coalitions, InOrder(c), \A k \in Of(c) : Cooled(c, k),
         Retain(c)
  PROVE  \A k \in Of(c) : Cooled(c, k)'
<1>. SUFFICES ASSUME NEW k \in Of(c) PROVE Cooled(c, k)'
  OBVIOUS
<1>. DEFINE x == [started |-> cycle[c].started, until |-> cycle[c].until,
                  empty |-> cycle[c].empty]
<1>1. /\ worker[c] = "execute" /\ cycle[c].running = {}
      /\ cycle' = [cycle EXCEPT ![c] = NoCycle] /\ now' = now
      /\ UNCHANGED <<hand, interrupted, cooldown, attempts>>
      /\ cycles' = [cycles EXCEPT ![c] = @ \union {x}] \/ cycles' = cycles
  BY DEF Retain, world, recovery
<1>2. TypeInv /\ now' \in Time /\ now <= now' /\ k \in Candidates
  BY <1>1, CoolTypes DEF Of
<1>3. cycle'[c].until[k] = None /\ cycle'[c].todo = {} /\ cycle'[c].ready = {}
  <2>1. cycle'[c] = NoCycle
    BY <1>1, <1>2 DEF TypeInv, TypeOK
  <2>. QED  BY <1>2, <2>1 DEF NoCycle
<1>4. /\ ~Held(c, k) /\ ~Held(c, k)' /\ worker[c] \notin {"stopped", "failed"}
      /\ \A i : ~Runs(k, i)
  BY <1>1, AtCycle, IdleCandidate DEF Held
<1>5. Ordered(k)' /\ Remembered(c, k)'
  BY <1>1, <1>2, <1>4, OrderedSame, RememberedSame DEF Cooled
<1>6. Covers(k, x.started, x.until[k])
  <2>1. Numbers(k) = 1 .. Latest(k) /\ Latest(k) \in Nat
    BY <1>2, AttemptTypes
  <2>2. Latest(k) # 0 => Rests(k)
    BY <1>4, <2>1 DEF Rests, Runs
  <2>3. x.started = cycle[c].started /\ x.until = cycle[c].until
    OBVIOUS
  <2>. HIDE DEF x
  <2>4. CASE Rests(k)
    BY <2>3, <2>4 DEF Cooled, Selected
  <2>5. CASE Latest(k) = 0
    BY <2>5 DEF Covers
  <2>. QED  BY <2>2, <2>4, <2>5
<1>. HIDE DEF x
<1>7. \A r \in cycles'[c] : Covers(k, r.started, r.until[k])
  <2>1. cycles'[c] \subseteq cycles[c] \union {x}
    BY <1>1, <1>2 DEF TypeInv, TypeOK
  <2>. QED  BY <1>6, <2>1 DEF Cooled, Selected
<1>8. Selected(c, k)'
  <2>1. Rests(k)' = Rests(k) /\ \A s, u : Covers(k, s, u)' <=> Covers(k, s, u)
    BY <1>1 DEF Latest, Rests, Covers, CoolUntil
  <2>2. \A s : Covers(k, s, None)
    BY DEF Covers
  <2>. QED  BY <1>3, <1>7, <2>1, <2>2 DEF Selected
<1>. QED  BY <1>5, <1>8 DEF Cooled

-----------------------------------------------------------------------------
(* The restart, and all steps.                                             *)

\* What the audit says of the cooldown of a candidate that nothing is at.
LEMMA RestoredLasts ==
  ASSUME CadenceInv, NEW c \in Coalitions, NEW k \in Of(c), Ordered(k), Selected(c, k)
  PROVE  /\ RestoredCooldown(k) # None => RestoredCooldown(k).since <= now
         /\ Rests(k) => /\ RestoredCooldown(k) # None
                        /\ CoolUntil(attempts[k][Latest(k)]) <= RestoredCooldown(k).until
         /\ (RestoredCooldown(k) # None /\ Runs(k, Latest(k))) =>
              RestoredCooldown(k).since <= attempts[k][Latest(k)].started
<1>1. /\ TypeOK /\ TypeInv /\ Bounded /\ k \in Candidates /\ SideOf[k] = c
      /\ Latest(k) \in Nat /\ Numbers(k) = 1 .. Latest(k)
  BY AttemptTypes DEF CadenceInv, TypeInv, Of
<1>2. /\ now \in Nat
      /\ \A i \in Numbers(k) :
           /\ attempts[k][i].started \in Nat /\ attempts[k][i].ended \in Nat
           /\ attempts[k][i].started <= attempts[k][i].ended
           /\ attempts[k][i].ended <= now
           /\ i # Latest(k) => attempts[k][i].ended <= attempts[k][Latest(k)].started
  BY <1>1, AttemptTypes DEF Ordered
<1>3. \A i : Runs(k, i) \/ Rests(k) => Latest(k) # 0 /\ Latest(k) \in Numbers(k)
  BY <1>1 DEF Rests, Runs
<1>4. CASE Recorded(k) = {}
  <2>1. RestoredCooldown(k) = None
    BY <1>4 DEF RestoredCooldown
  <2>2. ~Rests(k)
    BY <1>3, <1>4 DEF Rests, Recorded
  <2>. QED  BY <2>1, <2>2
<1>5. CASE Recorded(k) # {}
  <2>1. PICK x \in Recorded(k) :
          /\ x = RestoredCooldown(k) /\ x \in Cooldowns
          /\ \A y \in Recorded(k) : y \in Cooldowns /\ AtMost(y, x)
    BY <1>1, <1>5, RestoredIsGreatest
  <2>2. x # None /\ x.since \in Nat /\ x.until \in Nat
    BY <2>1, NoneApart, ConstantTypes DEF Cooldowns, Time
  <2>3. \/ \E r \in cycles[c] : /\ r.until[k] # None /\ x.since = r.started
                                /\ x.until = r.until[k]
        \/ \E i \in Numbers(k) : /\ attempts[k][i].status # "executing"
                                 /\ x.since = attempts[k][i].ended
    BY <1>1, CoolIs DEF Recorded
  <2>4. ASSUME NEW r \in cycles[c], r.until[k] # None, x.since = r.started,
               x.until = r.until[k]
        PROVE  /\ x.since <= now
               /\ Runs(k, Latest(k)) => x.since <= attempts[k][Latest(k)].started
               /\ Rests(k) => \/ CoolUntil(attempts[k][Latest(k)]) <= x.until
                              \/ x.since <= attempts[k][Latest(k)].ended
    <3>1. x.since <= now /\ Covers(k, x.since, x.until) /\ x.until # None
      BY <2>4 DEF CadenceInv, Cadenced, Selected
    <3>2. Runs(k, Latest(k)) => x.since <= attempts[k][Latest(k)].started
      BY <1>3, <3>1 DEF Covers, Runs
    <3>3. Rests(k) => \/ CoolUntil(attempts[k][Latest(k)]) <= x.until
                      \/ x.since <= attempts[k][Latest(k)].ended
      BY <1>3, <3>1 DEF Covers, Rests
    <3>. QED  BY <3>1, <3>2, <3>3
  <2>5. ASSUME NEW i \in Numbers(k), attempts[k][i].status # "executing",
               x.since = attempts[k][i].ended
        PROVE  /\ x.since <= now
               /\ Runs(k, Latest(k)) => x.since <= attempts[k][Latest(k)].started
               /\ Rests(k) => x.since <= attempts[k][Latest(k)].ended
    <3>1. x.since <= now
      BY <1>2, <2>5
    <3>2. Runs(k, Latest(k)) => x.since <= attempts[k][Latest(k)].started
      BY <1>2, <2>5 DEF Runs
    <3>3. ASSUME Rests(k) PROVE x.since <= attempts[k][Latest(k)].ended
      <4>1. Latest(k) \in Numbers(k)
        BY <1>3, <3>3
      <4>2. CASE i = Latest(k)
        BY <1>2, <2>5, <4>2
      <4>3. CASE i # Latest(k)
        BY <1>2, <2>5, <4>1, <4>3
      <4>. QED  BY <4>2, <4>3
    <3>. QED  BY <3>1, <3>2, <3>3
  <2>6. ASSUME Rests(k) PROVE CoolUntil(attempts[k][Latest(k)]) <= x.until
    <3>1. Latest(k) \in Numbers(k) /\ attempts[k][Latest(k)].status # "executing"
      BY <1>3, <2>6 DEF Rests
    <3>. DEFINE a == attempts[k][Latest(k)]
                y == Cool(a.ended, a.ended, a.status)
    <3>2. y \in Recorded(k)
      BY <3>1 DEF Recorded
    <3>3. y.since = a.ended /\ y.until = CoolUntil(a)
      BY CoolIs DEF CoolUntil
    <3>4. AtMost(y, x) /\ a.ended \in Nat /\ CoolUntil(a) \in Nat
      BY <1>1, <1>2, <2>1, <3>1, <3>2, AttemptTypes
    <3>5. CoolUntil(a) <= x.until \/ x.since <= a.ended
      BY <2>3, <2>4, <2>5, <2>6
    <3>. HIDE DEF a, y
    <3>6. CoolUntil(a) <= x.until
      BY <2>2, <3>3, <3>4, <3>5 DEF AtMost
    <3>. QED  BY <3>6 DEF a
  <2>. QED  BY <2>1, <2>2, <2>3, <2>4, <2>5, <2>6
<1>. QED  BY <1>4, <1>5

LEMMA RestartCooled ==
  ASSUME CadenceInv, NEW c \in Coalitions, NEW k \in Of(c), Cooled(c, k), RestartClient
  PROVE  Cooled(c, k)'
<1>1. /\ worker'[c] = "idle" /\ cycle'[c] = NoCycle /\ hand'[c] = None
      /\ interrupted'[c] = Interrupted(c) /\ attempts' = attempts /\ cycles' = cycles
      /\ now' = now
  BY DEF RestartClient, world, audit
<1>2. TypeInv /\ now' \in Time /\ now <= now' /\ k \in Candidates
  BY <1>1, CoolTypes DEF Of
<1>3. cycle'[c].until[k] = None /\ cycle'[c].todo = {} /\ cycle'[c].ready = {}
  BY <1>1, <1>2 DEF NoCycle
<1>4. Ordered(k)' /\ Selected(c, k)'
  BY <1>1, <1>2, <1>3, OrderedSame, SelectedSame DEF Cooled
<1>5. Remembered(c, k)'
  <2>1. cooldown'[k] = RestoredCooldown(k)
    BY <1>2 DEF RestartClient
  <2>2. Latest(k)' = Latest(k) /\ Rests(k)' = Rests(k) /\ ~Held(c, k)'
    BY <1>1 DEF Latest, Rests, Held
  <2>3. /\ cooldown'[k] # None => cooldown'[k].since <= now
        /\ Rests(k) => cooldown'[k] # None /\ CoolUntil(attempts[k][Latest(k)]) <= cooldown'[k].until
        /\ (cooldown'[k] # None /\ Runs(k, Latest(k))) =>
             cooldown'[k].since <= attempts[k][Latest(k)].started
    BY <2>1, RestoredLasts DEF Cooled
  <2>4. \A x \in Interrupted(c) : x[1] = k => x[2] = Latest(k) /\ Runs(k, Latest(k))
    <3>1. \A x \in Interrupted(c) : Runs(x[1], x[2])
      BY <1>2, InterruptedOwned DEF TypeInv, Runs
    <3>. QED  BY <3>1 DEF Cooled, Ordered
  <2>. QED  BY <1>1, <2>2, <2>3, <2>4 DEF Remembered, CoolUntil
<1>. QED  BY <1>4, <1>5 DEF Cooled

LEMMA InitCooled == Init => CooledInv
<1>. SUFFICES ASSUME Init, NEW c \in Coalitions, NEW k \in Of(c) PROVE Cooled(c, k)
  BY InitCadence, InitLimit DEF CooledInv
<1>1. /\ attempts[k] = <<>> /\ cooldown[k] = None /\ interrupted[c] = {} /\ hand[c] = None
      /\ cycles[c] = {} /\ worker[c] = "idle"
  BY DEF Init, Of
<1>2. Latest(k) = 0 /\ Numbers(k) = {} /\ ~Rests(k)
  BY <1>1 DEF Latest, Numbers, Rests
<1>3. Ordered(k)
  BY <1>2 DEF Ordered, Runs
<1>4. Remembered(c, k)
  BY <1>1, <1>2 DEF Remembered, Recovering
<1>5. Selected(c, k)
  BY <1>1, <1>2 DEF Selected
<1>. QED  BY <1>3, <1>4, <1>5 DEF Cooled

LEMMA NextCooled == CooledInv /\ [Next]_vars => CooledInv'
<1>. SUFFICES ASSUME CooledInv, [Next]_vars, mishaps' = 0
              PROVE  \A c \in Coalitions : \A k \in Of(c) : Cooled(c, k)'
  BY NextCadence, NextLimit DEF CooledInv, Of
<1>1. /\ CadenceInv /\ TypeInv /\ mishaps = 0
      /\ \A c \in Coalitions : InOrder(c) /\ \A k \in Of(c) : Cooled(c, k)
  BY MishapsGrow DEF CooledInv, CadenceInv, LimitInv
<1>2. CASE AdvanceClock \/ EndMission \/ Learn \/ UNCHANGED vars
  <2>. SUFFICES ASSUME NEW c \in Coalitions, NEW k \in Of(c) PROVE Cooled(c, k)'
    OBVIOUS
  <2>1. /\ UNCHANGED <<worker, cycle, hand, interrupted, cooldown, attempts, cycles>>
        /\ now' \in Time /\ now <= now' /\ k \in Candidates
    BY <1>1, <1>2, WorldSame DEF Of
  <2>2. Ordered(k)' /\ Remembered(c, k)' /\ Selected(c, k)'
    BY <1>1, <2>1, OrderedSame, RememberedSame, SelectedSame DEF Cooled
  <2>. QED  BY <2>2 DEF Cooled
<1>3. CASE RestartClient
  BY <1>1, <1>3, RestartCooled
<1>4. ASSUME NEW c \in Coalitions, Recover(c) \/ BeginCycle(c) \/ RunCycle(c)
      PROVE  \A d \in Coalitions : \A k \in Of(d) : Cooled(d, k)'
  <2>1. Apart(c) /\ Elsewhere(c)
    BY <1>1, <1>4, RecoveryApart, CycleApart, RecoverTypes, BeginCycleTypes, RunCycleTypes
  <2>2. ~Raise(c)
    BY <1>1 DEF Raise
  <2>3. \A k \in Of(c) : Cooled(c, k)'
    <3>1. CASE Recover(c) \/ BeginCycle(c)
      BY <1>1, <3>1, TakeUpCooled, MonitorCooled, ResumeCooled, FinishResumedCooled, WaitCooled
         DEF Recover
    <3>2. CASE RunCycle(c)
      BY <1>1, <2>2, <3>2, WaitCooled, RecommendCooled, ActivateCooled, StartCooled,
         FinishCooled, RetainCooled DEF RunCycle
    <3>. QED  BY <1>4, <3>1, <3>2
  <2>4. ASSUME NEW d \in Coalitions, d # c, NEW k \in Of(d) PROVE Cooled(d, k)'
    <3>1. /\ worker'[d] = worker[d] /\ cycle'[d] = cycle[d] /\ hand'[d] = hand[d]
          /\ interrupted'[d] = interrupted[d] /\ cycles'[d] = cycles[d] /\ now' = now
      BY <2>1, <2>4 DEF Apart, Elsewhere
    <3>2. attempts'[k] = attempts[k] /\ cooldown'[k] = cooldown[k]
      BY <2>1, <2>4, CandidatesApart DEF Apart, Elsewhere
    <3>. QED  BY <1>1, <3>1, <3>2, OtherCooled
  <2>. QED  BY <2>3, <2>4
<1>. QED  BY <1>2, <1>3, <1>4 DEF Next

-----------------------------------------------------------------------------
(* What the steps that begin a selection and start a plan may rely on.     *)

\* A plan that starts was ready.
LEMMA RunningWasReady ==
  ASSUME TypeInv, [Next]_vars, NEW d \in Coalitions,
         NEW k \in cycle'[d].running \ cycle[d].running
  PROVE  worker[d] = "execute" /\ k \in cycle[d].ready
<1>1. CASE AdvanceClock \/ EndMission \/ Learn \/ UNCHANGED vars
  BY <1>1, WorldSame
<1>2. CASE RestartClient
  <2>1. cycle'[d] = NoCycle
    BY <1>2 DEF RestartClient
  <2>. QED  BY <2>1 DEF NoCycle
<1>3. ASSUME NEW c \in Coalitions, Recover(c) \/ BeginCycle(c) \/ RunCycle(c)
      PROVE  worker[d] = "execute" /\ k \in cycle[d].ready
  <2>1. CASE d # c
    <3>1. Elsewhere(c)
      BY <1>3, RecoverTypes, BeginCycleTypes, RunCycleTypes
    <3>. QED  BY <2>1, <3>1 DEF Elsewhere
  <2>2. CASE d = c /\ (Recover(c) \/ BeginCycle(c))
    BY <2>2, RecoveryApart
  <2>3. CASE d = c /\ RunCycle(c)
    <3>1. CASE Assess(c) \/ FailRecommend(c)
      <4>1. cycle' = cycle \/ cycle' = [cycle EXCEPT ![c] = [NoCycle EXCEPT !.started = now]]
        BY <3>1 DEF Assess, FailRecommend
      <4>2. cycle'[c] = cycle[c] \/ cycle'[c] = [NoCycle EXCEPT !.started = now]
        BY <4>1 DEF TypeInv, TypeOK
      <4>. QED  BY <2>3, <4>2 DEF NoCycle
    <3>2. CASE Recommend(c)
      <4>1. PICK S \in SUBSET Eligible(c) :
              cycle' = [cycle EXCEPT ![c].plan = now, ![c].todo = S, ![c].empty = (S = {})]
        BY <3>2 DEF Recommend
      <4>2. cycle'[c] = [cycle[c] EXCEPT !.plan = now, !.todo = S, !.empty = (S = {})]
        BY <4>1 DEF TypeInv, TypeOK
      <4>3. cycle'[c].running = cycle[c].running
        BY <4>2, CycleOfTyped DEF Cycles
      <4>. QED  BY <2>3, <4>3
    <3>3. CASE Activate(c)
      <4>1. cycle'[c].running = cycle[c].running
        <5>1. PICK g \in cycle[c].todo, s \in Cycles :
                /\ s.running = cycle[c].running
                /\ GiveUp(c, g, s) \/ cycle'[c].running = s.running
          BY <3>3, Activated
        <5>2. g \in Of(c)
          BY CycleOfTyped
        <5>. QED  BY <5>1, <5>2, GaveUp
      <4>. QED  BY <2>3, <4>1
    <3>4. CASE Start(c)
      <4>1. PICK g \in cycle[c].ready, s \in Cycles :
              /\ s.running = cycle[c].running
              /\ GiveUp(c, g, s) \/ cycle'[c].running = s.running \union {g}
        BY <3>4, Started
      <4>2. g \in Of(c) /\ worker[c] = "execute"
        BY <3>4, CycleOfTyped DEF Start
      <4>3. cycle'[c].running \subseteq cycle[c].running \union {g}
        BY <4>1, <4>2, GaveUp
      <4>. QED  BY <2>3, <4>2, <4>3
    <3>5. CASE Finish(c)
      <4>1. cycle'[c].running \subseteq cycle[c].running
        BY <3>5, Finished
      <4>. QED  BY <2>3, <4>1
    <3>6. CASE Raise(c)
      <4>1. PICK g \in cycle[c].running, s \in Cycles :
              s.running = cycle[c].running \ {g} /\ GiveUp(c, g, s)
        BY <3>6, Raised
      <4>2. g \in Of(c)
        BY CycleOfTyped
      <4>3. cycle'[c].running \subseteq cycle[c].running
        BY <4>1, <4>2, GaveUp
      <4>. QED  BY <2>3, <4>3
    <3>7. CASE Retain(c)
      <4>1. cycle'[c] = NoCycle
        BY <3>7 DEF Retain, TypeInv, TypeOK
      <4>. QED  BY <2>3, <4>1 DEF NoCycle
    <3>. QED  BY <2>3, <3>1, <3>2, <3>3, <3>4, <3>5, <3>6, <3>7 DEF RunCycle
  <2>. QED  BY <1>3, <2>1, <2>2, <2>3
<1>. QED  BY <1>1, <1>2, <1>3 DEF Next

\* What starts has cooled down from each plan that was attempted.
LEMMA StartsCooled ==
  ASSUME CooledInv, mishaps = 0, NEW c \in Coalitions, worker[c] = "execute",
         NEW k \in cycle[c].ready
  PROVE  CooldownHeld(c, k)
<1>1. /\ CadenceInv /\ TypeInv /\ InOrder(c) /\ k \in Of(c) /\ k \in Candidates
      /\ Cooled(c, k)
  <2>1. TypeInv /\ InOrder(c) /\ CadenceInv
    BY DEF CooledInv, CadenceInv, LimitInv
  <2>2. k \in Of(c) /\ k \in Candidates
    BY <2>1, CycleOfTyped
  <2>. QED  BY <2>1, <2>2 DEF CooledInv
<1>2. Numbers(k) = 1 .. Latest(k) /\ Latest(k) \in Nat /\ cycle[c].started \in Nat
  BY <1>1, AttemptTypes, ScheduleTypes
<1>3. ASSUME NEW i \in Numbers(k), i = Subject(k, i), attempts[k][i].status # "executing"
      PROVE  cycle[c].started >= CoolUntil(attempts[k][i])
  <2>1. LastAtPlan(k, i)
    <3>1. Numbers(k) \in SUBSET Nat /\ \A j \in Numbers(k) : j <= Latest(k)
      BY <1>2
    <3>2. \A n \in Numbers(k) :
            attempts[k][n].plan = attempts[k][i].plan => n <= Subject(k, i)
      BY <1>2, <3>1, SubjectIsLatest
    <3>. QED  BY <1>3, <3>2 DEF LastAtPlan
  <2>2. CoolUntil(attempts[k][i]) <= cycle[c].started
    BY <1>1, <2>1, CooledDown
  <2>3. CoolUntil(attempts[k][i]) \in Nat
    BY <1>1, <1>3, AttemptTypes
  <2>. QED  BY <1>2, <2>2, <2>3
<1>. QED  BY <1>3 DEF CooldownHeld, CoolUntil

(* A selection begins when the cadence and the back-off that the audit     *)
(* tells of are over, and a plan starts when the cooldowns are, over any   *)
(* restart: for any candidates, cadences, cooldowns and number of restarts.*)
THEOREM ScheduleIsKept == Spec => ScheduleHolds
<1>. DEFINE Keeps ==
       \A c \in Coalitions :
         /\ (worker[c] = "recommend" /\ worker'[c] \in {"activate", "execute"})
              => CadenceHeld(c)
         /\ \A k \in cycle'[c].running \ cycle[c].running :
              mishaps = 0 => CooldownHeld(c, k)
<1>1. Spec => []CooledInv
  BY InitCooled, NextCooled, PTL DEF Spec
<1>2. CooledInv /\ [Next]_vars => Keeps
  <2>. SUFFICES ASSUME CooledInv, [Next]_vars, NEW c \in Coalitions
                PROVE  /\ worker[c] = "recommend" => CadenceHeld(c)
                       /\ \A k \in cycle'[c].running \ cycle[c].running :
                            mishaps = 0 => CooldownHeld(c, k)
    OBVIOUS
  <2>1. worker[c] = "recommend" => CadenceHeld(c)
    BY DEF CooledInv, CadenceInv, Cadenced
  <2>2. ASSUME NEW k \in cycle'[c].running \ cycle[c].running, mishaps = 0
        PROVE  CooldownHeld(c, k)
    <3>1. worker[c] = "execute" /\ k \in cycle[c].ready
      BY RunningWasReady DEF CooledInv, CadenceInv
    <3>. QED  BY <2>2, <3>1, StartsCooled
  <2>. QED  BY <2>1, <2>2
<1>. QED  BY <1>1, <1>2, PTL DEF Spec, ScheduleHolds

=============================================================================
