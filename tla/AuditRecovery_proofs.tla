-------------------------- MODULE AuditRecovery_proofs ------------------------
(***************************************************************************)
(* The audit recovers what was recorded, proved for any candidates,        *)
(* limits and number of records: the types, the agreement of file and      *)
(* memory, the checkpoints of the running mission in the file at every     *)
(* kill, and what a client restores from them.                             *)
(***************************************************************************)
EXTENDS AuditRecovery, Queues_proofs, TLAPS

-----------------------------------------------------------------------------
(* Records, their keys and their priorities.                               *)

LEMMA RecordTypes ==
  ASSUME NEW r \in Records
  PROVE  /\ r.scope \in Nat /\ r.type \in {"cycle", "execution", "note"}
         /\ r.type = "cycle" => r \in Cycles
         /\ r.type = "execution" => r \in Executions
         /\ r.type = "note" => r \in Notes
         /\ Readable(r)
BY DEF Records, Cycles, Executions, Notes, Readable, Torn, Undecodable

LEMMA CycleParts ==
  ASSUME NEW r \in Cycles
  PROVE  /\ r.type = "cycle" /\ r.scope \in Nat /\ r.number \in Nat /\ r.started \in Nat
         /\ \A c \in Candidates : r.until[c] \in Nat
BY DEF Cycles

\* A key names the scope of its record and what it is about.
LEMMA KeyKinds ==
  ASSUME NEW r \in Records, NEW k \in Keys(r)
  PROVE  /\ k[1] = r.scope
         /\ k[2] \in {"schedule", "cycle_number", "candidate", "execution"}
         /\ k[2] = "execution" <=> r.type = "execution"
         /\ k[2] = "candidate" => k[3] \in Candidates
<1>1. CASE r.type = "cycle"
  <2>1. \/ k = <<r.scope, "schedule", "">> \/ k = <<r.scope, "cycle_number", "">>
        \/ \E c \in Candidates : k = <<r.scope, "candidate", c>>
    BY <1>1 DEF Keys
  <2>2. CASE k = <<r.scope, "schedule", "">>
    BY <1>1, <2>2
  <2>3. CASE k = <<r.scope, "cycle_number", "">>
    BY <1>1, <2>3
  <2>4. ASSUME NEW c \in Candidates, k = <<r.scope, "candidate", c>>
        PROVE  k[1] = r.scope /\ k[2] = "candidate" /\ k[3] = c
    BY <2>4
  <2>. QED  BY <1>1, <2>1, <2>2, <2>3, <2>4
<1>2. CASE r.type = "execution"
  <2>1. k = <<r.scope, "execution", <<r.candidate, r.attempt>> >>
    BY <1>2 DEF Keys
  <2>. QED  BY <1>2, <2>1
<1>3. CASE r.type = "note"
  BY <1>3 DEF Keys
<1>. QED  BY <1>1, <1>2, <1>3, RecordTypes

\* The keys of a cycle.
LEMMA CycleKeys ==
  ASSUME NEW r, r.type = "cycle", NEW c \in Candidates
  PROVE  /\ <<r.scope, "cycle_number", "">> \in Keys(r)
         /\ <<r.scope, "schedule", "">> \in Keys(r)
         /\ <<r.scope, "candidate", c>> \in Keys(r) <=> r.until[c] # 0
BY DEF Keys

Pairs == Nat \X Nat

LEMMA PriorityType ==
  ASSUME NEW r \in Records, NEW k \in Keys(r)
  PROVE  Priority(r, k) \in Pairs
<1>1. CASE k[2] = "execution"
  BY <1>1 DEF Priority, Pairs
<1>2. CASE k[2] # "execution"
  <2>1. r.type = "cycle"
    <3>1. r.type # "note"
      BY DEF Keys
    <3>. QED  BY <1>2, <3>1, KeyKinds, RecordTypes
  <2>2. r.number \in Nat /\ r.started \in Nat /\ \A c \in Candidates : r.until[c] \in Nat
    BY <2>1, RecordTypes, CycleParts
  <2>. QED  BY <1>2, <2>2, KeyKinds DEF Priority, Pairs
<1>. QED  BY <1>1, <1>2

\* The order of priorities is total.
LEMMA ExceedsOrders ==
  ASSUME NEW p \in Pairs, NEW q \in Pairs, NEW r \in Pairs
  PROVE  /\ ~Exceeds(p, p)
         /\ Exceeds(p, q) => ~Exceeds(q, p)
         /\ ~Exceeds(p, q) /\ ~Exceeds(q, r) => ~Exceeds(p, r)
         /\ Exceeds(p, q) /\ ~Exceeds(r, q) => Exceeds(p, r)
BY DEF Exceeds, Pairs

-----------------------------------------------------------------------------
(* The checkpoint of a key.                                                *)

LEMMA HolderTypes ==
  ASSUME NEW s \in Seq(Records), NEW k, NEW i \in Holders(s, k)
  PROVE  /\ i \in 1..Len(s) /\ i \in Nat /\ s[i] \in Records /\ k \in Keys(s[i])
         /\ Priority(s[i], k) \in Pairs
<1>1. i \in 1..Len(s) /\ s[i] \in Records /\ k \in Keys(s[i])
  BY DEF Holders
<1>. QED  BY <1>1, PriorityType

\* Which of two records of a key counts.
Beats(s, k, i, j) ==
  /\ ~Exceeds(Priority(s[j], k), Priority(s[i], k))
  /\ j > i => Exceeds(Priority(s[i], k), Priority(s[j], k))

\* No two records are the checkpoint.
LEMMA NewestUnique ==
  ASSUME NEW s \in Seq(Records), NEW k, NEW i \in Newest(s, k), NEW j \in Newest(s, k)
  PROVE  i = j
<1>1. /\ i \in Holders(s, k) /\ j \in Holders(s, k)
      /\ Beats(s, k, i, j) /\ Beats(s, k, j, i)
  BY DEF Newest, Beats
<1>2. i \in Nat /\ j \in Nat
  BY <1>1, HolderTypes
<1>3. ~(i < j) /\ ~(j < i)
  BY <1>1, <1>2 DEF Beats
<1>. QED  BY <1>2, <1>3

LEMMA CheckpointOf ==
  ASSUME NEW s \in Seq(Records), NEW k, NEW i \in Newest(s, k)
  PROVE  Checkpoint(s, k) = {s[i]}
<1>1. \A j \in Newest(s, k) : j = i
  BY NewestUnique
<1>. QED  BY <1>1 DEF Checkpoint

\* If any record has the key there is a checkpoint: of the records up to each
\* position, one beats all others.
LEMMA NewestExists ==
  ASSUME NEW s \in Seq(Records), NEW k, Holders(s, k) # {}
  PROVE  Newest(s, k) # {}
<1>. DEFINE H(m) == {i \in Holders(s, k) : i <= m}
            Best(m) == \E i \in H(m) : \A j \in H(m) : Beats(s, k, i, j)
            T == {m \in Nat : m <= Len(s) /\ H(m) # {} /\ ~Best(m)}
<1>1. Len(s) \in Nat /\ \A i \in Holders(s, k) : i \in Nat /\ i <= Len(s)
  BY HolderTypes
<1>2. T = {}
  <2>1. SUFFICES ASSUME T # {}
                 PROVE  FALSE
    OBVIOUS
  <2>2. PICK m \in T : \A n \in T : m <= n
    <3>1. T \in SUBSET Nat
      OBVIOUS
    <3>. HIDE DEF T
    <3>. QED  BY <2>1, <3>1, LeastNatural
  <2>3. m \in Nat /\ m <= Len(s) /\ H(m) # {} /\ ~Best(m)
    BY <2>2
  <2>4. m # 0
    <3>1. PICK i \in H(m) : i \in Nat /\ i <= m /\ i \in 1..Len(s)
      BY <2>3, HolderTypes
    <3>. QED  BY <3>1
  <2>5. m - 1 \in Nat /\ m - 1 <= Len(s) /\ ~(m <= m - 1)
    BY <1>1, <2>3, <2>4
  <2>6. H(m - 1) = {} \/ Best(m - 1)
    <3>1. m - 1 \notin T
      BY <2>2, <2>5
    <3>. HIDE DEF H, Best
    <3>. QED  BY <2>5, <3>1
  <2>7. \A i : i \in H(m) <=> i \in H(m - 1) \/ (i = m /\ m \in Holders(s, k))
    <3>1. \A i \in Holders(s, k) : i <= m <=> i <= m - 1 \/ i = m
      <4>1. \A i, n \in Nat : i <= n <=> i <= n - 1 \/ i = n
        OBVIOUS
      <4>. HIDE DEF H, Best, T
      <4>. QED  BY <1>1, <2>3, <4>1
    <3>. HIDE DEF Best, T
    <3>. QED  BY <2>3, <3>1
  <2>8. CASE m \notin Holders(s, k)
    <3>1. H(m) = H(m - 1)
      BY <2>7, <2>8
    <3>. HIDE DEF H
    <3>. QED  BY <2>3, <2>6, <3>1
  <2>9. CASE m \in Holders(s, k) /\ H(m - 1) = {}
    <3>1. H(m) = {m}
      BY <2>7, <2>9
    <3>2. Beats(s, k, m, m)
      BY <2>3, <2>9, HolderTypes, ExceedsOrders DEF Beats
    <3>. HIDE DEF H
    <3>. QED  BY <2>3, <3>1, <3>2
  <2>10. CASE m \in Holders(s, k) /\ H(m - 1) # {}
    <3>1. PICK i \in H(m - 1) : \A j \in H(m - 1) : Beats(s, k, i, j)
      BY <2>6, <2>10
    <3>2. i \in Holders(s, k) /\ i \in Nat /\ i < m /\ m \in H(m) /\ i \in H(m)
      BY <1>1, <2>3, <2>7, <2>10, <3>1
    <3>3. Priority(s[i], k) \in Pairs /\ Priority(s[m], k) \in Pairs
      BY <2>10, <3>2, HolderTypes
    <3>4. \A j \in H(m) : j = m \/ j \in H(m - 1)
      BY <2>7
    <3>5. \A j \in H(m - 1) :
            j \in Holders(s, k) /\ j \in Nat /\ j < m /\ Priority(s[j], k) \in Pairs
      BY <1>1, <2>3, HolderTypes
    <3>. HIDE DEF H
    <3>6. CASE Exceeds(Priority(s[i], k), Priority(s[m], k))
      <4>1. Beats(s, k, i, m)
        BY <3>3, <3>6, ExceedsOrders DEF Beats
      <4>. QED  BY <2>3, <3>1, <3>2, <3>4, <4>1
    <3>7. CASE ~Exceeds(Priority(s[i], k), Priority(s[m], k))
      <4>1. ASSUME NEW j \in H(m - 1)
            PROVE  Beats(s, k, m, j)
        <5>1. ~Exceeds(Priority(s[j], k), Priority(s[i], k))
          BY <3>1, <4>1 DEF Beats
        <5>2. ~Exceeds(Priority(s[j], k), Priority(s[m], k))
          BY <3>3, <3>5, <3>7, <5>1, ExceedsOrders
        <5>. QED  BY <2>3, <3>5, <5>2 DEF Beats
      <4>2. Beats(s, k, m, m)
        BY <2>3, <3>3, ExceedsOrders DEF Beats
      <4>. QED  BY <2>3, <3>2, <3>4, <4>1, <4>2
    <3>. QED  BY <3>6, <3>7
  <2>. QED  BY <2>8, <2>9, <2>10
<1>3. H(Len(s)) = Holders(s, k)
  BY <1>1
<1>4. Best(Len(s))
  <2>1. Len(s) \notin T
    BY <1>2
  <2>. HIDE DEF H, Best
  <2>. QED  BY <1>1, <1>3, <2>1
<1>. HIDE DEF H
<1>. QED  BY <1>3, <1>4 DEF Newest, Beats
\* What an appended record does to the checkpoint of a key.
LEMMA CheckpointAppend ==
  ASSUME NEW s \in Seq(Records), NEW r \in Records, NEW k
  PROVE  /\ k \notin Keys(r) => Checkpoint(Append(s, r), k) = Checkpoint(s, k)
         /\ k \in Keys(r) =>
              IF \E q \in Checkpoint(s, k) : Exceeds(Priority(q, k), Priority(r, k))
              THEN Checkpoint(Append(s, r), k) = Checkpoint(s, k)
              ELSE Checkpoint(Append(s, r), k) = {r}
<1>. DEFINE t == Append(s, r)
            n == Len(s)
<1>1. /\ n \in Nat /\ t \in Seq(Records) /\ Len(t) = n + 1 /\ t[n + 1] = r
      /\ DOMAIN s = 1..n /\ DOMAIN t = 1..(n + 1)
      /\ \A i \in 1..n : t[i] = s[i]
  OBVIOUS
<1>. HIDE DEF t, n
<1>2. \A i : i \in Holders(t, k) <=> i \in Holders(s, k) \/ (i = n + 1 /\ k \in Keys(r))
  BY <1>1 DEF Holders
<1>3. \A i \in Holders(s, k) :
        i \in Nat /\ i <= n /\ t[i] = s[i] /\ i # n + 1 /\ Priority(s[i], k) \in Pairs
  BY <1>1, HolderTypes DEF n
<1>4. ASSUME NEW i, NEW j, i \in Holders(s, k), j \in Holders(s, k)
      PROVE  Beats(t, k, i, j) <=> Beats(s, k, i, j)
  BY <1>3, <1>4 DEF Beats
<1>5. CASE k \notin Keys(r)
  <2>1. \A i : i \in Holders(t, k) <=> i \in Holders(s, k)
    BY <1>2, <1>5
  <2>2. Newest(t, k) = Newest(s, k)
    BY <1>4, <2>1 DEF Newest, Beats
  <2>3. \A i \in Newest(s, k) : t[i] = s[i]
    BY <1>3 DEF Newest
  <2>4. Checkpoint(t, k) = Checkpoint(s, k)
    BY <2>2, <2>3 DEF Checkpoint
  <2>. QED  BY <1>5, <2>4 DEF t
<1>6. CASE k \in Keys(r) /\ \E q \in Checkpoint(s, k) : Exceeds(Priority(q, k), Priority(r, k))
  <2>1. PICK i \in Newest(s, k) : Exceeds(Priority(s[i], k), Priority(r, k))
    BY <1>6 DEF Checkpoint
  <2>2. i \in Holders(s, k) /\ i \in Holders(t, k) /\ Priority(r, k) \in Pairs
    BY <1>2, <1>6, <2>1, PriorityType DEF Newest
  <2>3. \A j \in Holders(s, k) : Beats(s, k, i, j)
    BY <2>1 DEF Newest, Beats
  <2>4. Beats(t, k, i, n + 1)
    BY <1>1, <1>3, <2>1, <2>2, ExceedsOrders DEF Beats
  <2>5. \A j \in Holders(t, k) : Beats(t, k, i, j)
    BY <1>2, <1>4, <2>2, <2>3, <2>4
  <2>6. i \in Newest(t, k)
    BY <2>2, <2>5 DEF Newest, Beats
  <2>7. Checkpoint(t, k) = {s[i]} /\ Checkpoint(s, k) = {s[i]}
    BY <1>1, <1>3, <2>1, <2>2, <2>6, CheckpointOf
  <2>. QED  BY <1>6, <2>7 DEF t
<1>7. CASE k \in Keys(r) /\ ~\E q \in Checkpoint(s, k) : Exceeds(Priority(q, k), Priority(r, k))
  <2>1. n + 1 \in Holders(t, k) /\ Priority(r, k) \in Pairs
    BY <1>2, <1>7, PriorityType
  <2>2. ASSUME NEW j \in Holders(s, k)
        PROVE  ~Exceeds(Priority(s[j], k), Priority(r, k))
    <3>1. PICK i : i \in Newest(s, k)
      BY NewestExists
    <3>2. i \in Holders(s, k) /\ ~Exceeds(Priority(s[j], k), Priority(s[i], k))
      BY <3>1 DEF Newest
    <3>3. ~Exceeds(Priority(s[i], k), Priority(r, k))
      BY <1>7, <3>1 DEF Checkpoint
    <3>. QED  BY <1>3, <2>1, <3>2, <3>3, ExceedsOrders
  <2>3. \A j \in Holders(s, k) : Beats(t, k, n + 1, j)
    BY <1>1, <1>3, <2>2 DEF Beats
  <2>4. Beats(t, k, n + 1, n + 1)
    BY <1>1, <2>1, ExceedsOrders DEF Beats
  <2>5. \A j \in Holders(t, k) : Beats(t, k, n + 1, j)
    BY <1>2, <2>3, <2>4
  <2>6. n + 1 \in Newest(t, k)
    BY <2>1, <2>5 DEF Newest, Beats
  <2>7. Checkpoint(t, k) = {r}
    BY <1>1, <2>6, CheckpointOf
  <2>. QED  BY <1>7, <2>7 DEF t
<1>. QED  BY <1>5, <1>6, <1>7

\* An append does the same to sequences that agree on a checkpoint.
LEMMA AppendAgrees ==
  ASSUME NEW s \in Seq(Records), NEW t \in Seq(Records), NEW r \in Records, NEW k,
         Checkpoint(s, k) = Checkpoint(t, k)
  PROVE  Checkpoint(Append(s, r), k) = Checkpoint(Append(t, r), k)
<1>1. CASE k \notin Keys(r)
  BY <1>1, CheckpointAppend
<1>2. CASE k \in Keys(r) /\ \E q \in Checkpoint(s, k) : Exceeds(Priority(q, k), Priority(r, k))
  <2>1. Checkpoint(Append(s, r), k) = Checkpoint(s, k)
    BY <1>2, CheckpointAppend
  <2>2. Checkpoint(Append(t, r), k) = Checkpoint(t, k)
    BY <1>2, CheckpointAppend
  <2>. QED  BY <2>1, <2>2
<1>3. CASE k \in Keys(r) /\ ~\E q \in Checkpoint(s, k) : Exceeds(Priority(q, k), Priority(r, k))
  <2>1. Checkpoint(Append(s, r), k) = {r}
    BY <1>3, CheckpointAppend
  <2>2. Checkpoint(Append(t, r), k) = {r}
    BY <1>3, CheckpointAppend
  <2>. QED  BY <2>1, <2>2
<1>. QED  BY <1>1, <1>2, <1>3

\* A record without the key is no checkpoint, nor is one in an empty audit.
LEMMA NoCheckpoint ==
  ASSUME NEW s \in Seq(Records), NEW k, \A i \in DOMAIN s : k \notin Keys(s[i])
  PROVE  Checkpoint(s, k) = {}
BY DEF Checkpoint, Newest, Holders

-----------------------------------------------------------------------------
(* Compaction.                                                             *)

\* Whoever keeps the checkpoint of a key does not change it.
LEMMA KeptCheckpoint ==
  ASSUME NEW s \in Seq(Records), NEW K \in SUBSET (1..Len(s)), NEW k,
         Newest(s, k) \subseteq K
  PROVE  Checkpoint(Kept(s, K), k) = Checkpoint(s, k)
<1>. DEFINE t == Kept(s, K)
<1>1. t \in Seq(Records) /\ DOMAIN t = 1..Cardinality(K) /\ Positions(K)
  BY KeptProperties, KeptDomain, PositionsOf
<1>2. ASSUME NEW n \in DOMAIN t
      PROVE  \E i \in K : Place(K, i) = n /\ t[n] = s[i]
  <2>1. \A z : \A p \in 1..Cardinality(K) : \E i \in K : Place(K, i) = p /\ Kept(z, K)[p] = z[i]
    <3>1. Positions(K)
      BY <1>1
    <3>. HIDE DEF t
    <3>. QED  BY <3>1, KeptFrom
  <2>2. \A p \in 1..Cardinality(K) : \E i \in K : Place(K, i) = p /\ Kept(s, K)[p] = s[i]
    BY <2>1, Zenon
  <2>. QED  BY <1>1, <1>2, <2>2, Zenon
<1>3. ASSUME NEW i \in K
      PROVE  Place(K, i) \in DOMAIN t /\ t[Place(K, i)] = s[i]
  BY <1>1, KeptAt
<1>. HIDE DEF t
<1>4. \A i \in K : i \in 1..Len(s) /\ i \in Nat
  OBVIOUS
<1>5. CASE Holders(s, k) = {}
  <2>1. ASSUME NEW n \in DOMAIN t
        PROVE  k \notin Keys(t[n])
    <3>1. PICK i \in K : t[n] = s[i]
      BY <1>2, <2>1
    <3>2. i \in DOMAIN s
      BY <1>4
    <3>. QED  BY <1>5, <3>1, <3>2 DEF Holders
  <2>2. Checkpoint(t, k) = {}
    BY <1>1, <2>1, NoCheckpoint
  <2>3. Checkpoint(s, k) = {}
    BY <1>5 DEF Checkpoint, Newest
  <2>. QED  BY <2>2, <2>3 DEF t
<1>6. CASE Holders(s, k) # {}
  <2>1. PICK i \in Newest(s, k) : i \in K
    BY <1>6, NewestExists
  <2>2. /\ i \in Holders(s, k) /\ k \in Keys(s[i])
        /\ \A j \in Holders(s, k) : Beats(s, k, i, j)
    BY <2>1 DEF Newest, Beats, Holders
  <2>3. Place(K, i) \in Holders(t, k) /\ t[Place(K, i)] = s[i]
    BY <1>3, <2>1, <2>2 DEF Holders
  <2>4. ASSUME NEW n \in Holders(t, k)
        PROVE  Beats(t, k, Place(K, i), n)
    <3>1. n \in DOMAIN t /\ k \in Keys(t[n])
      BY <2>4 DEF Holders
    <3>2. PICK j \in K : Place(K, j) = n /\ t[n] = s[j]
      BY <1>2, <3>1
    <3>3. j \in Holders(s, k)
      BY <1>4, <3>1, <3>2 DEF Holders
    <3>4. Beats(s, k, i, j)
      BY <2>2, <3>3
    <3>5. Place(K, i) \in Nat /\ Place(K, j) \in Nat
      BY <1>1, PlaceTypes
    <3>6. Place(K, j) > Place(K, i) => j > i
      <4>1. ASSUME ~(j > i)
            PROVE  ~(Place(K, j) > Place(K, i))
        <5>1. j = i \/ j < i
          BY <1>4, <2>1, <4>1
        <5>2. CASE j < i
          <6>1. Place(K, j) < Place(K, i)
            BY <1>1, <2>1, <5>2, PlaceGrows
          <6>. QED  BY <3>5, <6>1
        <5>. QED  BY <3>5, <5>1, <5>2
      <4>. QED  BY <4>1
    <3>. QED  BY <2>3, <3>2, <3>4, <3>6 DEF Beats
  <2>5. Place(K, i) \in Newest(t, k)
    BY <2>3, <2>4 DEF Newest, Beats
  <2>6. Checkpoint(t, k) = {t[Place(K, i)]}
    BY <1>1, <2>5, CheckpointOf
  <2>7. Checkpoint(s, k) = {s[i]}
    BY <2>1, CheckpointOf
  <2>. QED  BY <2>3, <2>6, <2>7 DEF t
<1>. QED  BY <1>5, <1>6

\* What is compacted is a part of the records, each at most once.
LEMMA CompactedParts ==
  ASSUME NEW s \in Seq(Records)
  PROVE  /\ Protected(s) \cup RecentHistory(s) \in SUBSET (1..Len(s))
         /\ Compacted(s) \in Seq(Records)
         /\ \A n \in DOMAIN Compacted(s) : \E i \in DOMAIN s : Compacted(s)[n] = s[i]
<1>. DEFINE K == Protected(s) \cup RecentHistory(s)
<1>1. DOMAIN s = 1..Len(s)
  OBVIOUS
<1>2. K \in SUBSET (1..Len(s))
  BY <1>1 DEF Protected, RecentHistory
<1>3. Compacted(s) = Kept(s, K)
  BY DEF Compacted
<1>. HIDE DEF K
<1>4. Kept(s, K) \in Seq(Records) /\ DOMAIN Kept(s, K) = 1..Len(Kept(s, K))
  BY <1>2, KeptProperties
<1>5. \A n \in 1..Len(Kept(s, K)) : \E i \in K : Kept(s, K)[n] = s[i]
  BY <1>2, KeptProperties
<1>. QED  BY <1>1, <1>2, <1>3, <1>4, <1>5 DEF K

\* Compaction keeps the checkpoints of the active scope.
LEMMA CompactedCheckpoint ==
  ASSUME NEW s \in Seq(Records), NEW k, k[1] = activeScope
  PROVE  Checkpoint(Compacted(s), k) = Checkpoint(s, k)
<1>1. ASSUME NEW i \in Newest(s, k)
      PROVE  i \in Protected(s)
  <2>1. i \in DOMAIN s /\ k \in Keys(s[i]) /\ s[i] \in Records
    BY HolderTypes DEF Newest, Holders
  <2>2. s[i].scope = activeScope
    BY <2>1, KeyKinds
  <2>. QED  BY <2>1, <2>2 DEF Protected, RetainedScopes
<1>. DEFINE K == Protected(s) \cup RecentHistory(s)
<1>2. Compacted(s) = Kept(s, K) /\ K \in SUBSET (1..Len(s))
  BY CompactedParts DEF Compacted
<1>3. Newest(s, k) \subseteq K
  BY <1>1
<1>. HIDE DEF K
<1>. QED  BY <1>2, <1>3, KeptCheckpoint

LEMMA NextCompactionType ==
  ASSUME NEW s \in Seq(Records)
  PROVE  NextCompaction(s) \in Nat
<1>1. MaxBytes \in Nat /\ MaxBytes \div 4 \in Nat /\ Len(s) \in Nat
  BY AuditAssumption
<1>. QED  BY <1>1 DEF NextCompaction

-----------------------------------------------------------------------------
(* The lines of the file that are records.                                 *)

Lines == Records \cup {Torn, Undecodable}

LEMMA IntactPositions ==
  ASSUME NEW f \in Seq(Lines)
  PROVE  {i \in DOMAIN f : Readable(f[i])} \in SUBSET (1..Len(f))
OBVIOUS

LEMMA IntactType ==
  ASSUME NEW f \in Seq(Lines)
  PROVE  /\ Intact(f) \in Seq(Records)
         /\ \A n \in DOMAIN Intact(f) :
              \E i \in DOMAIN f : Readable(f[i]) /\ Intact(f)[n] = f[i]
<1>. DEFINE K == {i \in DOMAIN f : Readable(f[i])}
<1>1. K \in SUBSET (1..Len(f)) /\ Intact(f) = Kept(f, K)
  BY IntactPositions DEF Intact
<1>2. \A i \in K : i \in DOMAIN f /\ Readable(f[i]) /\ f[i] \in Records
  BY DEF Readable, Lines
<1>. HIDE DEF K
<1>3. Kept(f, K) \in Seq(Lines) /\ DOMAIN Kept(f, K) = 1..Len(Kept(f, K))
  BY <1>1, KeptProperties
<1>4. \A n \in 1..Len(Kept(f, K)) : \E i \in K : Kept(f, K)[n] = f[i]
  BY <1>1, KeptProperties
<1>5. \A n \in 1..Len(Kept(f, K)) : Kept(f, K)[n] \in Records
  BY <1>2, <1>4
<1>6. Kept(f, K) \in Seq(Records)
  BY <1>3, <1>5
<1>. QED  BY <1>1, <1>2, <1>3, <1>4, <1>6

\* Every line written is read back, unless it was cut.
LEMMA IntactAppend ==
  ASSUME NEW f \in Seq(Lines), NEW x \in Lines
  PROVE  Intact(Append(f, x)) = IF Readable(x) THEN Append(Intact(f), x) ELSE Intact(f)
<1>. DEFINE K == {i \in DOMAIN f : Readable(f[i])}
            M == {i \in DOMAIN Append(f, x) : Readable(Append(f, x)[i])}
<1>1. /\ Len(f) \in Nat /\ DOMAIN f = 1..Len(f) /\ DOMAIN Append(f, x) = 1..(Len(f) + 1)
      /\ Append(f, x)[Len(f) + 1] = x
      /\ \A i \in 1..Len(f) : Append(f, x)[i] = f[i]
  OBVIOUS
<1>2. \A i \in M : i \in K \/ (i = Len(f) + 1 /\ Readable(x))
  BY <1>1
<1>3. \A i : i \in K \/ (i = Len(f) + 1 /\ Readable(x)) => i \in M
  BY <1>1
<1>4. K \in SUBSET (1..Len(f)) /\ Intact(f) = Kept(f, K)
  BY IntactPositions DEF Intact
<1>5. Intact(Append(f, x)) = Kept(Append(f, x), M)
  BY DEF Intact
<1>. HIDE DEF K, M
<1>6. /\ Kept(Append(f, x), K) = Kept(f, K)
      /\ Kept(Append(f, x), K \cup {Len(f) + 1}) = Append(Kept(f, K), x)
  <2>1. \A J \in SUBSET (1..Len(f)) :
          /\ Kept(Append(f, x), J) = Kept(f, J)
          /\ Kept(Append(f, x), J \cup {Len(f) + 1}) = Append(Kept(f, J), x)
    BY KeptAppend
  <2>. QED  BY <1>4, <2>1
<1>7. CASE Readable(x)
  <2>1. M = K \cup {Len(f) + 1}
    BY <1>2, <1>3, <1>7
  <2>. QED  BY <1>4, <1>5, <1>6, <1>7, <2>1
<1>8. CASE ~Readable(x)
  <2>1. M = K
    BY <1>2, <1>3, <1>8
  <2>. QED  BY <1>4, <1>5, <1>6, <1>8, <2>1
<1>. QED  BY <1>7, <1>8

LEMMA IntactAll ==
  ASSUME NEW s \in Seq(Records)
  PROVE  Intact(s) = s
<1>1. \A i \in DOMAIN s : Readable(s[i])
  BY RecordTypes
<1>2. {i \in DOMAIN s : Readable(s[i])} = 1..Len(s)
  BY <1>1
<1>. QED  BY <1>2, KeptAll DEF Intact

-----------------------------------------------------------------------------
(* The fold by which a client restores its schedule.                       *)

LEMMA MaxIs ==
  ASSUME NEW S, NEW m \in S, m \in Nat, \A j \in S : j \in Nat /\ j <= m
  PROVE  Max(S) = m
<1>1. ASSUME NEW x \in S, \A y \in S : x >= y
      PROVE  x = m
  BY <1>1
<1>2. \A y \in S : m >= y
  OBVIOUS
<1>. QED  BY <1>1, <1>2 DEF Max

\* One step of the fold, of the records at the positions of each set.
FoldedOver(g, s, m) ==
  [S \in SUBSET (1..m) |->
     IF S = {} THEN Fresh ELSE RestoreRecord(g[S \ {Max(S)}], s[Max(S)])]

LEMMA RestoredScheduleIs ==
  ASSUME NEW R, NEW s \in Seq(R)
  PROVE  RestoredSchedule(s) = (CHOOSE g : g = FoldedOver(g, s, Len(s)))[1..Len(s)]
<1>1. DOMAIN s = 1..Len(s)
  OBVIOUS
<1>2. RestoredSchedule(s) =
        (CHOOSE g : g = [S \in SUBSET (DOMAIN s) |->
           IF S = {} THEN Fresh ELSE RestoreRecord(g[S \ {Max(S)}], s[Max(S)])])[DOMAIN s]
  BY DEF RestoredSchedule, FoldLeft, MapThenFoldSet
<1>. QED  BY <1>1, <1>2 DEF FoldedOver

\* The greatest position first, the fold is defined on the positions up to m if it is
\* on those before.
LEMMA FoldExtends ==
  ASSUME NEW s, NEW m \in Nat \ {0}, NEW g, g = FoldedOver(g, s, m - 1)
  PROVE  \E h : h = FoldedOver(h, s, m)
<1>. DEFINE h == [S \in SUBSET (1..m) |->
                    IF m \in S THEN RestoreRecord(g[S \ {m}], s[m]) ELSE g[S]]
            step == FoldedOver(h, s, m)
<1>1. \A i : i \in 1..m <=> i \in 1..(m - 1) \/ i = m
  OBVIOUS
<1>2. ASSUME NEW S \in SUBSET (1..m)
      PROVE  h[S] = step[S]
  <2>1. step[S] = IF S = {} THEN Fresh ELSE RestoreRecord(h[S \ {Max(S)}], s[Max(S)])
    BY DEF FoldedOver
  <2>2. CASE m \in S
    <3>1. Max(S) = m
      <4>1. \A j \in S : j \in Nat /\ j <= m
        OBVIOUS
      <4>. QED  BY <2>2, <4>1, MaxIs
    <3>2. S \ {m} \in SUBSET (1..m) /\ m \notin S \ {m} /\ S # {}
      BY <2>2
    <3>3. h[S \ {m}] = g[S \ {m}]
      BY <3>2
    <3>4. h[S] = RestoreRecord(g[S \ {m}], s[m])
      BY <2>2
    <3>. HIDE DEF h, step
    <3>. QED  BY <2>1, <3>1, <3>2, <3>3, <3>4
  <2>3. CASE m \notin S
    <3>1. S \in SUBSET (1..(m - 1))
      BY <1>1, <2>3
    <3>2. h[S] = g[S]
      BY <2>3
    <3>3. g[S] = IF S = {} THEN Fresh ELSE RestoreRecord(g[S \ {Max(S)}], s[Max(S)])
      <4>1. FoldedOver(g, s, m - 1)[S] =
              IF S = {} THEN Fresh ELSE RestoreRecord(g[S \ {Max(S)}], s[Max(S)])
        BY <3>1 DEF FoldedOver
      <4>. QED  BY <4>1
    <3>4. h[S \ {Max(S)}] = g[S \ {Max(S)}]
      <4>1. S \ {Max(S)} \in SUBSET (1..m) /\ m \notin S \ {Max(S)}
        BY <2>3
      <4>. QED  BY <4>1
    <3>. HIDE DEF h, step
    <3>. QED  BY <2>1, <3>2, <3>3, <3>4
  <2>. QED  BY <2>2, <2>3
<1>3. h = [S \in SUBSET (1..m) |-> h[S]] /\ step = [S \in SUBSET (1..m) |-> step[S]]
  BY DEF FoldedOver
<1>. HIDE DEF h
<1>4. h = step
  <2>. HIDE DEF step
  <2>. QED  BY <1>2, <1>3
<1>. QED  BY <1>4

LEMMA FoldDefined ==
  ASSUME NEW s, NEW m \in Nat
  PROVE  \E h : h = FoldedOver(h, s, m)
<1>. DEFINE T == {n \in Nat : ~\E h : h = FoldedOver(h, s, n)}
<1>1. T = {}
  <2>1. SUFFICES ASSUME T # {}
                 PROVE  FALSE
    OBVIOUS
  <2>2. PICK n \in T : \A p \in T : n <= p
    <3>1. T \in SUBSET Nat
      OBVIOUS
    <3>. HIDE DEF T
    <3>. QED  BY <2>1, <3>1, LeastNatural
  <2>3. n \in Nat /\ ~\E h : h = FoldedOver(h, s, n)
    BY <2>2
  <2>4. CASE n = 0
    <3>. DEFINE h == [S \in SUBSET (1..0) |-> Fresh]
    <3>1. \A S \in SUBSET (1..0) : S = {}
      OBVIOUS
    <3>2. h = FoldedOver(h, s, 0)
      BY <3>1 DEF FoldedOver
    <3>. QED  BY <2>3, <2>4, <3>2
  <2>5. CASE n # 0
    <3>1. n - 1 \in Nat /\ ~(n <= n - 1) /\ n \in Nat \ {0}
      BY <2>3, <2>5
    <3>2. n - 1 \notin T
      BY <2>2, <3>1
    <3>3. PICK g : g = FoldedOver(g, s, n - 1)
      BY <3>1, <3>2
    <3>. HIDE DEF T
    <3>. QED  BY <2>3, <3>1, <3>3, FoldExtends
  <2>. QED  BY <2>4, <2>5
<1>. QED  BY <1>1

\* The schedule after each record, from the one before.
LEMMA RestoredSteps ==
  ASSUME NEW R, NEW s \in Seq(R)
  PROVE  \E st : /\ st[0] = Fresh
                 /\ \A m \in 1..Len(s) : st[m] = RestoreRecord(st[m - 1], s[m])
                 /\ RestoredSchedule(s) = st[Len(s)]
<1>. DEFINE L == Len(s)
            g == CHOOSE h : h = FoldedOver(h, s, L)
            st == [m \in 0..L |-> g[1..m]]
<1>1. L \in Nat
  OBVIOUS
<1>. HIDE DEF L
<1>2. g = FoldedOver(g, s, L)
  BY <1>1, FoldDefined
<1>. HIDE DEF g
<1>3. ASSUME NEW S \in SUBSET (1..L)
      PROVE  g[S] = IF S = {} THEN Fresh ELSE RestoreRecord(g[S \ {Max(S)}], s[Max(S)])
  <2>1. FoldedOver(g, s, L)[S] =
          IF S = {} THEN Fresh ELSE RestoreRecord(g[S \ {Max(S)}], s[Max(S)])
    BY DEF FoldedOver
  <2>. QED  BY <1>2, <2>1
<1>4. st[0] = Fresh
  <2>1. 1..0 = {} /\ 1..0 \in SUBSET (1..L) /\ 0 \in 0..L
    BY <1>1
  <2>. QED  BY <1>3, <2>1
<1>5. ASSUME NEW m \in 1..L
      PROVE  st[m] = RestoreRecord(st[m - 1], s[m])
  <2>1. /\ m \in Nat /\ m \in 0..L /\ m - 1 \in 0..L /\ m \in 1..m
        /\ \A j \in 1..m : j \in Nat /\ j <= m /\ j \in 1..L
    BY <1>1
  <2>2. Max(1..m) = m
    BY <2>1, MaxIs
  <2>3. (1..m) \ {m} = 1..(m - 1)
    BY <2>1
  <2>4. g[1..m] = RestoreRecord(g[1..(m - 1)], s[m])
    BY <1>3, <2>1, <2>2, <2>3
  <2>5. st[m] = g[1..m] /\ st[m - 1] = g[1..(m - 1)]
    BY <2>1
  <2>. HIDE DEF st
  <2>. QED  BY <2>4, <2>5
<1>6. RestoredSchedule(s) = st[L]
  <2>1. RestoredSchedule(s) = g[1..L]
    BY RestoredScheduleIs DEF g, L
  <2>. QED  BY <1>1, <2>1
<1>. HIDE DEF st
<1>. QED  BY <1>4, <1>5, <1>6 DEF L

-----------------------------------------------------------------------------
(* What is restored is what the checkpoints tell.                          *)

NumberKey == <<activeScope, "cycle_number", "">>
ScheduleKey == <<activeScope, "schedule", "">>
CandidateKey(c) == <<activeScope, "candidate", c>>

CurrentCycle(r) == r.type = "cycle" /\ r.scope = activeScope

Schedules == [number : Nat, last : Nat, idle : BOOLEAN, cooldown : [Candidates -> Pairs]]

Idle(r) == \A c \in Candidates : r.until[c] = 0

\* The schedule st is that of the checkpoints among s.
TellsNumber(st, s) ==
  /\ Checkpoint(s, NumberKey) = {} => st.number = 0
  /\ \A q \in Checkpoint(s, NumberKey) : st.number = q.number

TellsLast(st, s) ==
  /\ Checkpoint(s, ScheduleKey) = {} => st.last = 0 /\ st.idle = FALSE
  /\ \A q \in Checkpoint(s, ScheduleKey) : st.last = q.started /\ st.idle = Idle(q)

TellsCooldown(st, s, c) ==
  /\ Checkpoint(s, CandidateKey(c)) = {} => st.cooldown[c] = <<0, 0>>
  /\ \A q \in Checkpoint(s, CandidateKey(c)) : st.cooldown[c] = <<q.started, q.until[c]>>

Tells(st, s) ==
  TellsNumber(st, s) /\ TellsLast(st, s) /\ \A c \in Candidates : TellsCooldown(st, s, c)

\* No cycle of the mission started when r did.
NewStart(s, r) ==
  CurrentCycle(r) =>
    /\ r.started > 0
    /\ \A i \in DOMAIN s : CurrentCycle(s[i]) => s[i].started # r.started

LEMMA FreshTells ==
  ASSUME NEW s \in Seq(Records), s = <<>>
  PROVE  Fresh \in Schedules /\ Tells(Fresh, s)
<1>1. \A k : Checkpoint(s, k) = {}
  <2>1. DOMAIN s = {}
    OBVIOUS
  <2>. QED  BY <2>1, NoCheckpoint
<1>2. /\ Fresh.number = 0 /\ Fresh.last = 0 /\ Fresh.idle = FALSE
      /\ Fresh.cooldown = [c \in Candidates |-> <<0, 0>>]
  BY DEF Fresh
<1>3. Fresh \in Schedules
  <2>1. [c \in Candidates |-> <<0, 0>>] \in [Candidates -> Pairs]
    BY DEF Pairs
  <2>. QED  BY <2>1 DEF Fresh, Schedules
<1>4. Tells(Fresh, s)
  BY <1>1, <1>2 DEF Tells, TellsNumber, TellsLast, TellsCooldown
<1>. QED  BY <1>3, <1>4

\* The cycles that a checkpoint can be of.
LEMMA CheckpointCycle ==
  ASSUME NEW s \in Seq(Records), NEW k, k[1] = activeScope, k[2] # "execution",
         NEW q \in Checkpoint(s, k)
  PROVE  /\ q \in Cycles /\ CurrentCycle(q) /\ k \in Keys(q)
         /\ Checkpoint(s, k) = {q}
         /\ \E i \in DOMAIN s : q = s[i]
<1>1. PICK i \in Newest(s, k) : q = s[i]
  BY DEF Checkpoint
<1>2. i \in DOMAIN s /\ s[i] \in Records /\ k \in Keys(s[i])
  BY HolderTypes DEF Newest, Holders
<1>3. s[i].scope = activeScope /\ s[i].type # "execution"
  BY <1>2, KeyKinds
<1>4. s[i].type # "note"
  BY <1>2 DEF Keys
<1>5. s[i].type = "cycle"
  BY <1>2, <1>3, <1>4, RecordTypes
<1>6. Checkpoint(s, k) = {s[i]}
  BY CheckpointOf
<1>. QED  BY <1>1, <1>2, <1>3, <1>5, <1>6, RecordTypes DEF CurrentCycle

LEMMA RestoreParts ==
  ASSUME NEW st \in Schedules, NEW r \in Cycles
  PROVE  /\ RestoreCycle(st, r) \in Schedules
         /\ RestoreCycle(st, r).number = IF r.number > st.number THEN r.number ELSE st.number
         /\ LET latest == \/ r.started > st.last
                          \/ r.started = st.last /\ r.number > st.number
            IN  /\ RestoreCycle(st, r).last = IF latest THEN r.started ELSE st.last
                /\ RestoreCycle(st, r).idle = IF latest THEN Idle(r) ELSE st.idle
         /\ \A c \in Candidates :
              RestoreCycle(st, r).cooldown[c] =
                IF r.until[c] = 0 THEN st.cooldown[c]
                ELSE IF Exceeds(st.cooldown[c], <<r.started, r.until[c]>>) THEN st.cooldown[c]
                ELSE <<r.started, r.until[c]>>
<1>. DEFINE latest == \/ r.started > st.last
                      \/ r.started = st.last /\ r.number > st.number
            cool == [c \in Candidates |->
                       IF r.until[c] = 0 THEN st.cooldown[c]
                       ELSE Later(<<r.started, r.until[c]>>, st.cooldown[c])]
            number == IF r.number > st.number THEN r.number ELSE st.number
            last == IF latest THEN r.started ELSE st.last
            idle == IF latest THEN Idle(r) ELSE st.idle
<1>1. RestoreCycle(st, r) = [number |-> number, last |-> last, idle |-> idle, cooldown |-> cool]
  BY DEF RestoreCycle, Idle
<1>2. \A c \in Candidates :
        cool[c] = IF r.until[c] = 0 THEN st.cooldown[c]
                  ELSE IF Exceeds(st.cooldown[c], <<r.started, r.until[c]>>) THEN st.cooldown[c]
                  ELSE <<r.started, r.until[c]>>
  BY DEF Later
<1>3. cool \in [Candidates -> Pairs]
  <2>1. \A c \in Candidates : st.cooldown[c] \in Pairs /\ <<r.started, r.until[c]>> \in Pairs
    BY CycleParts DEF Schedules, Pairs
  <2>. HIDE DEF Pairs
  <2>. QED  BY <1>2, <2>1
<1>4. number \in Nat /\ last \in Nat
  BY CycleParts DEF Schedules
<1>5. idle \in BOOLEAN
  BY DEF Schedules, Idle
<1>. HIDE DEF cool, number, idle
<1>6. RestoreCycle(st, r).last = last /\ RestoreCycle(st, r).idle = idle
  BY <1>1
<1>7. RestoreCycle(st, r).number = number /\ RestoreCycle(st, r).cooldown = cool
  BY <1>1
<1>. HIDE DEF last
<1>8. RestoreCycle(st, r) \in Schedules
  BY <1>1, <1>3, <1>4, <1>5 DEF Schedules
<1>. QED  BY <1>2, <1>6, <1>7, <1>8 DEF number, last, idle

\* A record that is no cycle of the mission changes neither.
LEMMA OthersTellNothing ==
  ASSUME NEW s \in Seq(Records), NEW r \in Records, ~CurrentCycle(r), NEW st, Tells(st, s)
  PROVE  Tells(st, Append(s, r))
<1>1. ASSUME NEW k, k[1] = activeScope, k[2] # "execution"
      PROVE  Checkpoint(Append(s, r), k) = Checkpoint(s, k)
  <2>1. k \notin Keys(r)
    <3>1. SUFFICES ASSUME k \in Keys(r)
                   PROVE  FALSE
      OBVIOUS
    <3>2. r.scope = activeScope /\ r.type # "execution"
      BY <1>1, <3>1, KeyKinds
    <3>3. r.type # "note"
      BY <3>1 DEF Keys
    <3>. QED  BY <3>2, <3>3, RecordTypes DEF CurrentCycle
  <2>. QED  BY <2>1, CheckpointAppend
<1>2. /\ Checkpoint(Append(s, r), NumberKey) = Checkpoint(s, NumberKey)
      /\ Checkpoint(Append(s, r), ScheduleKey) = Checkpoint(s, ScheduleKey)
  BY <1>1 DEF NumberKey, ScheduleKey
<1>3. \A c \in Candidates :
        Checkpoint(Append(s, r), CandidateKey(c)) = Checkpoint(s, CandidateKey(c))
  BY <1>1 DEF CandidateKey
<1>. QED  BY <1>2, <1>3 DEF Tells, TellsNumber, TellsLast, TellsCooldown

LEMMA NumberTold ==
  ASSUME NEW s \in Seq(Records), NEW r \in Cycles, CurrentCycle(r),
         NEW st \in Schedules, TellsNumber(st, s)
  PROVE  TellsNumber(RestoreCycle(st, r), Append(s, r))
<1>. DEFINE k == NumberKey
<1>1. k \in Keys(r) /\ r \in Records /\ Priority(r, k) = <<r.number, 0>> /\ r.number \in Nat
  <2>1. r.type = "cycle" /\ r.scope = activeScope
    BY CycleParts DEF CurrentCycle
  <2>2. k \in Keys(r)
    BY <2>1 DEF Keys, NumberKey
  <2>. QED  BY <2>2, CycleParts DEF Priority, NumberKey, Records
<1>2. k[1] = activeScope /\ k[2] # "execution"
  BY DEF NumberKey
<1>3. RestoreCycle(st, r).number = IF r.number > st.number THEN r.number ELSE st.number
  BY RestoreParts
<1>4. \A q : Priority(q, k) = <<q.number, 0>>
  BY DEF Priority, NumberKey
<1>5. st.number \in Nat
  BY DEF Schedules
<1>. HIDE DEF k
<1>6. CASE Checkpoint(s, k) = {}
  <2>1. Checkpoint(Append(s, r), k) = {r}
    BY <1>1, <1>6, CheckpointAppend
  <2>2. RestoreCycle(st, r).number = r.number
    BY <1>1, <1>3, <1>6 DEF TellsNumber, k
  <2>. QED  BY <2>1, <2>2 DEF TellsNumber, k
<1>7. ASSUME NEW q \in Checkpoint(s, k)
      PROVE  TellsNumber(RestoreCycle(st, r), Append(s, r))
  <2>1. Checkpoint(s, k) = {q} /\ q.number \in Nat /\ st.number = q.number
    BY <1>2, <1>7, CheckpointCycle, CycleParts DEF TellsNumber, k
  <2>2. CASE q.number > r.number
    <3>1. Exceeds(Priority(q, k), Priority(r, k))
      BY <1>1, <1>4, <2>2 DEF Exceeds
    <3>2. Checkpoint(Append(s, r), k) = {q}
      BY <1>1, <2>1, <3>1, CheckpointAppend
    <3>3. RestoreCycle(st, r).number = q.number
      BY <1>1, <1>3, <2>1, <2>2
    <3>. QED  BY <3>2, <3>3 DEF TellsNumber, k
  <2>3. CASE ~(q.number > r.number)
    <3>1. ~Exceeds(Priority(q, k), Priority(r, k))
      BY <1>1, <1>4, <2>3 DEF Exceeds
    <3>2. Checkpoint(Append(s, r), k) = {r}
      BY <1>1, <2>1, <3>1, CheckpointAppend
    <3>3. RestoreCycle(st, r).number = r.number
      BY <1>1, <1>3, <2>1, <2>3
    <3>. QED  BY <3>2, <3>3 DEF TellsNumber, k
  <2>. QED  BY <2>2, <2>3
<1>. QED  BY <1>6, <1>7

\* Cycles of the mission start at different times, so the latest is the checkpoint.
LEMMA LastTold ==
  ASSUME NEW s \in Seq(Records), NEW r \in Cycles, CurrentCycle(r), NewStart(s, r),
         NEW st \in Schedules, TellsLast(st, s)
  PROVE  TellsLast(RestoreCycle(st, r), Append(s, r))
<1>. DEFINE k == ScheduleKey
            latest == \/ r.started > st.last
                      \/ r.started = st.last /\ r.number > st.number
            next == RestoreCycle(st, r)
<1>1. /\ k \in Keys(r) /\ r \in Records /\ Priority(r, k) = <<r.started, r.number>>
      /\ r.number \in Nat /\ r.started \in Nat
  <2>1. r.type = "cycle" /\ r.scope = activeScope
    BY CycleParts DEF CurrentCycle
  <2>2. k \in Keys(r)
    BY <2>1 DEF Keys, ScheduleKey
  <2>. QED  BY <2>2, CycleParts DEF Priority, ScheduleKey, Records
<1>2. k[1] = activeScope /\ k[2] # "execution"
  BY DEF ScheduleKey
<1>3. /\ next.last = IF latest THEN r.started ELSE st.last
      /\ next.idle = IF latest THEN Idle(r) ELSE st.idle
  BY RestoreParts
<1>4. \A q : Priority(q, k) = <<q.started, q.number>>
  BY DEF Priority, ScheduleKey
<1>5. st.last \in Nat /\ r.started > 0
  BY DEF Schedules, NewStart
<1>. HIDE DEF k, next
<1>6. CASE Checkpoint(s, k) = {}
  <2>1. Checkpoint(Append(s, r), k) = {r}
    BY <1>1, <1>6, CheckpointAppend
  <2>2. latest
    BY <1>1, <1>5, <1>6 DEF TellsLast, k
  <2>. QED  BY <1>3, <2>1, <2>2 DEF TellsLast, k, next
<1>7. ASSUME NEW q \in Checkpoint(s, k)
      PROVE  TellsLast(next, Append(s, r))
  <2>1. /\ Checkpoint(s, k) = {q} /\ q.started \in Nat /\ st.last = q.started
        /\ st.idle = Idle(q)
    BY <1>2, <1>7, CheckpointCycle, CycleParts DEF TellsLast, k
  <2>2. q.started # r.started
    BY <1>2, <1>7, CheckpointCycle DEF NewStart
  <2>3. CASE q.started > r.started
    <3>1. Exceeds(Priority(q, k), Priority(r, k))
      BY <1>1, <1>4, <2>3 DEF Exceeds
    <3>2. Checkpoint(Append(s, r), k) = {q}
      BY <1>1, <2>1, <3>1, CheckpointAppend
    <3>3. ~latest
      BY <1>1, <2>1, <2>3
    <3>. QED  BY <1>3, <2>1, <3>2, <3>3 DEF TellsLast, k
  <2>4. CASE r.started > q.started
    <3>1. ~Exceeds(Priority(q, k), Priority(r, k))
      BY <1>1, <1>4, <2>1, <2>4 DEF Exceeds
    <3>2. Checkpoint(Append(s, r), k) = {r}
      BY <1>1, <2>1, <3>1, CheckpointAppend
    <3>3. latest
      BY <2>1, <2>4
    <3>. QED  BY <1>3, <3>2, <3>3 DEF TellsLast, k
  <2>. QED  BY <1>1, <2>1, <2>2, <2>3, <2>4
<1>. QED  BY <1>6, <1>7 DEF next

LEMMA CooldownTold ==
  ASSUME NEW s \in Seq(Records), NEW r \in Cycles, CurrentCycle(r), NEW c \in Candidates,
         NEW st \in Schedules, TellsCooldown(st, s, c)
  PROVE  TellsCooldown(RestoreCycle(st, r), Append(s, r), c)
<1>. DEFINE k == CandidateKey(c)
            p == <<r.started, r.until[c]>>
            next == RestoreCycle(st, r)
<1>1. /\ r \in Records /\ (k \in Keys(r) <=> r.until[c] # 0)
      /\ r.started \in Nat /\ r.until[c] \in Nat
  <2>1. r.type = "cycle" /\ r.scope = activeScope
    BY CycleParts DEF CurrentCycle
  <2>2. k \in Keys(r) <=> r.until[c] # 0
    BY <2>1, CycleKeys DEF CandidateKey
  <2>. QED  BY <2>2, CycleParts DEF Records
<1>2. k[1] = activeScope /\ k[2] # "execution"
  BY DEF CandidateKey
<1>3. next.cooldown[c] = IF r.until[c] = 0 THEN st.cooldown[c]
                         ELSE IF Exceeds(st.cooldown[c], p) THEN st.cooldown[c] ELSE p
  BY RestoreParts
<1>4. \A q : Priority(q, k) = <<q.started, q.until[c]>>
  BY DEF Priority, CandidateKey
<1>. HIDE DEF k, next
<1>5. CASE r.until[c] = 0
  <2>1. Checkpoint(Append(s, r), k) = Checkpoint(s, k)
    BY <1>1, <1>5, CheckpointAppend
  <2>. QED  BY <1>3, <1>5, <2>1 DEF TellsCooldown, k, next
<1>6. CASE r.until[c] # 0 /\ Checkpoint(s, k) = {}
  <2>1. Checkpoint(Append(s, r), k) = {r}
    BY <1>1, <1>6, CheckpointAppend
  <2>2. st.cooldown[c] = <<0, 0>>
    BY <1>6 DEF TellsCooldown, k
  <2>3. ~Exceeds(st.cooldown[c], p)
    BY <1>1, <2>2 DEF Exceeds
  <2>. QED  BY <1>3, <1>6, <2>1, <2>3 DEF TellsCooldown, k, next
<1>7. ASSUME r.until[c] # 0, NEW q \in Checkpoint(s, k)
      PROVE  TellsCooldown(next, Append(s, r), c)
  <2>1. Checkpoint(s, k) = {q} /\ st.cooldown[c] = Priority(q, k)
    <3>1. Checkpoint(s, k) = {q}
      BY <1>2, <1>7, CheckpointCycle
    <3>2. st.cooldown[c] = <<q.started, q.until[c]>>
      BY <1>7 DEF TellsCooldown, k
    <3>. QED  BY <1>4, <3>1, <3>2
  <2>2. p = Priority(r, k)
    BY <1>4
  <2>. HIDE DEF p
  <2>3. CASE Exceeds(Priority(q, k), Priority(r, k))
    <3>1. Checkpoint(Append(s, r), k) = {q}
      BY <1>1, <1>7, <2>1, <2>3, CheckpointAppend
    <3>. QED  BY <1>3, <1>4, <1>7, <2>1, <2>2, <2>3, <3>1 DEF TellsCooldown, k
  <2>4. CASE ~Exceeds(Priority(q, k), Priority(r, k))
    <3>1. Checkpoint(Append(s, r), k) = {r}
      BY <1>1, <1>7, <2>1, <2>4, CheckpointAppend
    <3>. QED  BY <1>3, <1>4, <1>7, <2>1, <2>2, <2>4, <3>1 DEF TellsCooldown, k
  <2>. QED  BY <2>3, <2>4
<1>. QED  BY <1>5, <1>6, <1>7 DEF next

LEMMA RestoreTells ==
  ASSUME NEW s \in Seq(Records), NEW r \in Records, NewStart(s, r),
         NEW st \in Schedules, Tells(st, s)
  PROVE  Tells(RestoreRecord(st, r), Append(s, r))
<1>1. CASE CurrentCycle(r)
  <2>1. r \in Cycles /\ RestoreRecord(st, r) = RestoreCycle(st, r)
    BY <1>1, RecordTypes DEF CurrentCycle, RestoreRecord
  <2>. QED  BY <1>1, <2>1, NumberTold, LastTold, CooldownTold DEF Tells
<1>2. CASE ~CurrentCycle(r)
  <2>1. RestoreRecord(st, r) = st
    BY <1>2 DEF CurrentCycle, RestoreRecord
  <2>. QED  BY <1>2, <2>1, OthersTellNothing
<1>. QED  BY <1>1, <1>2

LEMMA RestoreType ==
  ASSUME NEW r \in Records, NEW st \in Schedules
  PROVE  RestoreRecord(st, r) \in Schedules
BY RecordTypes, RestoreParts DEF RestoreRecord

\* Cycles of the mission start after its beginning, each at its own time.
Timely(s) ==
  \A i \in DOMAIN s : CurrentCycle(s[i]) =>
    /\ s[i].started > 0
    /\ \A j \in DOMAIN s : CurrentCycle(s[j]) /\ s[j].started = s[i].started => j = i

\* By the fold, from record to record.
LEMMA RestoredTells ==
  ASSUME NEW s \in Seq(Records)
  PROVE  /\ RestoredSchedule(s) \in Schedules
         /\ Timely(s) => Tells(RestoredSchedule(s), s)
<1>. DEFINE L == Len(s)
            P(m) == SubSeq(s, 1, m)
<1>1. PICK st : /\ st[0] = Fresh
                /\ \A m \in 1..L : st[m] = RestoreRecord(st[m - 1], s[m])
                /\ RestoredSchedule(s) = st[L]
  BY RestoredSteps
<1>2. L \in Nat /\ DOMAIN s = 1..L
  OBVIOUS
<1>3. ASSUME NEW m \in 0..L
      PROVE  /\ P(m) \in Seq(Records) /\ DOMAIN P(m) = 1..m
             /\ \A i \in 1..m : P(m)[i] = s[i]
  OBVIOUS
<1>4. P(0) = <<>> /\ P(L) = s
  OBVIOUS
<1>5. ASSUME NEW m \in 1..L
      PROVE  P(m) = Append(P(m - 1), s[m]) /\ s[m] \in Records
  <2>1. m - 1 \in 0..L /\ m \in 0..L /\ s[m] \in Records /\ m \in Nat
    OBVIOUS
  <2>. HIDE DEF P
  <2>2. /\ P(m - 1) \in Seq(Records) /\ DOMAIN P(m - 1) = 1..(m - 1)
        /\ P(m) \in Seq(Records) /\ DOMAIN P(m) = 1..m
    BY <1>3, <2>1
  <2>3. Len(P(m)) = m /\ Len(P(m - 1)) = m - 1
    BY <2>1, <2>2
  <2>4. \A i \in 1..(m - 1) : P(m)[i] = P(m - 1)[i]
    BY <1>3, <2>1
  <2>5. P(m)[m] = s[m]
    BY <1>3, <2>1
  <2>6. /\ Append(P(m - 1), s[m]) \in Seq(Records) /\ Len(Append(P(m - 1), s[m])) = m
        /\ Append(P(m - 1), s[m])[m] = s[m]
        /\ \A i \in 1..(m - 1) : Append(P(m - 1), s[m])[i] = P(m - 1)[i]
    BY <2>1, <2>2, <2>3, AppendProperties
  <2>7. ASSUME NEW i \in 1..m
        PROVE  P(m)[i] = Append(P(m - 1), s[m])[i]
    <3>1. i \in 1..(m - 1) \/ i = m
      BY <2>1
    <3>. QED  BY <2>4, <2>5, <2>6, <3>1
  <2>8. P(m) = Append(P(m - 1), s[m])
    BY <2>2, <2>3, <2>6, <2>7, SeqEqual
  <2>. QED  BY <2>1, <2>8
<1>. HIDE DEF L, P
<1>. DEFINE Told(m) == st[m] \in Schedules /\ (Timely(s) => Tells(st[m], P(m)))
            T == {m \in Nat : m <= L /\ ~Told(m)}
<1>6. T = {}
  <2>1. SUFFICES ASSUME T # {}
                 PROVE  FALSE
    OBVIOUS
  <2>2. PICK m \in T : \A n \in T : m <= n
    <3>1. T \in SUBSET Nat
      OBVIOUS
    <3>. HIDE DEF T
    <3>. QED  BY <2>1, <3>1, LeastNatural
  <2>3. m \in Nat /\ m <= L /\ ~Told(m)
    BY <2>2
  <2>4. CASE m = 0
    <3>1. P(0) \in Seq(Records)
      BY <1>2, <1>3
    <3>2. Told(0)
      BY <1>1, <1>4, <3>1, FreshTells
    <3>. HIDE DEF Told
    <3>. QED  BY <2>3, <2>4, <3>2
  <2>5. CASE m # 0
    <3>1. m - 1 \in Nat /\ m - 1 <= L /\ ~(m <= m - 1) /\ m \in 1..L /\ m - 1 \in 0..L
      BY <1>2, <2>3, <2>5
    <3>2. Told(m - 1)
      <4>1. m - 1 \notin T
        BY <2>2, <3>1
      <4>. HIDE DEF Told
      <4>. QED  BY <3>1, <4>1
    <3>3. st[m] = RestoreRecord(st[m - 1], s[m]) /\ P(m) = Append(P(m - 1), s[m])
          /\ s[m] \in Records /\ P(m - 1) \in Seq(Records)
      BY <1>1, <1>3, <1>5, <3>1
    <3>4. st[m] \in Schedules
      BY <3>2, <3>3, RestoreType
    <3>5. ASSUME Timely(s)
          PROVE  Tells(st[m], P(m))
      <4>1. NewStart(P(m - 1), s[m])
        <5>1. \A i \in 1..(m - 1) : i # m /\ i \in DOMAIN s /\ m \in DOMAIN s
          BY <1>2, <3>1
        <5>2. DOMAIN P(m - 1) = 1..(m - 1) /\ \A i \in 1..(m - 1) : P(m - 1)[i] = s[i]
          BY <1>3, <3>1
        <5>3. m \in DOMAIN s
          BY <1>2, <3>1
        <5>. QED  BY <3>5, <5>1, <5>2, <5>3 DEF NewStart, Timely
      <4>2. Tells(st[m - 1], P(m - 1)) /\ st[m - 1] \in Schedules
        BY <3>2, <3>5
      <4>. QED  BY <3>3, <4>1, <4>2, RestoreTells
    <3>. QED  BY <2>3, <3>4, <3>5
  <2>. QED  BY <2>4, <2>5
<1>7. Told(L)
  <2>1. L \notin T
    BY <1>6
  <2>. HIDE DEF Told
  <2>. QED  BY <1>2, <2>1
<1>. QED  BY <1>1, <1>4, <1>7

-----------------------------------------------------------------------------
(* Whoever has the same checkpoints restores the same.                     *)

Agree(s, t) == \A k : k[1] = activeScope => Checkpoint(s, k) = Checkpoint(t, k)

LEMMA SameSchedule ==
  ASSUME NEW s \in Seq(Records), NEW t \in Seq(Records), Timely(s), Timely(t), Agree(s, t)
  PROVE  RestoredSchedule(s) = RestoredSchedule(t)
<1>. DEFINE u == RestoredSchedule(s)
            v == RestoredSchedule(t)
<1>1. u \in Schedules /\ v \in Schedules /\ Tells(u, s) /\ Tells(v, t)
  BY RestoredTells
<1>. HIDE DEF u, v
<1>2. u.number = v.number
  <2>1. Checkpoint(s, NumberKey) = Checkpoint(t, NumberKey)
    BY DEF Agree, NumberKey
  <2>. QED  BY <1>1, <2>1 DEF Tells, TellsNumber
<1>3. u.last = v.last /\ u.idle = v.idle
  <2>1. Checkpoint(s, ScheduleKey) = Checkpoint(t, ScheduleKey)
    BY DEF Agree, ScheduleKey
  <2>. QED  BY <1>1, <2>1 DEF Tells, TellsLast
<1>4. ASSUME NEW c \in Candidates
      PROVE  u.cooldown[c] = v.cooldown[c]
  <2>1. Checkpoint(s, CandidateKey(c)) = Checkpoint(t, CandidateKey(c))
    BY DEF Agree, CandidateKey
  <2>. QED  BY <1>1, <2>1 DEF Tells, TellsCooldown
<1>5. u.cooldown = v.cooldown
  <2>1. u.cooldown \in [Candidates -> Pairs] /\ v.cooldown \in [Candidates -> Pairs]
    BY <1>1 DEF Schedules
  <2>. QED  BY <1>4, <2>1
<1>6. u = v
  BY <1>1, <1>2, <1>3, <1>5 DEF Schedules
<1>. QED  BY <1>6 DEF u, v

\* The attempts of the mission are the checkpoints of their keys.
LEMMA AttemptIsCheckpoint ==
  ASSUME NEW s \in Seq(Records), NEW x
  PROVE  x \in Attempts(s) <=>
           \E k : k[1] = activeScope /\ k[2] = "execution" /\ x \in Checkpoint(s, k)
<1>1. ASSUME NEW i \in DOMAIN s, s[i].type = "execution"
      PROVE  \E k : Keys(s[i]) = {k} /\ k[1] = s[i].scope /\ k[2] = "execution"
  <2>. DEFINE k == <<s[i].scope, "execution", <<s[i].candidate, s[i].attempt>> >>
  <2>1. Keys(s[i]) = {k} /\ k[1] = s[i].scope /\ k[2] = "execution"
    BY <1>1 DEF Keys
  <2>. HIDE DEF k
  <2>. QED  BY <2>1
<1>2. ASSUME NEW k, k[2] = "execution", NEW i \in Holders(s, k)
      PROVE  /\ i \in DOMAIN s /\ s[i].type = "execution" /\ Keys(s[i]) = {k} /\ s[i].scope = k[1]
             /\ Priority(s[i], k) = <<0, 0>>
  <2>1. i \in DOMAIN s /\ k \in Keys(s[i]) /\ s[i] \in Records
    BY HolderTypes DEF Holders
  <2>2. s[i].type = "execution" /\ s[i].scope = k[1]
    BY <1>2, <2>1, KeyKinds
  <2>. QED  BY <1>1, <1>2, <2>1, <2>2 DEF Priority
<1>3. ASSUME x \in Attempts(s)
      PROVE  \E k : k[1] = activeScope /\ k[2] = "execution" /\ x \in Checkpoint(s, k)
  <2>1. PICK j \in DOMAIN s : /\ x = s[j] /\ s[j].type = "execution" /\ s[j].scope = activeScope
                              /\ \A l \in DOMAIN s : l > j => Keys(s[l]) # Keys(s[j])
    BY <1>3 DEF Attempts
  <2>2. PICK k : Keys(s[j]) = {k} /\ k[1] = activeScope /\ k[2] = "execution"
    BY <1>1, <2>1
  <2>3. j \in Holders(s, k)
    BY <2>1, <2>2 DEF Holders
  <2>4. \A l \in Holders(s, k) : Beats(s, k, j, l)
    <3>1. ~Exceeds(<<0, 0>>, <<0, 0>>)
      BY DEF Exceeds
    <3>. QED  BY <1>2, <2>1, <2>2, <2>3, <3>1 DEF Beats
  <2>5. j \in Newest(s, k)
    BY <2>3, <2>4 DEF Newest, Beats
  <2>. QED  BY <2>1, <2>2, <2>5 DEF Checkpoint
<1>4. ASSUME NEW k, k[1] = activeScope, k[2] = "execution", x \in Checkpoint(s, k)
      PROVE  x \in Attempts(s)
  <2>1. PICK j \in Newest(s, k) : x = s[j]
    BY <1>4 DEF Checkpoint
  <2>2. j \in Holders(s, k) /\ \A l \in Holders(s, k) : Beats(s, k, j, l)
    BY DEF Newest, Beats
  <2>3. j \in DOMAIN s /\ s[j].type = "execution" /\ Keys(s[j]) = {k} /\ s[j].scope = activeScope
    BY <1>2, <1>4, <2>2
  <2>4. ASSUME NEW l \in DOMAIN s, l > j
        PROVE  Keys(s[l]) # Keys(s[j])
    <3>1. SUFFICES ASSUME Keys(s[l]) = Keys(s[j])
                   PROVE  FALSE
      OBVIOUS
    <3>2. l \in Holders(s, k)
      BY <2>3, <3>1 DEF Holders
    <3>3. Exceeds(<<0, 0>>, <<0, 0>>)
      BY <1>2, <1>4, <2>2, <2>4, <3>2 DEF Beats
    <3>. QED  BY <3>3 DEF Exceeds
  <2>. QED  BY <2>1, <2>3, <2>4 DEF Attempts
<1>. QED  BY <1>3, <1>4

LEMMA SameAttempts ==
  ASSUME NEW s \in Seq(Records), NEW t \in Seq(Records), Agree(s, t)
  PROVE  Attempts(s) = Attempts(t)
<1>1. ASSUME NEW x
      PROVE  x \in Attempts(s) <=> x \in Attempts(t)
  BY AttemptIsCheckpoint DEF Agree
<1>. QED  BY <1>1

-----------------------------------------------------------------------------
(* The store: what the file and the memory of the daemon hold.             *)

StoreTypes ==
  /\ daemon \in {"down", "loading", "up", "failed"}
  /\ activeScope \in Nat
  /\ records \in Seq(Records) /\ history \in Seq(Records) /\ file \in Seq(Lines)
  /\ nextCompaction \in Nat /\ loadCompacted \in BOOLEAN
  /\ ragged \in BOOLEAN /\ read \in 0..Len(file)

\* A daemon that is up has indexed the file, which ends with a newline; one that
\* loads has indexed the lines it has read, unless it compacted them.
Indexed ==
  /\ daemon = "up" => ~ragged /\ records = Intact(file)
  /\ daemon = "loading" /\ ~loadCompacted => records = Intact(SubSeq(file, 1, read))
  /\ daemon \in {"down", "up"} => read = 0

\* Nothing is of a later mission, and before the daemon is up of the active one.
Starting == daemon \in {"loading", "failed"}
Past(m) == m <= activeScope /\ (Starting => m < activeScope)

Scopes ==
  /\ \A i \in DOMAIN records : Past(records[i].scope)
  /\ \A i \in DOMAIN file : Readable(file[i]) => Past(file[i].scope)
  /\ \A i \in DOMAIN history : history[i].scope = activeScope
  /\ Starting => history = <<>>

StoreInv == StoreTypes /\ Indexed /\ Scopes /\ Agree(Intact(file), history)

\* No record has a key of another scope.
LEMMA OtherScope ==
  ASSUME NEW s \in Seq(Records), NEW k, \A i \in DOMAIN s : s[i].scope # k[1]
  PROVE  Checkpoint(s, k) = {}
<1>1. ASSUME NEW i \in DOMAIN s
      PROVE  k \notin Keys(s[i])
  <2>1. s[i] \in Records
    OBVIOUS
  <2>. QED  BY <2>1, KeyKinds
<1>. QED  BY <1>1, NoCheckpoint

LEMMA EmptyTells ==
  /\ \A k : Checkpoint(<<>>, k) = {}
  /\ Intact(<<>>) = <<>> /\ <<>> \in Seq(Records) /\ <<>> \in Seq(Lines)
<1>1. <<>> \in Seq(Records) /\ DOMAIN <<>> = {} /\ <<>> \in Seq(Lines)
  OBVIOUS
<1>2. \A k : Checkpoint(<<>>, k) = {}
  BY <1>1, NoCheckpoint
<1>. QED  BY <1>1, <1>2, IntactAll

LEMMA RecordsAreLines ==
  ASSUME NEW s \in Seq(Records)
  PROVE  s \in Seq(Lines)
BY DEF Lines

\* What holds of the scopes in a sequence holds of those it is compacted to.
LEMMA CompactedScopes ==
  ASSUME NEW s \in Seq(Records), NEW M, \A i \in DOMAIN s : s[i].scope \in M
  PROVE  \A i \in DOMAIN Compacted(s) : Compacted(s)[i].scope \in M
BY CompactedParts

LEMMA IntactScopes ==
  ASSUME NEW f \in Seq(Lines), NEW M, \A i \in DOMAIN f : Readable(f[i]) => f[i].scope \in M
  PROVE  \A i \in DOMAIN Intact(f) : Intact(f)[i].scope \in M
BY IntactType

LEMMA StartStore == StoreInv /\ Start => StoreInv'
<1>. SUFFICES ASSUME StoreInv, Start
              PROVE  StoreInv'
  OBVIOUS
<1>1. /\ daemon = "down" /\ daemon' = "loading" /\ activeScope' = activeScope + 1
      /\ records' = <<>> /\ read' = 0 /\ nextCompaction' = MaxBytes /\ loadCompacted' = FALSE
      /\ history' = <<>> /\ file' = file /\ ragged' = ragged
  BY DEF Start
<1>2. StoreTypes'
  <2>1. Len(file) \in Nat /\ 0 \in 0..Len(file) /\ MaxBytes \in Nat
    BY AuditAssumption DEF StoreInv, StoreTypes
  <2>2. <<>> \in Seq(Records) /\ FALSE \in BOOLEAN /\ activeScope + 1 \in Nat
    BY EmptyTells DEF StoreInv, StoreTypes
  <2>. QED  BY <1>1, <2>1, <2>2 DEF StoreInv, StoreTypes
<1>3. Indexed'
  <2>1. SubSeq(file, 1, 0) = <<>>
    BY DEF StoreInv, StoreTypes
  <2>. QED  BY <1>1, <2>1, EmptyTells DEF Indexed
<1>4. ASSUME NEW i \in DOMAIN file, Readable(file[i])
      PROVE  file[i].scope \in 0..activeScope
  <2>1. file[i] \in Records
    BY <1>4 DEF StoreInv, StoreTypes, Lines, Readable
  <2>2. file[i].scope <= activeScope
    BY <1>4 DEF StoreInv, Scopes, Past
  <2>. QED  BY <2>1, <2>2, RecordTypes DEF StoreInv, StoreTypes
<1>5. Scopes'
  <2>1. \A i \in DOMAIN file : Readable(file[i]) => file[i].scope < activeScope + 1
    BY <1>4 DEF StoreInv, StoreTypes
  <2>2. activeScope \in Nat /\ DOMAIN <<>> = {}
    BY DEF StoreInv, StoreTypes
  <2>3. \A i \in DOMAIN file : Readable(file[i]) => file[i].scope <= activeScope + 1
    BY <1>4, <2>2
  <2>4. \A m : Past(m)' <=> m <= activeScope + 1 /\ m < activeScope + 1
    BY <1>1 DEF Past, Starting
  <2>. QED  BY <1>1, <2>1, <2>2, <2>3, <2>4 DEF Scopes
<1>6. Agree(Intact(file), <<>>)'
  <2>1. \A i \in DOMAIN Intact(file) : Intact(file)[i].scope \in 0..activeScope
    BY <1>4, IntactScopes DEF StoreInv, StoreTypes
  <2>2. activeScope + 1 \notin 0..activeScope
    BY DEF StoreInv, StoreTypes
  <2>3. ASSUME NEW k, k[1] = activeScope + 1
        PROVE  Checkpoint(Intact(file), k) = {}
    <3>1. \A i \in DOMAIN Intact(file) : Intact(file)[i].scope # k[1]
      BY <2>1, <2>2, <2>3
    <3>2. Intact(file) \in Seq(Records)
      BY IntactType DEF StoreInv, StoreTypes
    <3>. QED  BY <3>1, <3>2, OtherScope
  <2>. QED  BY <1>1, <2>3, EmptyTells DEF Agree
<1>. QED  BY <1>1, <1>2, <1>3, <1>5, <1>6 DEF StoreInv

LEMMA LoadLineStore == StoreInv /\ LoadLine => StoreInv'
<1>. SUFFICES ASSUME StoreInv, LoadLine
              PROVE  StoreInv'
  OBVIOUS
<1>. DEFINE line == file[read + 1]
            s == Append(records, line)
<1>1. /\ daemon = "loading" /\ read < Len(file) /\ read' = read + 1
      /\ UNCHANGED <<daemon, activeScope, file, ragged, history>>
      /\ \/ /\ ~Readable(line)
            /\ UNCHANGED <<records, nextCompaction, loadCompacted>>
         \/ /\ Readable(line)
            /\ records' = s /\ UNCHANGED <<nextCompaction, loadCompacted>>
         \/ /\ Readable(line)
            /\ records' = Compacted(s)
            /\ nextCompaction' = NextCompaction(Compacted(s))
            /\ loadCompacted' = TRUE
  BY DEF LoadLine
<1>2. /\ file \in Seq(Lines) /\ read \in 0..Len(file) /\ line \in Lines /\ read + 1 \in DOMAIN file
      /\ records \in Seq(Records) /\ Len(file) \in Nat
  BY <1>1 DEF StoreInv, StoreTypes
<1>3. Readable(line) => line \in Records /\ Past(line.scope)
  BY <1>2 DEF Lines, Readable, StoreInv, Scopes
<1>4. Readable(line) =>
        /\ s \in Seq(Records) /\ Compacted(s) \in Seq(Records)
        /\ NextCompaction(Compacted(s)) \in Nat
  <2>1. Readable(line) => s \in Seq(Records)
    BY <1>2, <1>3
  <2>. HIDE DEF s
  <2>. QED  BY <2>1, CompactedParts, NextCompactionType
<1>5. StoreTypes'
  <2>1. read + 1 \in 0..Len(file) /\ TRUE \in BOOLEAN
    BY <1>1, <1>2
  <2>. HIDE DEF s, line
  <2>2. records' \in Seq(Records) /\ nextCompaction' \in Nat /\ loadCompacted' \in BOOLEAN
    BY <1>1, <1>4 DEF StoreInv, StoreTypes
  <2>. QED  BY <1>1, <2>1, <2>2 DEF StoreInv, StoreTypes
<1>6. ASSUME ~loadCompacted'
      PROVE  records' = Intact(SubSeq(file, 1, read + 1))
  <2>. DEFINE f == SubSeq(file, 1, read)
  <2>1. f \in Seq(Lines) /\ SubSeq(file, 1, read + 1) = Append(f, line)
    BY <1>2
  <2>2. records = Intact(f) /\ (records' = IF Readable(line) THEN s ELSE records)
    BY <1>1, <1>6 DEF StoreInv, Indexed
  <2>. HIDE DEF f, line
  <2>. QED  BY <1>2, <2>1, <2>2, IntactAppend
<1>7. Indexed'
  BY <1>1, <1>6 DEF Indexed
<1>8. ASSUME Readable(line)
      PROVE  /\ \A i \in DOMAIN s : Past(s[i].scope)
             /\ \A i \in DOMAIN Compacted(s) : Past(Compacted(s)[i].scope)
  <2>1. \A i \in DOMAIN s : Past(s[i].scope)
    <3>1. \A i \in DOMAIN s : (i \in DOMAIN records /\ s[i] = records[i]) \/ s[i] = line
      BY <1>2, <1>3, <1>8
    <3>. HIDE DEF s, line
    <3>. QED  BY <1>3, <1>8, <3>1 DEF StoreInv, Scopes
  <2>2. s \in Seq(Records)
    BY <1>4, <1>8
  <2>. HIDE DEF s
  <2>. QED  BY <2>1, <2>2, CompactedParts
<1>9. \A m : Past(m)' <=> Past(m)
  BY <1>1 DEF Past, Starting
<1>10. \A i \in DOMAIN records' : Past(records'[i].scope)
  <2>. HIDE DEF s, line
  <2>. QED  BY <1>1, <1>8 DEF StoreInv, Scopes
<1>11. Scopes'
  BY <1>1, <1>9, <1>10 DEF StoreInv, Scopes, Starting
<1>12. Agree(Intact(file), history)'
  BY <1>1 DEF StoreInv, Agree
<1>. QED  BY <1>5, <1>7, <1>11, <1>12 DEF StoreInv

\* A file no line of which is of a later mission, and a memory that has indexed it.
LEMMA Settled ==
  ASSUME StoreTypes, activeScope' = activeScope, daemon' \in {"up", "down"}, read' = 0,
         NEW f \in Seq(Lines), file' = f, NEW h \in Seq(Records), history' = h,
         \A i \in DOMAIN f : Readable(f[i]) => f[i].scope <= activeScope,
         \A i \in DOMAIN h : h[i].scope = activeScope,
         Agree(Intact(f), h),
         ragged' \in BOOLEAN, nextCompaction' \in Nat, loadCompacted' \in BOOLEAN,
         daemon' = "up" => ~ragged' /\ records' = Intact(f),
         daemon' = "down" => records' = <<>>
  PROVE  StoreInv'
<1>1. Intact(f) \in Seq(Records) /\ <<>> \in Seq(Records) /\ 0 \in 0..Len(f)
      /\ daemon' \in {"down", "loading", "up", "failed"}
  <2>1. Len(f) \in Nat
    OBVIOUS
  <2>. QED  BY <2>1, IntactType, EmptyTells
<1>2. records' \in Seq(Records)
  BY <1>1
<1>3. StoreTypes'
  BY <1>1, <1>2 DEF StoreTypes
<1>4. Indexed'
  BY DEF Indexed
<1>5. \A i \in DOMAIN records' : records'[i].scope <= activeScope
  <2>1. \A i \in DOMAIN Intact(f) : Intact(f)[i].scope <= activeScope
    BY IntactType
  <2>. QED  BY <2>1
<1>6. \A m : Past(m)' <=> m <= activeScope
  BY DEF Past, Starting
<1>7. Scopes'
  <2>1. ~Starting'
    BY DEF Starting
  <2>. QED  BY <1>5, <1>6, <2>1 DEF Scopes
<1>8. Agree(Intact(file), history)'
  BY DEF Agree
<1>. QED  BY <1>3, <1>4, <1>7, <1>8 DEF StoreInv

\* A compaction of what agrees with the history does, and its lines are records.
LEMMA CompactedAgrees ==
  ASSUME NEW s \in Seq(Records), NEW h \in Seq(Records), Agree(s, h), NEW n \in Nat,
         \A i \in DOMAIN s : s[i].scope <= n
  PROVE  /\ Compacted(s) \in Seq(Records) /\ Compacted(s) \in Seq(Lines)
         /\ Intact(Compacted(s)) = Compacted(s)
         /\ Agree(Compacted(s), h)
         /\ \A i \in DOMAIN Compacted(s) : Compacted(s)[i].scope <= n
         /\ NextCompaction(Compacted(s)) \in Nat
<1>1. Compacted(s) \in Seq(Records)
  BY CompactedParts
<1>2. \A k : k[1] = activeScope => Checkpoint(Compacted(s), k) = Checkpoint(s, k)
  BY CompactedCheckpoint
<1>3. \A i \in DOMAIN Compacted(s) : Compacted(s)[i].scope <= n
  BY CompactedParts
<1>4. Agree(Compacted(s), h)
  BY <1>2 DEF Agree
<1>. HIDE DEF Agree
<1>. QED  BY <1>1, <1>3, <1>4, IntactAll, RecordsAreLines, NextCompactionType

\* Whoever loaded all lines without compacting has indexed the file.
LEMMA LoadedStore ==
  ASSUME StoreInv, Loaded
  PROVE  /\ ~loadCompacted => records = Intact(file)
         /\ Agree(records, history) /\ history = <<>>
         /\ \A i \in DOMAIN records : records[i].scope <= activeScope
         /\ \A i \in DOMAIN file : Readable(file[i]) => file[i].scope <= activeScope
<1>1. /\ daemon = "loading" /\ read = Len(file) /\ history = <<>>
      /\ activeScope \in Nat /\ records \in Seq(Records) /\ file \in Seq(Lines)
      /\ \A i \in DOMAIN records : records[i].scope < activeScope
      /\ \A i \in DOMAIN file : Readable(file[i]) => file[i].scope <= activeScope
      /\ \A i \in DOMAIN records : records[i].scope <= activeScope
  BY DEF StoreInv, StoreTypes, Loaded, Scopes, Past, Starting
<1>2. SubSeq(file, 1, Len(file)) = file
  BY <1>1
<1>3. ~loadCompacted => records = Intact(file)
  BY <1>1, <1>2 DEF StoreInv, Indexed
<1>4. ASSUME NEW k, k[1] = activeScope
      PROVE  Checkpoint(records, k) = {}
  <2>1. \A i \in DOMAIN records : records[i].scope # k[1]
    <3>1. ASSUME NEW i \in DOMAIN records
          PROVE  records[i].scope # k[1]
      <4>1. records[i] \in Records /\ records[i].scope < activeScope
        BY <1>1
      <4>2. records[i].scope \in Nat
        BY <4>1, RecordTypes
      <4>. QED  BY <1>1, <1>4, <4>1, <4>2
    <3>. QED  BY <3>1
  <2>. QED  BY <1>1, <2>1, OtherScope
<1>. QED  BY <1>1, <1>3, <1>4, EmptyTells DEF Agree

LEMMA OpenFileStore == StoreInv /\ OpenFile => StoreInv'
<1>. SUFFICES ASSUME StoreInv, OpenFile
              PROVE  StoreInv'
  OBVIOUS
<1>. DEFINE c == Compacted(records)
<1>1. /\ Loaded /\ daemon' = "up" /\ ragged' = FALSE /\ read' = 0
      /\ activeScope' = activeScope /\ history' = history
      /\ IF loadCompacted \/ Len(file) >= nextCompaction
         THEN records' = c /\ file' = c /\ nextCompaction' = NextCompaction(c)
              /\ loadCompacted' = FALSE
         ELSE UNCHANGED <<records, file, nextCompaction, loadCompacted>>
  BY DEF OpenFile
<1>2. StoreTypes /\ records \in Seq(Records) /\ file \in Seq(Lines) /\ history \in Seq(Records)
      /\ nextCompaction \in Nat /\ loadCompacted \in BOOLEAN /\ activeScope \in Nat
  BY DEF StoreInv, StoreTypes
<1>3. /\ Agree(records, history) /\ Agree(Intact(file), history)
      /\ \A i \in DOMAIN history : history[i].scope = activeScope
  BY <1>1, LoadedStore DEF StoreInv, Scopes
<1>4. CASE loadCompacted \/ Len(file) >= nextCompaction
  <2>1. /\ c \in Seq(Records) /\ c \in Seq(Lines) /\ Intact(c) = c /\ Agree(c, history)
        /\ \A i \in DOMAIN c : c[i].scope <= activeScope
        /\ NextCompaction(c) \in Nat
    BY <1>1, <1>2, <1>3, LoadedStore, CompactedAgrees
  <2>. HIDE DEF c
  <2>. QED  BY <1>1, <1>2, <1>3, <1>4, <2>1, Settled
<1>5. CASE ~(loadCompacted \/ Len(file) >= nextCompaction)
  <2>1. records = Intact(file)
    BY <1>1, <1>5, LoadedStore
  <2>2. UNCHANGED <<records, file, nextCompaction, loadCompacted>>
    BY <1>1, <1>5
  <2>3. \A i \in DOMAIN file : Readable(file[i]) => file[i].scope <= activeScope
    BY <1>1, LoadedStore
  <2>. QED  BY <1>1, <1>2, <1>3, <2>1, <2>2, <2>3, Settled
<1>. QED  BY <1>4, <1>5

LEMMA LoadFailsStore == StoreInv /\ LoadFails => StoreInv'
<1>. SUFFICES ASSUME StoreInv, LoadFails
              PROVE  StoreInv'
  OBVIOUS
<1>1. /\ daemon = "loading" /\ daemon' = "failed" /\ activeScope' = activeScope
      /\ records' = records /\ nextCompaction' = nextCompaction /\ file' = file
      /\ loadCompacted' = loadCompacted /\ ragged' = ragged /\ read' = read /\ history' = history
  BY DEF LoadFails
<1>2. StoreTypes' /\ Indexed'
  BY <1>1 DEF StoreInv, StoreTypes, Indexed
<1>3. \A m : Past(m)' <=> Past(m)
  BY <1>1 DEF Past, Starting
<1>4. Scopes'
  BY <1>1, <1>3 DEF StoreInv, Scopes, Starting
<1>5. Agree(Intact(file), history)'
  BY <1>1 DEF StoreInv, Agree
<1>. QED  BY <1>2, <1>4, <1>5 DEF StoreInv

\* A daemon that is up writes a line after the others.
LEMMA WrittenLine ==
  ASSUME StoreInv, daemon = "up", NEW r \in Lines,
         Readable(r) => r.scope <= activeScope
  PROVE  /\ Written(r) \in Seq(Lines)
         /\ Intact(Written(r)) = IF Readable(r) THEN Append(records, r) ELSE records
         /\ \A i \in DOMAIN Written(r) : Readable(Written(r)[i]) => Written(r)[i].scope <= activeScope
<1>1. file \in Seq(Lines) /\ records = Intact(file) /\ Written(r) = Append(file, r)
  BY DEF StoreInv, StoreTypes, Indexed, Written
<1>2. Append(file, r) \in Seq(Lines)
  BY <1>1
<1>3. ASSUME NEW i \in DOMAIN Append(file, r), Readable(Append(file, r)[i])
      PROVE  Append(file, r)[i].scope <= activeScope
  <2>1. (i \in DOMAIN file /\ Append(file, r)[i] = file[i]) \/ Append(file, r)[i] = r
    BY <1>1
  <2>2. \A l \in DOMAIN file : Readable(file[l]) => file[l].scope <= activeScope
    BY DEF StoreInv, Scopes, Past
  <2>. QED  BY <1>3, <2>1, <2>2
<1>. QED  BY <1>1, <1>2, <1>3, IntactAppend

\* What a record does to the history and to what is indexed.
LEMMA AppendedRecord ==
  ASSUME StoreInv, daemon = "up", NEW r \in Records, r.scope <= activeScope
  PROVE  /\ Append(records, r) \in Seq(Records) /\ Appended(r) \in Seq(Records)
         /\ Agree(Append(records, r), Appended(r))
         /\ \A i \in DOMAIN Append(records, r) : Append(records, r)[i].scope <= activeScope
         /\ \A i \in DOMAIN Appended(r) : Appended(r)[i].scope = activeScope
<1>1. /\ records \in Seq(Records) /\ history \in Seq(Records) /\ Agree(records, history)
      /\ \A i \in DOMAIN records : records[i].scope <= activeScope
      /\ \A i \in DOMAIN history : history[i].scope = activeScope
  BY DEF StoreInv, StoreTypes, Indexed, Scopes, Past
<1>2. Append(records, r) \in Seq(Records) /\ Append(history, r) \in Seq(Records)
  BY <1>1
<1>3. Appended(r) \in Seq(Records)
  BY <1>1, <1>2 DEF Appended
<1>4. \A i \in DOMAIN Append(records, r) : Append(records, r)[i].scope <= activeScope
  <2>1. \A i \in DOMAIN Append(records, r) :
          (i \in DOMAIN records /\ Append(records, r)[i] = records[i]) \/ Append(records, r)[i] = r
    BY <1>1
  <2>. QED  BY <1>1, <2>1
<1>5. \A i \in DOMAIN Appended(r) : Appended(r)[i].scope = activeScope
  <2>1. \A i \in DOMAIN Append(history, r) :
          (i \in DOMAIN history /\ Append(history, r)[i] = history[i]) \/ Append(history, r)[i] = r
    BY <1>1
  <2>2. r.scope = activeScope => \A i \in DOMAIN Append(history, r) : Append(history, r)[i].scope = activeScope
    BY <1>1, <2>1
  <2>. QED  BY <1>1, <2>2 DEF Appended
<1>6. ASSUME NEW k, k[1] = activeScope
      PROVE  Checkpoint(Append(records, r), k) = Checkpoint(Appended(r), k)
  <2>1. Checkpoint(records, k) = Checkpoint(history, k)
    BY <1>1, <1>6 DEF Agree
  <2>2. CASE k \in Keys(r)
    <3>1. Appended(r) = Append(history, r)
      BY <1>6, <2>2, KeyKinds DEF Appended
    <3>. QED  BY <1>1, <2>1, <3>1, AppendAgrees
  <2>3. CASE k \notin Keys(r)
    <3>1. Checkpoint(Append(records, r), k) = Checkpoint(records, k)
      BY <1>1, <2>3, CheckpointAppend
    <3>2. Checkpoint(Append(history, r), k) = Checkpoint(history, k)
      BY <1>1, <2>3, CheckpointAppend
    <3>. QED  BY <2>1, <3>1, <3>2 DEF Appended
  <2>. QED  BY <2>2, <2>3
<1>7. Agree(Append(records, r), Appended(r))
  BY <1>6 DEF Agree
<1>. QED  BY <1>2, <1>3, <1>4, <1>5, <1>7

LEMMA AppendStore ==
  ASSUME NEW r \in Records, r.scope <= activeScope, StoreInv, AppendRecord(r)
  PROVE  StoreInv'
<1>. DEFINE s == Append(records, r)
            c == Compacted(s)
            w == Written(r)
            h == Appended(r)
<1>1. /\ daemon = "up" /\ daemon' = "up" /\ ragged' = ragged /\ read' = read
      /\ activeScope' = activeScope /\ history' = h /\ loadCompacted' = loadCompacted
      /\ \/ records' = s /\ file' = w /\ nextCompaction' = nextCompaction
         \/ records' = c /\ file' = c /\ nextCompaction' = NextCompaction(c)
         \/ CompactionFails(s, w)
  BY DEF AppendRecord
<1>2. /\ StoreTypes /\ activeScope \in Nat /\ nextCompaction \in Nat /\ read = 0 /\ ragged = FALSE
      /\ loadCompacted \in BOOLEAN
  BY <1>1 DEF StoreInv, StoreTypes, Indexed
<1>3. /\ s \in Seq(Records) /\ h \in Seq(Records) /\ Agree(s, h)
      /\ \A i \in DOMAIN s : s[i].scope <= activeScope
      /\ \A i \in DOMAIN h : h[i].scope = activeScope
  BY <1>1, AppendedRecord
<1>4. /\ w \in Seq(Lines) /\ Intact(w) = s
      /\ \A i \in DOMAIN w : Readable(w[i]) => w[i].scope <= activeScope
  BY <1>1, RecordTypes, WrittenLine DEF Lines
<1>. HIDE DEF s, w, h
<1>5. /\ c \in Seq(Records) /\ c \in Seq(Lines) /\ Intact(c) = c /\ Agree(c, h)
      /\ \A i \in DOMAIN c : c[i].scope <= activeScope
      /\ NextCompaction(c) \in Nat
  BY <1>2, <1>3, CompactedAgrees
<1>. HIDE DEF c
<1>6. CASE records' = s /\ file' = w /\ nextCompaction' = nextCompaction
  BY <1>1, <1>2, <1>3, <1>4, <1>6, Settled
<1>7. CASE records' = c /\ file' = c /\ nextCompaction' = NextCompaction(c)
  BY <1>1, <1>2, <1>3, <1>5, <1>7, Settled
<1>8. CASE CompactionFails(s, w)
  <2>1. Len(s) \in Nat /\ Len(w) \in Nat /\ MaxBytes \in Nat
    BY <1>3, <1>4, AuditAssumption
  <2>2. records' = s /\ file' = w /\ nextCompaction' \in Nat
    BY <1>8, <2>1 DEF CompactionFails
  <2>. QED  BY <1>1, <1>2, <1>3, <1>4, <2>2, Settled
<1>. QED  BY <1>1, <1>6, <1>7, <1>8

\* A daemon that is killed leaves the file.
LEMMA StoppedSettles ==
  ASSUME StoreInv, Stopped, NEW f \in Seq(Lines), file' = f, NEW h \in Seq(Records), history' = h,
         \A i \in DOMAIN f : Readable(f[i]) => f[i].scope <= activeScope,
         \A i \in DOMAIN h : h[i].scope = activeScope,
         Agree(Intact(f), h), ragged' \in BOOLEAN
  PROVE  StoreInv'
<1>1. /\ daemon' = "down" /\ records' = <<>> /\ read' = 0 /\ activeScope' = activeScope
      /\ nextCompaction' \in Nat /\ loadCompacted' \in BOOLEAN /\ StoreTypes
  BY AuditAssumption DEF Stopped, StoreInv
<1>. QED  BY <1>1, Settled

LEMMA HistoryType ==
  ASSUME StoreInv
  PROVE  /\ history \in Seq(Records) /\ \A i \in DOMAIN history : history[i].scope = activeScope
         /\ file \in Seq(Lines)
         /\ \A i \in DOMAIN file : Readable(file[i]) => file[i].scope <= activeScope
         /\ records \in Seq(Records) /\ activeScope \in Nat /\ ragged \in BOOLEAN
         /\ Agree(Intact(file), history)
BY DEF StoreInv, StoreTypes, Scopes, Past

LEMMA CrashStore == StoreInv /\ Crash => StoreInv'
<1>. SUFFICES ASSUME StoreInv, Crash
              PROVE  StoreInv'
  OBVIOUS
<1>1. Stopped /\ file' = file /\ history' = history /\ ragged' = ragged
  BY DEF Crash
<1>. QED  BY <1>1, HistoryType, StoppedSettles

LEMMA CrashOpeningStore == StoreInv /\ CrashOpening => StoreInv'
<1>. SUFFICES ASSUME StoreInv, CrashOpening
              PROVE  StoreInv'
  OBVIOUS
<1>. DEFINE c == Compacted(records)
<1>1. Loaded /\ Stopped /\ file' = c /\ history' = history /\ ragged' \in BOOLEAN
  BY DEF CrashOpening
<1>2. /\ c \in Seq(Lines) /\ Intact(c) = c /\ Agree(c, history) /\ c \in Seq(Records)
      /\ \A i \in DOMAIN c : c[i].scope <= activeScope
  BY <1>1, HistoryType, LoadedStore, CompactedAgrees
<1>. HIDE DEF c
<1>. QED  BY <1>1, <1>2, HistoryType, StoppedSettles

LEMMA CrashAppendingStore ==
  ASSUME NEW r \in Records, r.scope <= activeScope, StoreInv, CrashAppending(r)
  PROVE  StoreInv'
<1>. DEFINE s == Append(records, r)
            c == Compacted(s)
            w == Written(r)
            h == Appended(r)
<1>1. /\ daemon = "up" /\ Stopped /\ ragged' \in BOOLEAN
      /\ \/ \E x \in {Torn, Undecodable} : file' = Written(x) /\ history' = history
         \/ file' = w /\ history' = h
         \/ file' = c /\ history' = h
  BY DEF CrashAppending
<1>2. /\ s \in Seq(Records) /\ h \in Seq(Records) /\ Agree(s, h)
      /\ \A i \in DOMAIN s : s[i].scope <= activeScope
      /\ \A i \in DOMAIN h : h[i].scope = activeScope
  BY <1>1, AppendedRecord
<1>3. /\ w \in Seq(Lines) /\ Intact(w) = s
      /\ \A i \in DOMAIN w : Readable(w[i]) => w[i].scope <= activeScope
  BY <1>1, RecordTypes, WrittenLine DEF Lines
<1>. HIDE DEF s, w, h
<1>4. /\ c \in Seq(Records) /\ c \in Seq(Lines) /\ Intact(c) = c /\ Agree(c, h)
      /\ \A i \in DOMAIN c : c[i].scope <= activeScope
  BY <1>2, HistoryType, CompactedAgrees
<1>. HIDE DEF c
<1>5. ASSUME NEW x \in {Torn, Undecodable}, file' = Written(x), history' = history
      PROVE  StoreInv'
  <2>1. x \in Lines /\ ~Readable(x)
    BY DEF Lines, Readable
  <2>2. records = Intact(file)
    BY <1>1 DEF StoreInv, Indexed
  <2>3. /\ Written(x) \in Seq(Lines) /\ Intact(Written(x)) = Intact(file)
        /\ \A i \in DOMAIN Written(x) : Readable(Written(x)[i]) => Written(x)[i].scope <= activeScope
    BY <1>1, <2>1, <2>2, WrittenLine
  <2>. QED  BY <1>1, <1>5, <2>3, HistoryType, StoppedSettles
<1>6. CASE file' = w /\ history' = h
  BY <1>1, <1>2, <1>3, <1>6, StoppedSettles
<1>7. CASE file' = c /\ history' = h
  BY <1>1, <1>2, <1>4, <1>7, StoppedSettles
<1>. QED  BY <1>1, <1>5, <1>6, <1>7

\* The next mission has written nothing yet.
LEMMA NewMissionStore == StoreInv /\ NewMission => StoreInv'
<1>. SUFFICES ASSUME StoreInv, NewMission
              PROVE  StoreInv'
  OBVIOUS
<1>1. /\ daemon = "up" /\ daemon' = "up" /\ activeScope' = activeScope + 1 /\ history' = <<>>
      /\ records' = records /\ nextCompaction' = nextCompaction /\ file' = file
      /\ loadCompacted' = loadCompacted /\ ragged' = ragged /\ read' = read
  BY DEF NewMission
<1>2. activeScope \in Nat /\ activeScope + 1 \in Nat
  BY DEF StoreInv, StoreTypes
<1>3. StoreTypes'
  BY <1>1, <1>2, EmptyTells DEF StoreInv, StoreTypes
<1>4. Indexed'
  BY <1>1 DEF StoreInv, Indexed
<1>5. /\ \A i \in DOMAIN records : records[i].scope \in 0..activeScope
      /\ \A i \in DOMAIN file : Readable(file[i]) => file[i].scope \in 0..activeScope
  <2>1. ASSUME NEW i \in DOMAIN records
        PROVE  records[i].scope \in 0..activeScope
    <3>1. records[i] \in Records /\ records[i].scope <= activeScope
      BY DEF StoreInv, StoreTypes, Scopes, Past
    <3>. QED  BY <1>2, <3>1, RecordTypes
  <2>2. ASSUME NEW i \in DOMAIN file, Readable(file[i])
        PROVE  file[i].scope \in 0..activeScope
    <3>1. file[i] \in Records /\ file[i].scope <= activeScope
      BY <2>2 DEF StoreInv, StoreTypes, Scopes, Past, Lines, Readable
    <3>. QED  BY <1>2, <3>1, RecordTypes
  <2>. QED  BY <2>1, <2>2
<1>6. Scopes'
  <2>1. \A m : Past(m)' <=> m <= activeScope + 1
    BY <1>1 DEF Past, Starting
  <2>2. \A m \in 0..activeScope : m <= activeScope + 1
    BY <1>2
  <2>3. ~Starting' /\ DOMAIN <<>> = {}
    BY <1>1 DEF Starting
  <2>. QED  BY <1>1, <1>5, <2>1, <2>2, <2>3 DEF Scopes
<1>7. Agree(Intact(file), <<>>)'
  <2>1. file \in Seq(Lines) /\ Intact(file) \in Seq(Records)
    BY HistoryType, IntactType
  <2>2. \A i \in DOMAIN Intact(file) : Intact(file)[i].scope \in 0..activeScope
    BY <1>5, <2>1, IntactScopes
  <2>3. activeScope + 1 \notin 0..activeScope
    BY <1>2
  <2>4. \A k : k[1] = activeScope + 1 => Checkpoint(Intact(file), k) = {}
    BY <2>1, <2>2, <2>3, OtherScope
  <2>. QED  BY <1>1, <2>4, EmptyTells DEF Agree
<1>. QED  BY <1>1, <1>3, <1>4, <1>6, <1>7 DEF StoreInv

LEMMA SameStore == StoreInv /\ UNCHANGED storeVars => StoreInv'
<1>. SUFFICES ASSUME StoreInv, UNCHANGED storeVars
              PROVE  StoreInv'
  OBVIOUS
<1>1. /\ daemon' = daemon /\ activeScope' = activeScope /\ records' = records
      /\ nextCompaction' = nextCompaction /\ loadCompacted' = loadCompacted
      /\ file' = file /\ ragged' = ragged /\ read' = read /\ history' = history
  BY DEF storeVars
<1>2. StoreTypes' /\ Indexed'
  BY <1>1 DEF StoreInv, StoreTypes, Indexed
<1>3. \A m : Past(m)' <=> Past(m)
  BY <1>1 DEF Past, Starting
<1>4. Scopes' /\ Agree(Intact(file), history)'
  BY <1>1, <1>3 DEF StoreInv, Scopes, Starting, Agree
<1>. QED  BY <1>2, <1>4 DEF StoreInv

-----------------------------------------------------------------------------
(* The client: no two cycles of a mission start at the same time, wherever *)
(* they are.                                                               *)

CycleOf(r, n) == r.type = "cycle" /\ r.scope = n

\* The cycles of mission n in s have started by time t, each at its own time, and
\* none at the time of one in W.
Apart(s, W, t, n) ==
  \A i \in DOMAIN s : CycleOf(s[i], n) =>
    /\ s[i].started \in 1..t
    /\ \A j \in DOMAIN s : CycleOf(s[j], n) /\ s[j].started = s[i].started => j = i
    /\ \A w \in W : CycleOf(w, n) => w.started # s[i].started

\* So have those the client waits for (M) and those on their way (L).
Distinct(M, L, t, n) ==
  \A w \in M \cup L : CycleOf(w, n) =>
    /\ w.started \in 1..t
    /\ \A v \in M \cup L : CycleOf(v, n) /\ v.started = w.started => v = w
    /\ ~(w \in M /\ w \in L)

Mine == {own[i] : i \in DOMAIN own}

ClientTypes ==
  /\ clock \in Nat /\ cycles \in Nat /\ sent \in 0..MaxWrites
  /\ own \in Seq(Records) /\ Len(own) <= 1
  /\ late \in SUBSET Records

\* Nothing is on its way to a daemon that is not up, nor for a later mission.
Requests ==
  /\ daemon # "up" => own = <<>> /\ late = {}
  /\ \A w \in Mine \cup late : w.scope <= activeScope

Starts ==
  daemon = "up" =>
    /\ Apart(records, Mine \cup late, clock, activeScope)
    /\ Apart(history, Mine \cup late, clock, activeScope)
    /\ Distinct(Mine, late, clock, activeScope)

IInv == StoreInv /\ ClientTypes /\ Requests /\ Starts

LEMMA ApartTimely ==
  ASSUME NEW s, NEW W, NEW t \in Nat, Apart(s, W, t, activeScope)
  PROVE  Timely(s)
BY DEF Apart, Timely, CurrentCycle, CycleOf

LEMMA ApartOthers ==
  ASSUME NEW s, NEW W, NEW t, NEW n, \A i \in DOMAIN s : s[i].scope # n
  PROVE  Apart(s, W, t, n)
BY DEF Apart, CycleOf

\* Fewer on their way, and a later time, change nothing.
LEMMA ApartFewer ==
  ASSUME NEW s, NEW W, NEW V, NEW t \in Nat, NEW u \in Nat, t <= u, NEW n, Apart(s, W, t, n),
         \A v \in V : v \in W \/ ~CycleOf(v, n) \/ v.started > t
  PROVE  Apart(s, V, u, n)
<1>1. ASSUME NEW i \in DOMAIN s, CycleOf(s[i], n)
      PROVE  /\ s[i].started \in 1..u
             /\ \A v \in V : CycleOf(v, n) => v.started # s[i].started
  <2>1. s[i].started \in 1..t /\ \A w \in W : CycleOf(w, n) => w.started # s[i].started
    BY <1>1 DEF Apart
  <2>2. \A v : v > t => v # s[i].started
    BY <2>1
  <2>. QED  BY <2>1, <2>2
<1>. QED  BY <1>1 DEF Apart

\* A cycle that arrives is apart from those before.
LEMMA ApartAppend ==
  ASSUME NEW s \in Seq(Records), NEW r \in Records, NEW W, NEW V, V \subseteq W, r \in W,
         NEW t \in Nat, NEW n, Apart(s, W, t, n),
         CycleOf(r, n) => r.started \in 1..t,
         CycleOf(r, n) => \A v \in V : CycleOf(v, n) => v.started # r.started
  PROVE  Apart(Append(s, r), V, t, n)
<1>. DEFINE a == Append(s, r)
            l == Len(s) + 1
<1>1. /\ DOMAIN a = DOMAIN s \cup {l} /\ l \notin DOMAIN s /\ a[l] = r
      /\ \A i \in DOMAIN s : a[i] = s[i]
  OBVIOUS
<1>. HIDE DEF a, l
<1>2. ASSUME NEW i \in DOMAIN s, CycleOf(s[i], n)
      PROVE  /\ s[i].started \in 1..t
             /\ \A j \in DOMAIN a : CycleOf(a[j], n) /\ a[j].started = s[i].started => j = i
             /\ \A v \in V : CycleOf(v, n) => v.started # s[i].started
  <2>1. /\ s[i].started \in 1..t
        /\ \A j \in DOMAIN s : CycleOf(s[j], n) /\ s[j].started = s[i].started => j = i
        /\ \A w \in W : CycleOf(w, n) => w.started # s[i].started
    BY <1>2 DEF Apart
  <2>2. CycleOf(r, n) => r.started # s[i].started
    BY <2>1
  <2>. QED  BY <1>1, <2>1, <2>2
<1>3. ASSUME CycleOf(r, n)
      PROVE  /\ \A j \in DOMAIN a : CycleOf(a[j], n) /\ a[j].started = r.started => j = l
  <2>1. \A j \in DOMAIN s : CycleOf(s[j], n) => s[j].started # r.started
    BY <1>3 DEF Apart
  <2>. QED  BY <1>1, <2>1
<1>4. \A i \in DOMAIN a : CycleOf(a[i], n) =>
        /\ a[i].started \in 1..t
        /\ \A j \in DOMAIN a : CycleOf(a[j], n) /\ a[j].started = a[i].started => j = i
        /\ \A w \in V : CycleOf(w, n) => w.started # a[i].started
  BY <1>1, <1>2, <1>3
<1>. QED  BY <1>4 DEF Apart, a

\* A compaction keeps the cycles apart.
LEMMA ApartCompacted ==
  ASSUME NEW s \in Seq(Records), NEW W, NEW t, NEW n, Apart(s, W, t, n)
  PROVE  Apart(Compacted(s), W, t, n)
<1>. DEFINE K == Protected(s) \cup RecentHistory(s)
            c == Compacted(s)
<1>1. K \in SUBSET (1..Len(s)) /\ c = Kept(s, K) /\ DOMAIN s = 1..Len(s)
  <2>1. K \in SUBSET (1..Len(s))
    BY CompactedParts
  <2>2. c = Kept(s, K)
    BY DEF Compacted
  <2>. QED  BY <2>1, <2>2
<1>. HIDE DEF K
<1>2. DOMAIN c = 1..Cardinality(K) /\ Positions(K)
  BY <1>1, KeptDomain, PositionsOf
<1>3. ASSUME NEW i \in DOMAIN c
      PROVE  \E k \in K : k \in DOMAIN s /\ Place(K, k) = i /\ c[i] = s[k]
  <2>1. \A z : \A p \in 1..Cardinality(K) : \E k \in K : Place(K, k) = p /\ Kept(z, K)[p] = z[k]
    <3>1. Positions(K)
      BY <1>2
    <3>. HIDE DEF c
    <3>. QED  BY <3>1, KeptFrom
  <2>2. \A p \in 1..Cardinality(K) : \E k \in K : Place(K, k) = p /\ Kept(s, K)[p] = s[k]
    BY <2>1, Zenon
  <2>3. \A k \in K : k \in DOMAIN s
    BY <1>1
  <2>. HIDE DEF c
  <2>. QED  BY <1>1, <1>2, <1>3, <2>2, <2>3, Zenon
<1>. HIDE DEF c
<1>4. ASSUME NEW i \in DOMAIN c, CycleOf(c[i], n)
      PROVE  /\ c[i].started \in 1..t
             /\ \A j \in DOMAIN c : CycleOf(c[j], n) /\ c[j].started = c[i].started => j = i
             /\ \A w \in W : CycleOf(w, n) => w.started # c[i].started
  <2>1. PICK k \in K : k \in DOMAIN s /\ Place(K, k) = i /\ c[i] = s[k]
    BY <1>3, <1>4
  <2>2. ASSUME NEW j \in DOMAIN c, CycleOf(c[j], n), c[j].started = c[i].started
        PROVE  j = i
    <3>1. PICK h \in K : h \in DOMAIN s /\ Place(K, h) = j /\ c[j] = s[h]
      BY <1>3, <2>2
    <3>2. h = k
      BY <1>4, <2>1, <2>2, <3>1 DEF Apart
    <3>. QED  BY <2>1, <3>1, <3>2
  <2>. QED  BY <1>4, <2>1, <2>2 DEF Apart
<1>. QED  BY <1>4 DEF Apart, c

LEMMA AppendApart ==
  ASSUME NEW r \in Records, r.scope <= activeScope, StoreInv, AppendRecord(r),
         NEW W, NEW V, V \subseteq W, r \in W, NEW t \in Nat,
         Apart(records, W, t, activeScope), Apart(history, W, t, activeScope),
         CycleOf(r, activeScope) => r.started \in 1..t,
         CycleOf(r, activeScope) =>
           \A v \in V : CycleOf(v, activeScope) => v.started # r.started
  PROVE  Apart(records', V, t, activeScope) /\ Apart(history', V, t, activeScope)
<1>1. /\ history' = Appended(r)
      /\ records' = Append(records, r) \/ records' = Compacted(Append(records, r))
  BY DEF AppendRecord, CompactionFails
<1>2. records \in Seq(Records) /\ history \in Seq(Records)
  BY HistoryType
<1>3. Append(records, r) \in Seq(Records)
  BY <1>2
<1>4. Apart(Append(records, r), V, t, activeScope) /\ Apart(Append(history, r), V, t, activeScope)
  BY <1>2, ApartAppend
<1>5. Apart(Compacted(Append(records, r)), V, t, activeScope)
  BY <1>3, <1>4, ApartCompacted
<1>6. Apart(history, V, t, activeScope)
  BY ApartFewer
<1>. QED  BY <1>1, <1>4, <1>5, <1>6 DEF Appended

\* What the client has sent is a record of the mission or of one before.
LEMMA MineTypes ==
  ASSUME ClientTypes
  PROVE  /\ Mine \in SUBSET Records
         /\ own = <<>> => Mine = {}
         /\ own # <<>> => Mine = {own[1]}
<1>1. Len(own) \in Nat /\ DOMAIN own = 1..Len(own) /\ \A i \in DOMAIN own : own[i] \in Records
      /\ Len(own) <= 1
  BY DEF ClientTypes
<1>2. own # <<>> => Len(own) = 1
  BY <1>1 DEF ClientTypes
<1>. QED  BY <1>1, <1>2 DEF Mine

LEMMA ThisMine ==
  ASSUME NEW r, own' = <<r>>
  PROVE  Mine' = {r}
<1>1. DOMAIN <<r>> = {1} /\ <<r>>[1] = r
  OBVIOUS
<1>. QED  BY <1>1 DEF Mine

LEMMA NothingMine ==
  ASSUME own' = <<>>
  PROVE  Mine' = {} /\ own' \in Seq(Records) /\ Len(own') <= 1
BY DEF Mine

\* A record is sent.
LEMMA SendKeeps ==
  ASSUME IInv, NEW r \in Records, r.scope = activeScope, Send(r), clock' \in Nat, clock <= clock',
         cycles' \in Nat,
         r.type = "cycle" => r.started = clock' /\ clock' > clock
  PROVE  IInv'
<1>1. /\ daemon = "up" /\ own = <<>> /\ sent < MaxWrites /\ sent' = sent + 1 /\ own' = <<r>>
      /\ UNCHANGED storeVars /\ late' = late
      /\ daemon' = daemon /\ activeScope' = activeScope /\ records' = records /\ history' = history
  BY DEF Send, storeVars
<1>2. Mine = {} /\ Mine' = {r} /\ activeScope \in Nat /\ clock \in Nat /\ late \in SUBSET Records
  BY <1>1, MineTypes, ThisMine, HistoryType DEF IInv, ClientTypes
<1>3. StoreInv'
  BY <1>1, SameStore DEF IInv
<1>4. ClientTypes'
  <2>1. sent + 1 \in 0..MaxWrites
    BY <1>1, RecoveryAssumption DEF IInv, ClientTypes
  <2>2. <<r>> \in Seq(Records) /\ Len(<<r>>) <= 1
    OBVIOUS
  <2>. QED  BY <1>1, <1>2, <2>1, <2>2 DEF IInv, ClientTypes
<1>5. Requests'
  BY <1>1, <1>2 DEF IInv, Requests
<1>6. CycleOf(r, activeScope) => r.started = clock' /\ r.started > clock
  BY DEF CycleOf
<1>7. /\ Apart(records, Mine \cup late, clock, activeScope)
      /\ Apart(history, Mine \cup late, clock, activeScope)
      /\ Distinct({}, late, clock, activeScope)
  BY <1>1, <1>2 DEF IInv, Starts
<1>8. \A v \in {r} \cup late :
        v \in Mine \cup late \/ ~CycleOf(v, activeScope) \/ v.started > clock
  BY <1>6
<1>9. /\ Apart(records, {r} \cup late, clock', activeScope)
      /\ Apart(history, {r} \cup late, clock', activeScope)
  BY <1>2, <1>7, <1>8, ApartFewer
<1>10. Distinct({r}, late, clock', activeScope)
  <2>1. ASSUME NEW w \in late, CycleOf(w, activeScope)
        PROVE  /\ w.started \in 1..clock' /\ w.started <= clock
               /\ \A v \in late : CycleOf(v, activeScope) /\ v.started = w.started => v = w
    <3>1. /\ w.started \in 1..clock
          /\ \A v \in late : CycleOf(v, activeScope) /\ v.started = w.started => v = w
      BY <1>7, <2>1 DEF Distinct
    <3>. QED  BY <1>2, <3>1
  <2>2. CycleOf(r, activeScope) => r.started \in 1..clock'
    BY <1>2, <1>6
  <2>3. \A w \in late : CycleOf(w, activeScope) /\ CycleOf(r, activeScope) => w.started # r.started
    BY <1>2, <1>6, <2>1
  <2>4. CycleOf(r, activeScope) => r \notin late
    BY <2>3
  <2>. QED  BY <2>1, <2>2, <2>3, <2>4 DEF Distinct
<1>11. Starts'
  BY <1>1, <1>2, <1>9, <1>10 DEF Starts
<1>. QED  BY <1>3, <1>4, <1>5, <1>11 DEF IInv

LEMMA SendCycleKeeps == IInv /\ SendCycle => IInv'
<1>. SUFFICES ASSUME IInv, SendCycle
              PROVE  IInv'
  OBVIOUS
<1>1. PICK d \in [Candidates -> Cooldowns \cup {0}] :
        Send([type |-> "cycle", scope |-> activeScope, number |-> cycles + 1,
              started |-> clock + 1,
              until |-> [c \in Candidates |-> IF d[c] = 0 THEN 0 ELSE clock + 1 + d[c]]])
  BY DEF SendCycle
<1>. DEFINE u == [c \in Candidates |-> IF d[c] = 0 THEN 0 ELSE clock + 1 + d[c]]
            r == [type |-> "cycle", scope |-> activeScope, number |-> cycles + 1,
                  started |-> clock + 1, until |-> u]
<1>2. /\ clock' = clock + 1 /\ cycles' = cycles + 1
      /\ clock \in Nat /\ cycles \in Nat /\ activeScope \in Nat
  BY HistoryType DEF SendCycle, IInv, ClientTypes
<1>3. u \in [Candidates -> Nat]
  <2>1. ASSUME NEW c \in Candidates
        PROVE  d[c] \in Nat
    <3>1. d[c] \in Cooldowns \cup {0}
      OBVIOUS
    <3>2. \A x : x \in Cooldowns => x \in Nat
      BY RecoveryAssumption
    <3>. HIDE DEF u, r
    <3>. QED  BY <3>1, <3>2
  <2>2. ASSUME NEW c \in Candidates
        PROVE  (IF d[c] = 0 THEN 0 ELSE clock + 1 + d[c]) \in Nat
    BY <1>2, <2>1
  <2>. QED  BY <2>2
<1>4. Send(r)
  BY <1>1
<1>. HIDE DEF u
<1>5. r \in Records /\ r.type = "cycle" /\ r.scope = activeScope /\ r.started = clock + 1
  BY <1>2, <1>3 DEF Records, Cycles
<1>. HIDE DEF r
<1>. QED  BY <1>2, <1>4, <1>5, SendKeeps

LEMMA AttemptTypes ==
  ASSUME NEW s \in Seq(Records), NEW x \in Interrupted(s)
  PROVE  x[1] \in Candidates /\ x[2] \in Nat
<1>1. PICK e \in Attempts(s) : x = <<e.candidate, e.attempt>>
  BY DEF Interrupted
<1>2. e \in Records /\ e.type = "execution"
  BY DEF Attempts
<1>3. e \in Executions
  BY <1>2, RecordTypes
<1>. QED  BY <1>1, <1>3 DEF Executions

LEMMA SendExecutionKeeps == IInv /\ SendExecution => IInv'
<1>. SUFFICES ASSUME IInv, SendExecution
              PROVE  IInv'
  OBVIOUS
<1>1. PICK a \in (Candidates \X {clock + 1}) \cup Interrupted(records), ended \in {0, clock + 1} :
        Send([type |-> "execution", scope |-> activeScope, candidate |-> a[1],
              attempt |-> a[2], ended |-> ended])
  BY DEF SendExecution
<1>. DEFINE r == [type |-> "execution", scope |-> activeScope, candidate |-> a[1],
                  attempt |-> a[2], ended |-> ended]
<1>2. /\ clock' = clock /\ cycles' = cycles
      /\ clock \in Nat /\ cycles \in Nat /\ activeScope \in Nat
      /\ records \in Seq(Records)
  BY HistoryType DEF SendExecution, IInv, ClientTypes
<1>3. a[1] \in Candidates /\ a[2] \in Nat /\ ended \in Nat
  BY <1>2, AttemptTypes
<1>4. Send(r)
  BY <1>1
<1>5. r \in Records /\ r.type = "execution" /\ r.scope = activeScope
  BY <1>2, <1>3 DEF Records, Executions
<1>. HIDE DEF r
<1>. QED  BY <1>2, <1>4, <1>5, SendKeeps

LEMMA SendNoteKeeps == IInv /\ SendNote => IInv'
<1>. SUFFICES ASSUME IInv, SendNote
              PROVE  IInv'
  OBVIOUS
<1>. DEFINE r == [type |-> "note", scope |-> activeScope]
<1>1. Send(r)
  BY DEF SendNote
<1>2. /\ clock' = clock /\ cycles' = cycles
      /\ clock \in Nat /\ cycles \in Nat /\ activeScope \in Nat
  BY HistoryType DEF SendNote, IInv, ClientTypes
<1>3. r \in Records /\ r.type = "note" /\ r.scope = activeScope
  BY <1>2 DEF Records, Notes
<1>. HIDE DEF r
<1>. QED  BY <1>1, <1>2, <1>3, SendKeeps

\* A record the client sent arrives: that it waits for, or one on its way.
LEMMA ArrivalKeeps ==
  ASSUME IInv, NEW r \in Mine \cup late, AppendRecord(r), NEW M, NEW L,
         Mine' = M, late' = L, M \subseteq Mine, L \subseteq late,
         CycleOf(r, activeScope) => r \notin M \cup L,
         own' \in Seq(Records), Len(own') <= 1,
         UNCHANGED <<clock, cycles, sent>>
  PROVE  IInv'
<1>1. /\ daemon = "up" /\ daemon' = "up" /\ activeScope' = activeScope
      /\ clock' = clock /\ cycles' = cycles /\ sent' = sent
  BY DEF AppendRecord
<1>2. /\ Mine \in SUBSET Records /\ late \in SUBSET Records /\ clock \in Nat
      /\ r \in Records /\ r.scope <= activeScope
      /\ Apart(records, Mine \cup late, clock, activeScope)
      /\ Apart(history, Mine \cup late, clock, activeScope)
      /\ Distinct(Mine, late, clock, activeScope)
  BY <1>1, MineTypes DEF IInv, ClientTypes, Requests, Starts
<1>3. StoreInv'
  BY <1>2, AppendStore DEF IInv
<1>4. ClientTypes'
  BY <1>1, <1>2 DEF IInv, ClientTypes
<1>5. Requests'
  BY <1>1 DEF IInv, Requests
<1>6. /\ CycleOf(r, activeScope) => r.started \in 1..clock
      /\ CycleOf(r, activeScope) =>
           \A v \in M \cup L : CycleOf(v, activeScope) => v.started # r.started
  <2>1. CycleOf(r, activeScope) =>
          /\ r.started \in 1..clock
          /\ \A v \in Mine \cup late : CycleOf(v, activeScope) /\ v.started = r.started => v = r
    BY <1>2 DEF Distinct
  <2>. QED  BY <2>1
<1>7. /\ Apart(records', M \cup L, clock, activeScope)
      /\ Apart(history', M \cup L, clock, activeScope)
  <2>1. M \cup L \subseteq Mine \cup late
    OBVIOUS
  <2>. QED  BY <1>2, <1>6, <2>1, AppendApart DEF IInv
<1>8. Distinct(M, L, clock, activeScope)
  BY <1>2 DEF Distinct
<1>9. Starts'
  BY <1>1, <1>7, <1>8 DEF Starts
<1>. QED  BY <1>3, <1>4, <1>5, <1>9 DEF IInv

LEMMA OnceEach ==
  ASSUME IInv, daemon = "up", NEW r, r \in Mine, r \in late
  PROVE  ~CycleOf(r, activeScope)
BY DEF IInv, Starts, Distinct

LEMMA AnswerKeeps == IInv /\ Answer => IInv'
<1>. SUFFICES ASSUME IInv, Answer
              PROVE  IInv'
  OBVIOUS
<1>1. /\ own # <<>> /\ AppendRecord(own[1]) /\ own' = <<>> /\ late' = late
      /\ UNCHANGED <<clock, cycles, sent>>
  BY DEF Answer
<1>2. Mine = {own[1]} /\ Mine' = {} /\ own' \in Seq(Records) /\ Len(own') <= 1
  BY <1>1, MineTypes, NothingMine DEF IInv
<1>3. daemon = "up"
  BY <1>1 DEF AppendRecord
<1>4. CycleOf(own[1], activeScope) => own[1] \notin {} \cup late
  BY <1>2, <1>3, OnceEach
<1>. QED  BY <1>1, <1>2, <1>4, ArrivalKeeps

LEMMA AnswerLateKeeps == IInv /\ AnswerLate => IInv'
<1>. SUFFICES ASSUME IInv, AnswerLate
              PROVE  IInv'
  OBVIOUS
<1>1. PICK r \in late : AppendRecord(r) /\ late' = late \ {r}
  BY DEF AnswerLate
<1>2. own' = own /\ UNCHANGED <<clock, cycles, sent>>
  BY DEF AnswerLate
<1>3. Mine' = Mine /\ own' \in Seq(Records) /\ Len(own') <= 1 /\ daemon = "up"
  BY <1>1, <1>2 DEF Mine, IInv, ClientTypes, AppendRecord
<1>4. CycleOf(r, activeScope) => r \notin Mine \cup (late \ {r})
  BY <1>3, OnceEach
<1>. QED  BY <1>1, <1>2, <1>3, <1>4, ArrivalKeeps

\* What is sent is no longer waited for.
LEMMA AbandonKeeps ==
  ASSUME IInv, daemon = "up", Abandon, UNCHANGED storeVars,
         clock' = clock, cycles' \in Nat, sent' = sent
  PROVE  IInv'
<1>1. /\ own' = <<>> /\ late' = late \cup Mine
      /\ daemon' = daemon /\ activeScope' = activeScope /\ records' = records /\ history' = history
  BY DEF Abandon, Mine, storeVars
<1>2. /\ Mine \in SUBSET Records /\ late \in SUBSET Records
      /\ Mine' = {} /\ own' \in Seq(Records) /\ Len(own') <= 1
  BY <1>1, MineTypes, NothingMine DEF IInv, ClientTypes
<1>3. StoreInv'
  BY SameStore DEF IInv
<1>4. ClientTypes'
  BY <1>1, <1>2 DEF IInv, ClientTypes
<1>5. Requests'
  BY <1>1, <1>2 DEF IInv, Requests
<1>6. {} \cup (late \cup Mine) = Mine \cup late
  OBVIOUS
<1>7. Distinct({}, late \cup Mine, clock, activeScope)
  <2>1. Distinct(Mine, late, clock, activeScope)
    BY DEF IInv, Starts
  <2>. QED  BY <2>1 DEF Distinct
<1>8. Starts'
  BY <1>1, <1>2, <1>6, <1>7 DEF IInv, Starts
<1>. QED  BY <1>3, <1>4, <1>5, <1>8 DEF IInv

LEMMA GiveUpKeeps == IInv /\ GiveUp => IInv'
<1>. SUFFICES ASSUME IInv, GiveUp
              PROVE  IInv'
  OBVIOUS
<1>1. own # <<>> /\ Abandon /\ UNCHANGED storeVars /\ clock' = clock /\ cycles' = cycles /\ sent' = sent
  BY DEF GiveUp
<1>2. daemon = "up" /\ cycles' \in Nat
  BY <1>1 DEF IInv, Requests, ClientTypes
<1>. QED  BY <1>1, <1>2, AbandonKeeps

LEMMA RestartClientKeeps == IInv /\ RestartClient => IInv'
<1>. SUFFICES ASSUME IInv, RestartClient
              PROVE  IInv'
  OBVIOUS
<1>1. /\ daemon = "up" /\ Abandon /\ UNCHANGED storeVars /\ clock' = clock /\ sent' = sent
      /\ cycles' = RestoredSchedule(records).number
  BY DEF RestartClient
<1>2. records \in Seq(Records)
  BY HistoryType DEF IInv
<1>3. RestoredSchedule(records) \in Schedules
  BY <1>2, RestoredTells
<1>4. cycles' \in Nat
  BY <1>1, <1>3 DEF Schedules
<1>. QED  BY <1>1, <1>4, AbandonKeeps

\* Of the next mission there are no cycles yet.
LEMMA ChangeMissionKeeps == IInv /\ ChangeMission => IInv'
<1>. SUFFICES ASSUME IInv, ChangeMission
              PROVE  IInv'
  OBVIOUS
<1>1. /\ NewMission /\ daemon = "up" /\ daemon' = "up" /\ activeScope' = activeScope + 1
      /\ records' = records /\ history' = <<>>
      /\ own' = <<>> /\ late' = late \cup Mine /\ clock' = 0 /\ cycles' = 0 /\ sent' = sent
  BY DEF ChangeMission, NewMission, Abandon, Mine
<1>2. /\ Mine \in SUBSET Records /\ late \in SUBSET Records
      /\ Mine' = {} /\ own' \in Seq(Records) /\ Len(own') <= 1
      /\ records \in Seq(Records) /\ activeScope \in Nat
  BY <1>1, MineTypes, NothingMine, HistoryType DEF IInv, ClientTypes
<1>3. StoreInv'
  BY <1>1, NewMissionStore DEF IInv
<1>4. ClientTypes'
  BY <1>1, <1>2 DEF IInv, ClientTypes
<1>5. ASSUME NEW w \in late \cup Mine
      PROVE  w.scope <= activeScope + 1 /\ w.scope # activeScope + 1
  <2>1. w.scope \in Nat /\ w.scope <= activeScope
    BY <1>2, RecordTypes DEF IInv, Requests
  <2>. QED  BY <1>2, <2>1
<1>6. Requests'
  BY <1>1, <1>2, <1>5 DEF Requests
<1>7. ASSUME NEW i \in DOMAIN records
      PROVE  records[i].scope # activeScope + 1
  <2>1. records[i] \in Records /\ records[i].scope <= activeScope
    BY <1>2 DEF IInv, StoreInv, Scopes, Past
  <2>2. records[i].scope \in Nat
    BY <2>1, RecordTypes
  <2>. QED  BY <1>2, <2>1, <2>2
<1>8. \A W, t : Apart(records, W, t, activeScope + 1) /\ Apart(<<>>, W, t, activeScope + 1)
  BY <1>7, ApartOthers
<1>9. Distinct({}, late \cup Mine, 0, activeScope + 1)
  BY <1>5 DEF Distinct, CycleOf
<1>10. Starts'
  BY <1>1, <1>2, <1>8, <1>9 DEF Starts
<1>. QED  BY <1>3, <1>4, <1>6, <1>10 DEF IInv

\* While the daemon is not up there is no client.
LEMMA AwayKeeps ==
  ASSUME IInv, StoreInv', daemon' # "up", own' = <<>>, late' = {},
         clock' \in Nat, cycles' \in Nat, sent' = sent
  PROVE  IInv'
<1>1. Mine' = {} /\ own' \in Seq(Records) /\ Len(own') <= 1
  BY NothingMine
<1>2. ClientTypes'
  BY <1>1 DEF IInv, ClientTypes
<1>3. Requests' /\ Starts'
  BY <1>1 DEF Requests, Starts
<1>. QED  BY <1>2, <1>3 DEF IInv

\* The daemon that comes up has read nothing of its mission.
LEMMA OpenFileKeeps == IInv /\ OpenFile /\ UNCHANGED clientVars => IInv'
<1>. SUFFICES ASSUME IInv, OpenFile, UNCHANGED clientVars
              PROVE  IInv'
  OBVIOUS
<1>1. /\ Loaded /\ daemon = "loading" /\ daemon' = "up" /\ activeScope' = activeScope
      /\ history' = history
      /\ records' = records \/ records' = Compacted(records)
      /\ clock' = clock /\ cycles' = cycles /\ own' = own /\ late' = late /\ sent' = sent
  BY DEF OpenFile, Loaded, clientVars
<1>2. /\ StoreInv' /\ records \in Seq(Records) /\ activeScope \in Nat
      /\ own = <<>> /\ late = {} /\ Mine = {} /\ Mine' = {} /\ history = <<>>
  BY <1>1, OpenFileStore, HistoryType, MineTypes, LoadedStore, NothingMine
     DEF IInv, Requests
<1>3. ClientTypes'
  BY <1>1 DEF IInv, ClientTypes
<1>4. Requests'
  BY <1>1, <1>2 DEF Requests
<1>5. ASSUME NEW i \in DOMAIN records
      PROVE  records[i].scope # activeScope
  <2>1. records[i] \in Records /\ records[i].scope < activeScope
    BY <1>1, <1>2 DEF IInv, StoreInv, Scopes, Past, Starting
  <2>2. records[i].scope \in Nat
    BY <2>1, RecordTypes
  <2>. QED  BY <1>2, <2>1, <2>2
<1>6. /\ Apart(records, {} \cup {}, clock, activeScope)
      /\ Apart(<<>>, {} \cup {}, clock, activeScope)
  BY <1>5, ApartOthers
<1>7. Apart(Compacted(records), {} \cup {}, clock, activeScope)
  BY <1>2, <1>6, ApartCompacted
<1>8. Distinct({}, {}, clock, activeScope)
  BY DEF Distinct
<1>9. Starts'
  BY <1>1, <1>2, <1>6, <1>7, <1>8 DEF Starts
<1>. QED  BY <1>2, <1>3, <1>4, <1>9 DEF IInv

LEMMA LoadingKeeps ==
  IInv /\ (Start \/ LoadLine \/ LoadFails) /\ UNCHANGED clientVars => IInv'
<1>. SUFFICES ASSUME IInv, Start \/ LoadLine \/ LoadFails, UNCHANGED clientVars
              PROVE  IInv'
  OBVIOUS
<1>1. daemon # "up" /\ daemon' # "up"
  BY DEF Start, LoadLine, LoadFails
<1>2. StoreInv'
  BY StartStore, LoadLineStore, LoadFailsStore DEF IInv
<1>3. /\ own' = <<>> /\ late' = {} /\ clock' \in Nat /\ cycles' \in Nat /\ sent' = sent
  BY <1>1 DEF clientVars, IInv, Requests, ClientTypes
<1>. QED  BY <1>1, <1>2, <1>3, AwayKeeps

LEMMA StopDaemonKeeps == IInv /\ StopDaemon => IInv'
<1>. SUFFICES ASSUME IInv, StopDaemon
              PROVE  IInv'
  OBVIOUS
<1>1. /\ clock' = 0 /\ cycles' = 0 /\ own' = <<>> /\ late' = {} /\ sent' = sent
  BY DEF StopDaemon
<1>2. Crash \/ CrashOpening \/ \E r \in late \cup Mine : CrashAppending(r)
  BY DEF StopDaemon, Mine
<1>3. ASSUME NEW r \in late \cup Mine
      PROVE  r \in Records /\ r.scope <= activeScope
  BY MineTypes DEF IInv, ClientTypes, Requests
<1>4. StoreInv'
  <2>1. ASSUME NEW r \in late \cup Mine, CrashAppending(r)
        PROVE  StoreInv'
    BY <1>3, <2>1, CrashAppendingStore DEF IInv
  <2>. QED  BY <1>2, <2>1, CrashStore, CrashOpeningStore DEF IInv
<1>5. daemon' # "up"
  BY <1>2 DEF Crash, CrashOpening, CrashAppending, Stopped
<1>. QED  BY <1>1, <1>4, <1>5, AwayKeeps

LEMMA StutterKeeps == IInv /\ UNCHANGED vars => IInv'
<1>. SUFFICES ASSUME IInv, UNCHANGED vars
              PROVE  IInv'
  OBVIOUS
<1>1. /\ UNCHANGED storeVars /\ daemon' = daemon /\ activeScope' = activeScope
      /\ records' = records /\ history' = history
      /\ clock' = clock /\ cycles' = cycles /\ own' = own /\ late' = late /\ sent' = sent
  BY DEF vars, storeVars, clientVars
<1>2. StoreInv' /\ Mine' = Mine
  BY <1>1, SameStore DEF IInv, Mine
<1>. QED  BY <1>1, <1>2 DEF IInv, ClientTypes, Requests, Starts

LEMMA InitInv == Init => IInv
<1>. SUFFICES ASSUME Init
              PROVE  IInv
  OBVIOUS
<1>1. /\ daemon = "down" /\ activeScope = 0 /\ records = <<>> /\ nextCompaction = MaxBytes
      /\ loadCompacted = FALSE /\ file = <<>> /\ ragged = FALSE /\ read = 0 /\ history = <<>>
      /\ clock = 0 /\ cycles = 0 /\ own = <<>> /\ late = {} /\ sent = 0
  BY DEF Init
<1>2. Len(<<>>) = 0 /\ DOMAIN <<>> = {} /\ 0 \in 0..0
  OBVIOUS
<1>3. StoreTypes
  BY <1>1, <1>2, EmptyTells, AuditAssumption DEF StoreTypes
<1>4. Indexed /\ Scopes
  BY <1>1, <1>2 DEF Indexed, Scopes, Starting
<1>5. Agree(Intact(file), history)
  BY <1>1, EmptyTells DEF Agree
<1>6. Mine = {}
  BY <1>1, <1>2 DEF Mine
<1>7. ClientTypes
  BY <1>1, <1>2, EmptyTells, RecoveryAssumption DEF ClientTypes
<1>8. Requests /\ Starts
  BY <1>1, <1>6 DEF Requests, Starts
<1>. QED  BY <1>3, <1>4, <1>5, <1>7, <1>8 DEF IInv, StoreInv

LEMMA StepInv == IInv /\ [Next]_vars => IInv'
<1>. SUFFICES ASSUME IInv, [Next]_vars
              PROVE  IInv'
  OBVIOUS
<1>1. CASE StartDaemon
  BY <1>1, LoadingKeeps DEF StartDaemon
<1>2. CASE StopDaemon
  BY <1>2, StopDaemonKeeps
<1>3. CASE (LoadLine \/ LoadFails \/ OpenFile) /\ UNCHANGED clientVars
  BY <1>3, LoadingKeeps, OpenFileKeeps
<1>4. CASE SendCycle
  BY <1>4, SendCycleKeeps
<1>5. CASE SendExecution
  BY <1>5, SendExecutionKeeps
<1>6. CASE SendNote
  BY <1>6, SendNoteKeeps
<1>7. CASE Answer
  BY <1>7, AnswerKeeps
<1>8. CASE AnswerLate
  BY <1>8, AnswerLateKeeps
<1>9. CASE GiveUp
  BY <1>9, GiveUpKeeps
<1>10. CASE RestartClient
  BY <1>10, RestartClientKeeps
<1>11. CASE ChangeMission
  BY <1>11, ChangeMissionKeeps
<1>12. CASE UNCHANGED vars
  BY <1>12, StutterKeeps
<1>. QED  BY <1>1, <1>2, <1>3, <1>4, <1>5, <1>6, <1>7, <1>8, <1>9, <1>10, <1>11, <1>12 DEF Next

LEMMA AlwaysInv == Spec => []IInv
BY InitInv, StepInv, PTL DEF Spec

-----------------------------------------------------------------------------
(* The theorems.                                                           *)

\* The daemon's state, the file and what the client has sent keep their types.
\* (audit.py, strategic_coordinator.py)
THEOREM TypeCorrect == Spec => []TypeOK
<1>1. IInv => TypeOK
  BY DEF IInv, StoreInv, StoreTypes, ClientTypes, Lines, TypeOK
<1>. QED  BY <1>1, AlwaysInv, PTL

\* Whenever the daemon is killed, in an append, a compaction or a start, the file has
\* the checkpoint of every key the mission has written.  (_retained_indices, append,
\* compact, open)
THEOREM FileKeepsCheckpointsHolds == Spec => []FileKeepsCheckpoints
<1>1. ASSUME IInv
      PROVE  FileKeepsCheckpoints
  <2>1. ASSUME NEW k \in ActiveKeys
        PROVE  Checkpoint(Intact(file), k) = Checkpoint(history, k)
    <3>1. PICK i \in DOMAIN history : k \in Keys(history[i])
      BY DEF ActiveKeys
    <3>2. history[i] \in Records /\ history[i].scope = activeScope /\ Agree(Intact(file), history)
      BY <1>1, HistoryType DEF IInv
    <3>3. k[1] = activeScope
      BY <3>1, <3>2, KeyKinds
    <3>. QED  BY <3>2, <3>3 DEF Agree
  <2>. QED  BY <2>1 DEF FileKeepsCheckpoints
<1>. QED  BY <1>1, AlwaysInv, PTL

\* What the daemon has indexed is what the next one would read from the file.
\* (append, compact)
THEOREM DiskIsMemoryHolds == Spec => []DiskIsMemory
<1>1. IInv => DiskIsMemory
  BY DEF IInv, StoreInv, Indexed, DiskIsMemory
<1>. QED  BY <1>1, AlwaysInv, PTL

\* Compaction and records that arrive late change nothing of what a client started
\* again restores.  (_retained_indices, _cycle_priority, _restore_cycle_audit)
THEOREM RecoveryUnchangedHolds == Spec => []RecoveryUnchanged
<1>1. ASSUME IInv, daemon = "up"
      PROVE  /\ RestoredSchedule(records) = RestoredSchedule(history)
             /\ Attempts(records) = Attempts(history)
  <2>1. /\ records \in Seq(Records) /\ history \in Seq(Records)
        /\ Agree(records, history)
    BY <1>1, HistoryType DEF IInv, StoreInv, Indexed
  <2>2. Timely(records) /\ Timely(history)
    BY <1>1, ApartTimely DEF IInv, Starts, ClientTypes
  <2>. QED  BY <2>1, <2>2, SameSchedule, SameAttempts
<1>2. IInv => RecoveryUnchanged
  BY <1>1 DEF RecoveryUnchanged
<1>. QED  BY <1>2, AlwaysInv, PTL

=============================================================================
