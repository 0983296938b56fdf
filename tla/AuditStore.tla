------------------------------ MODULE AuditStore ------------------------------
(***************************************************************************)
(* The daemon's audit (python/moosebridge/audit.py): a JSONL file and the  *)
(* records read from it or appended to it, compacted when they outgrow a   *)
(* target.  Records count one byte each, so sizes are numbers of records.  *)
(*                                                                         *)
(* A mission scope (session, generation) is a number: each start of the    *)
(* daemon and each mission boundary makes the next one the active scope.   *)
(* One coalition's cycles stand for both, whose keys are disjoint.         *)
(***************************************************************************)
EXTENDS Queues

CONSTANTS
  Candidates,         \* strategic candidates a cycle may have attempted
  MaxBytes,           \* AuditRetentionConfig.max_bytes, positive
  HistoryRecords,     \* history_records
  RetainedMissions    \* retained_missions

ASSUME AuditAssumption ==
  /\ MaxBytes \in Nat \ {0}
  /\ HistoryRecords \in Nat
  /\ RetainedMissions \in Nat \ {0}

VARIABLES
  daemon,           \* "down", "loading" (_load), "up" (open), "failed" (cannot load)
  activeScope,      \* active_scope
  records,          \* _records
  nextCompaction,   \* _next_compaction
  loadCompacted,    \* _load_compacted
  file,             \* the lines of the file
  ragged,           \* its last line has no newline
  read,             \* lines _load has read
  history           \* history: the records with keys the running mission has appended

storeVars == <<daemon, activeScope, records, nextCompaction, loadCompacted,
               file, ragged, read, history>>

-----------------------------------------------------------------------------
(* Records.  A cycle carries for each candidate it attempted the time its  *)
(* cooldown ends, else 0; an execution has ended at 0 while it runs.       *)

Cycles == [type : {"cycle"}, scope : Nat, number : Nat, started : Nat,
           until : [Candidates -> Nat]]
Executions == [type : {"execution"}, scope : Nat, candidate : Candidates,
               attempt : Nat, ended : Nat]
Notes == [type : {"note"}, scope : Nat]   \* any type without checkpoint keys
Records == Cycles \cup Executions \cup Notes
Torn == [type |-> "torn"]                 \* a part of a line, no record
Undecodable == [type |-> "undecodable"]   \* one that ends within a character

\* Faulty variant of Keys: a cycle is retained for its candidates alone.
KeysOfCandidates(r) ==
  IF r.type = "cycle"
  THEN {<<r.scope, "candidate", c>> : c \in {d \in Candidates : r.until[d] # 0}}
  ELSE IF r.type = "execution" THEN {<<r.scope, "execution", <<r.candidate, r.attempt>> >>}
  ELSE {}

\* _checkpoint_keys
Keys(r) ==
  IF r.type = "cycle"
  THEN {<<r.scope, "schedule", "">>, <<r.scope, "cycle_number", "">>}
         \cup {<<r.scope, "candidate", c>> : c \in {d \in Candidates : r.until[d] # 0}}
  ELSE IF r.type = "execution" THEN {<<r.scope, "execution", <<r.candidate, r.attempt>> >>}
  ELSE {}

\* _cycle_priority; of equal priorities, and of executions, the later counts.
Priority(r, k) ==
  IF k[2] = "cycle_number" THEN <<r.number, 0>>
  ELSE IF k[2] = "schedule" THEN <<r.started, r.number>>
  ELSE IF k[2] = "candidate" THEN <<r.started, r.until[k[3]]>>
  ELSE <<0, 0>>

Exceeds(p, q) == p[1] > q[1] \/ (p[1] = q[1] /\ p[2] > q[2])

Holders(s, k) == {i \in DOMAIN s : k \in Keys(s[i])}

\* The position of the checkpoint of key k (none if no record has the key).
Newest(s, k) ==
  {i \in Holders(s, k) : \A j \in Holders(s, k) :
     /\ ~Exceeds(Priority(s[j], k), Priority(s[i], k))
     /\ j > i => Exceeds(Priority(s[i], k), Priority(s[j], k))}

Checkpoint(s, k) == {s[i] : i \in Newest(s, k)}

-----------------------------------------------------------------------------
(* Compaction (_retained_indices, compact).                                 *)

\* The active scope and those of the most recent records.
RetainedScopes(s) ==
  LET Others == {s[i].scope : i \in DOMAIN s} \ {activeScope}
      Last(c) == CHOOSE i \in DOMAIN s :
                   s[i].scope = c /\ \A j \in DOMAIN s : s[j].scope = c => j <= i
  IN  {activeScope} \cup
      {c \in Others : Cardinality({d \in Others : Last(d) > Last(c)}) < RetainedMissions - 1}

Protected(s) ==
  LET scopes == RetainedScopes(s)
  IN  {i \in DOMAIN s : s[i].scope \in scopes /\ \E k \in Keys(s[i]) : i \in Newest(s, k)}

\* The most recent records without a key, as many as the two limits leave.
RecentHistory(s) ==
  LET scopes == RetainedScopes(s)
      eligible == {i \in DOMAIN s : s[i].scope \in scopes /\ Keys(s[i]) = {}}
      room == MaxBytes - Cardinality(Protected(s))
  IN  {i \in eligible :
         LET rank == Cardinality({j \in eligible : j >= i})
         IN  rank <= HistoryRecords /\ rank <= room}

Compacted(s) == Kept(s, Protected(s) \cup RecentHistory(s))

\* _next_compaction after a compaction that left s
NextCompaction(s) ==
  LET slack == IF MaxBytes \div 4 > 1 THEN MaxBytes \div 4 ELSE 1
  IN  IF Len(s) + slack > MaxBytes THEN Len(s) + slack ELSE MaxBytes

Due(s, f) == Len(s) >= nextCompaction \/ Len(f) >= nextCompaction

-----------------------------------------------------------------------------
(* Starting (_load, open).  A new daemon is a new session.                  *)

Start ==
  /\ daemon = "down"
  /\ daemon' = "loading"
  /\ activeScope' = activeScope + 1
  /\ records' = <<>> /\ read' = 0
  /\ nextCompaction' = MaxBytes /\ loadCompacted' = FALSE
  /\ history' = <<>>
  /\ UNCHANGED <<file, ragged>>

\* Faulty variant of Readable: whatever can be decoded is a record.
Decodable(line) == TRUE

Readable(line) == line \notin {Torn, Undecodable}

\* One line; what is indexed is compacted on the way, the file is not.
LoadLine ==
  /\ daemon = "loading" /\ read < Len(file) /\ file[read + 1] # Undecodable
  /\ read' = read + 1
  /\ LET line == file[read + 1]
         s == Append(records, line)
     IN  \/ /\ ~Readable(line)
            /\ UNCHANGED <<records, nextCompaction, loadCompacted>>
         \/ /\ Readable(line) /\ Len(s) < nextCompaction
            /\ records' = s
            /\ UNCHANGED <<nextCompaction, loadCompacted>>
         \/ /\ Readable(line) /\ Len(s) >= nextCompaction
            /\ records' = Compacted(s)
            /\ nextCompaction' = NextCompaction(Compacted(s))
            /\ loadCompacted' = TRUE
  /\ UNCHANGED <<daemon, activeScope, file, ragged, history>>

\* The stream raises UnicodeDecodeError outside the try of the loop.
LoadFails ==
  /\ daemon = "loading" /\ read < Len(file) /\ file[read + 1] = Undecodable
  /\ daemon' = "failed"
  /\ UNCHANGED <<activeScope, records, nextCompaction, loadCompacted, file, ragged,
                 read, history>>

Loaded == daemon = "loading" /\ read = Len(file)

\* Faulty variant of OpenFile: the missing newline stays missing.
OpenRagged ==
  /\ Loaded
  /\ daemon' = "up"
  /\ IF loadCompacted \/ Len(file) >= nextCompaction
     THEN /\ records' = Compacted(records) /\ file' = Compacted(records)
          /\ nextCompaction' = NextCompaction(Compacted(records))
          /\ loadCompacted' = FALSE
          /\ ragged' = FALSE
     ELSE UNCHANGED <<records, file, nextCompaction, loadCompacted, ragged>>
  /\ read' = 0
  /\ UNCHANGED <<activeScope, history>>

\* The file is compacted if loading was or it is too long; then a last line
\* without a newline is ended.
OpenFile ==
  /\ Loaded
  /\ daemon' = "up"
  /\ IF loadCompacted \/ Len(file) >= nextCompaction
     THEN /\ records' = Compacted(records) /\ file' = Compacted(records)
          /\ nextCompaction' = NextCompaction(Compacted(records))
          /\ loadCompacted' = FALSE
     ELSE UNCHANGED <<records, file, nextCompaction, loadCompacted>>
  /\ ragged' = FALSE
  /\ read' = 0
  /\ UNCHANGED <<activeScope, history>>

-----------------------------------------------------------------------------
(* Appending (append).                                                      *)

\* The file once r is written; text after a line without a newline spoils both.
Written(r) ==
  IF ragged THEN [file EXCEPT ![Len(file)] = Torn] ELSE Append(file, r)

Appended(r) ==
  IF r.scope = activeScope /\ Keys(r) # {} THEN Append(history, r) ELSE history

\* Faulty variant of CompactionFails: memory is compacted before the file.
IndexFirst(s, f) ==
  /\ records' = Compacted(s) /\ file' = f
  /\ nextCompaction' = (IF Len(s) > Len(f) THEN Len(s) ELSE Len(f)) + MaxBytes

\* Nothing is lost, and the next attempt waits for further growth.
CompactionFails(s, f) ==
  /\ records' = s /\ file' = f
  /\ nextCompaction' = (IF Len(s) > Len(f) THEN Len(s) ELSE Len(f)) + MaxBytes

\* The record is on disk before it is indexed, both before they are compacted.
AppendRecord(r) ==
  /\ daemon = "up"
  /\ history' = Appended(r)
  /\ LET s == Append(records, r)
     IN  \/ /\ ~Due(s, Written(r))
            /\ records' = s /\ file' = Written(r)
            /\ UNCHANGED nextCompaction
         \/ /\ Due(s, Written(r))
            /\ records' = Compacted(s) /\ file' = Compacted(s)
            /\ nextCompaction' = NextCompaction(Compacted(s))
         \/ /\ Due(s, Written(r))
            /\ CompactionFails(s, Written(r))
  /\ UNCHANGED <<daemon, activeScope, loadCompacted, ragged, read>>

-----------------------------------------------------------------------------
(* Ends.                                                                    *)

\* A mission boundary: the next record finds a new active scope.
NewMission ==
  /\ daemon = "up"
  /\ activeScope' = activeScope + 1
  /\ history' = <<>>
  /\ UNCHANGED <<daemon, records, nextCompaction, loadCompacted, file, ragged, read>>

\* The daemon is killed; what it had flushed is in the file.
Stopped ==
  /\ daemon' = "down"
  /\ records' = <<>> /\ read' = 0
  /\ nextCompaction' = MaxBytes /\ loadCompacted' = FALSE
  /\ UNCHANGED activeScope

Crash ==
  /\ daemon \in {"loading", "up"} /\ Stopped
  /\ UNCHANGED <<file, ragged, history>>

\* Killed while it compacts the file it opens: os.replace has happened.
CrashOpening ==
  /\ Loaded
  /\ loadCompacted \/ Len(file) >= nextCompaction
  /\ Stopped
  /\ file' = Compacted(records) /\ ragged' = FALSE
  /\ UNCHANGED history

\* Killed while it appends r: a part of the line, the line without its newline,
\* or the line, compacted or not, is in the file.
CrashAppending(r) ==
  /\ daemon = "up" /\ Stopped
  /\ \/ /\ file' \in {Written(Torn), Written(Undecodable)} /\ ragged' = TRUE
        /\ UNCHANGED history
     \/ /\ file' = Written(r) /\ ragged' \in BOOLEAN
        /\ history' = Appended(r)
     \/ /\ Due(Append(records, r), Written(r))
        /\ file' = Compacted(Append(records, r)) /\ ragged' = FALSE
        /\ history' = Appended(r)
=============================================================================
