-------------------------- MODULE FileChangeStore --------------------------
(***************************************************************************)
(* FileChangeStore (src/persist.rs): an append-only log file behind a      *)
(* buffer, an index and a counter, each under its own lock, used by        *)
(* several threads; crashes, failing writes, compaction and reopening.     *)
(*                                                                         *)
(* The file at changes.log is the sequence of its records.  A record that  *)
(* was written in part is Torn: no reader gets past it, because its length *)
(* covers bytes of whatever follows.  Byte positions are record numbers:   *)
(* position 0 is the start of the header, position 1 (HEADER_SIZE) the     *)
(* first record.  A crash loses what sync_all has not covered; a rename is *)
(* durable at once.  A change is named by the order of its creation.       *)
(***************************************************************************)
EXTENDS Naturals, Sequences, FiniteSets, FiniteSetsExt, Functions

CONSTANTS
  Threads,
  None, Torn,
  FlushThreshold,   \* flush_threshold
  IndexInterval,    \* index_interval (1000 in the code)
  Behaviours,       \* what else may happen: a subset of AllBehaviours
  MaxAppends,       \* bound: changes ever appended
  MaxOpens          \* bound: how often the store is opened

AllBehaviours == {"close",     \* close
                  "useClosed", \* appends after close
                  "compact",   \* compact
                  "diskFull",  \* a write or sync_all fails
                  "torn"}      \* a failed write or a crash leaves a torn record

ASSUME StoreAssumption ==
  /\ IsFiniteSet(Threads) /\ None \notin Threads /\ Torn \notin Nat
  /\ FlushThreshold \in Nat \ {0} /\ IndexInterval \in Nat \ {0}
  /\ Behaviours \subseteq AllBehaviours
  /\ MaxAppends \in Nat /\ MaxOpens \in Nat

VARIABLES
  recs,     \* the records of changes.log
  synced,   \* how many of them are on disk
  temp,     \* does changes.compacting.tmp exist?
  compacted,\* does changes.compacted.log exist?
  alive,    \* is the store open in a running process?
  handle,   \* the append handle: "log", "orphan" (an unlinked file) or "none"
  tail,     \* tail_offset
  buffer,   \* changes waiting for a flush
  index,    \* sequence of [offset, position]
  lock,     \* the thread that holds the lock of the handle
  pc,       \* thread -> the step it takes next
  ret,      \* thread -> where its flush returns to
  batch,    \* thread -> the changes it holds
  opens,    \* number of times the store was opened
  appended, \* history: the offset append returned for change i
  acked     \* history: changes of a flush that returned Ok

disk == <<recs, synced, temp, compacted>>
memory == <<handle, tail, buffer, index, lock>>
control == <<pc, ret, batch>>
history == <<opens, appended, acked>>
vars == <<disk, alive, memory, control, history>>

Init ==
  /\ recs = <<>> /\ synced = 0 /\ temp = FALSE /\ compacted = FALSE
  /\ alive = FALSE /\ handle = "none" /\ tail = 0 /\ buffer = <<>>
  /\ index = <<>> /\ lock = None
  /\ pc = [t \in Threads |-> "idle"]
  /\ ret = [t \in Threads |-> "idle"]
  /\ batch = [t \in Threads |-> <<>>]
  /\ opens = 0 /\ appended = <<>> /\ acked = {}

----------------------------------------------------------------------------
(* new: recover_temp_files, open, initialize_file with build_index.        *)

\* The records build_index comes across: a torn one ends the scan, and is counted
\* if its length was written in full (what the scan makes of the bytes after it
\* is left out, as is a record of more than 16 MiB).
Scanned == IF \E i \in DOMAIN recs : recs[i] = Torn
           THEN Min({i \in DOMAIN recs : recs[i] = Torn})
           ELSE Len(recs)
Counted == IF \E i \in DOMAIN recs : recs[i] = Torn THEN {Scanned - 1, Scanned}
                                                 ELSE {Scanned}

\* build_index: an entry for every IndexInterval-th of the n records counted.
BuildIndex(n) ==
  [j \in 1..((n + IndexInterval - 1) \div IndexInterval) |->
     [offset |-> (j - 1) * IndexInterval,
      position |-> (j - 1) * IndexInterval + 1]]

\* recover_temp_files deletes what a compaction left behind before its first
\* rename; a deletion that fails is only logged.  The file between the two
\* renames, changes.compacted.log, is not looked for.
RecoverTempFiles == temp' \in {FALSE, temp} /\ UNCHANGED compacted

Open ==
  /\ ~alive /\ opens < MaxOpens
  /\ RecoverTempFiles
  /\ \E n \in Counted : index' = BuildIndex(n)
  /\ tail' = IF index' = <<>> THEN 0 ELSE index'[Len(index')].offset + 1
  /\ alive' = TRUE /\ handle' = "log" /\ buffer' = <<>> /\ lock' = None
  /\ opens' = opens + 1
  /\ UNCHANGED <<recs, synced, control, appended, acked>>

\* The process ends, after a last flush or without one; a suffix of what was
\* not synced is lost, the record it cuts may be torn.
Crash ==
  /\ alive
  /\ \E n \in synced..Len(recs) :
       \/ recs' = SubSeq(recs, 1, n)
       \/ /\ "torn" \in Behaviours /\ n < Len(recs)
          /\ recs' = Append(SubSeq(recs, 1, n), Torn)
  /\ synced' = Len(recs')
  /\ alive' = FALSE /\ handle' = "none" /\ tail' = 0 /\ buffer' = <<>>
  /\ index' = <<>> /\ lock' = None
  /\ pc' = [t \in Threads |-> "idle"]
  /\ ret' = [t \in Threads |-> "idle"]
  /\ batch' = [t \in Threads |-> <<>>]
  /\ UNCHANGED <<temp, compacted, history>>

----------------------------------------------------------------------------
(* append: the offset, then the buffer, then perhaps a flush.              *)

AppendOffset(t) ==
  /\ alive /\ pc[t] = "idle" /\ Len(appended) < MaxAppends
  /\ handle # "none" \/ "useClosed" \in Behaviours
  /\ tail' = tail + 1
  /\ appended' = Append(appended, tail)
  /\ batch' = [batch EXCEPT ![t] = <<Len(appended) + 1>>]
  /\ pc' = [pc EXCEPT ![t] = "buffer"]
  /\ UNCHANGED <<disk, alive, handle, buffer, index, lock, ret, opens, acked>>

AppendBuffer(t) ==
  /\ pc[t] = "buffer"
  /\ buffer' = buffer \o batch[t]
  /\ batch' = [batch EXCEPT ![t] = <<>>]
  /\ pc' = [pc EXCEPT ![t] = IF Len(buffer') >= FlushThreshold THEN "take"
                                                              ELSE "idle"]
  /\ ret' = [ret EXCEPT ![t] = "idle"]
  /\ UNCHANGED <<disk, alive, handle, tail, index, lock, history>>

----------------------------------------------------------------------------
(* flush: take the buffer, then, under the lock of the handle, write,      *)
(* sync_all and extend the index.  The periodic task of ChangeStoreManager *)
(* and drop call it as any other thread does.                              *)

FlushStart(t) ==
  /\ alive /\ pc[t] = "idle"
  /\ pc' = [pc EXCEPT ![t] = "take"]
  /\ ret' = [ret EXCEPT ![t] = "idle"]
  /\ UNCHANGED <<disk, alive, memory, batch, history>>

\* Faulty variant: the buffer is copied and not cleared.
FlushTakeCopies(t) ==
  /\ pc[t] = "take"
  /\ batch' = [batch EXCEPT ![t] = buffer]
  /\ pc' = [pc EXCEPT ![t] = IF buffer = <<>> THEN ret[t] ELSE "write"]
  /\ UNCHANGED <<disk, alive, memory, ret, history>>

FlushTake(t) ==
  /\ pc[t] = "take"
  /\ buffer' = <<>>
  /\ batch' = [batch EXCEPT ![t] = buffer]
  /\ pc' = [pc EXCEPT ![t] = IF buffer = <<>> THEN ret[t] ELSE "write"]
  /\ UNCHANGED <<disk, alive, handle, tail, index, lock, ret, history>>

\* A store that was closed has no handle: the changes are dropped and the
\* flush returns Ok.
FlushNoHandle(t) ==
  /\ pc[t] = "write" /\ lock = None /\ handle = "none"
  /\ acked' = acked \cup Range(batch[t])
  /\ batch' = [batch EXCEPT ![t] = <<>>]
  /\ pc' = [pc EXCEPT ![t] = ret[t]]
  /\ UNCHANGED <<disk, alive, memory, ret, opens, appended>>

\* Faulty variant: write in place of write_all.
FlushWritesSome(t) ==
  /\ pc[t] = "write" /\ lock = None /\ handle # "none"
  /\ lock' = t
  /\ recs' = IF handle = "log" THEN Append(recs, Head(batch[t])) ELSE recs
  /\ pc' = [pc EXCEPT ![t] = "sync"]
  /\ UNCHANGED <<synced, temp, compacted, alive, handle, tail, buffer, index,
                 ret, batch, history>>

\* A handle whose file compact has unlinked writes where nobody reads.
FlushWrite(t) ==
  /\ pc[t] = "write" /\ lock = None /\ handle # "none"
  /\ lock' = t
  /\ recs' = IF handle = "log" THEN recs \o batch[t] ELSE recs
  /\ pc' = [pc EXCEPT ![t] = "sync"]
  /\ UNCHANGED <<synced, temp, compacted, alive, handle, tail, buffer, index,
                 ret, batch, history>>

\* The entries a flush adds to the index, all with position 0.
FlushEntries(n) ==
  IF n < IndexInterval THEN <<>>
  ELSE LET first == IF tail > n THEN tail - n ELSE 0
       IN  [j \in 1..((n + IndexInterval - 1) \div IndexInterval) |->
              [offset |-> first + (j - 1) * IndexInterval, position |-> 0]]

\* Faulty variant: a flush without sync_all.
FlushWithoutSync(t) ==
  /\ pc[t] = "sync"
  /\ index' = index \o FlushEntries(Len(batch[t]))
  /\ acked' = acked \cup Range(batch[t])
  /\ lock' = None
  /\ batch' = [batch EXCEPT ![t] = <<>>]
  /\ pc' = [pc EXCEPT ![t] = ret[t]]
  /\ UNCHANGED <<disk, alive, handle, tail, buffer, ret, opens, appended>>

FlushSync(t) ==
  /\ pc[t] = "sync"
  /\ synced' = Len(recs)
  /\ index' = index \o FlushEntries(Len(batch[t]))
  /\ acked' = acked \cup Range(batch[t])
  /\ lock' = None
  /\ batch' = [batch EXCEPT ![t] = <<>>]
  /\ pc' = [pc EXCEPT ![t] = ret[t]]
  /\ UNCHANGED <<recs, temp, compacted, alive, handle, tail, buffer, ret, opens,
                 appended>>

\* A write fails after n whole records, perhaps in the middle of the next;
\* the changes taken from the buffer are gone and the caller gets an error.
FlushWriteFails(t) ==
  /\ "diskFull" \in Behaviours
  /\ pc[t] = "write" /\ lock = None /\ handle = "log"
  /\ \E n \in 0..(Len(batch[t]) - 1) :
       \/ recs' = recs \o SubSeq(batch[t], 1, n)
       \/ /\ "torn" \in Behaviours
          /\ recs' = recs \o Append(SubSeq(batch[t], 1, n), Torn)
  /\ batch' = [batch EXCEPT ![t] = <<>>]
  /\ pc' = [pc EXCEPT ![t] = "idle"]
  /\ UNCHANGED <<synced, temp, compacted, alive, memory, ret, history>>

FlushSyncFails(t) ==
  /\ "diskFull" \in Behaviours
  /\ pc[t] = "sync"
  /\ lock' = None
  /\ batch' = [batch EXCEPT ![t] = <<>>]
  /\ pc' = [pc EXCEPT ![t] = "idle"]
  /\ UNCHANGED <<disk, alive, handle, tail, buffer, index, ret, history>>

----------------------------------------------------------------------------
(* close: flush, then release the handle; a failed flush returns early.    *)

CloseStart(t) ==
  /\ "close" \in Behaviours
  /\ alive /\ pc[t] = "idle"
  /\ pc' = [pc EXCEPT ![t] = "take"]
  /\ ret' = [ret EXCEPT ![t] = "release"]
  /\ UNCHANGED <<disk, alive, memory, batch, history>>

CloseRelease(t) ==
  /\ pc[t] = "release" /\ lock = None
  /\ handle' = "none"
  /\ pc' = [pc EXCEPT ![t] = "idle"]
  /\ UNCHANGED <<disk, alive, tail, buffer, index, lock, ret, batch, history>>

----------------------------------------------------------------------------
(* compact.  The source is read from byte 0: the four magic bytes are      *)
(* taken for a record length of more than a gigabyte, the read meets the   *)
(* end of the file and the copy stops with no record, for every            *)
(* keep_from_offset.                                                       *)

CompactedRecords == <<>>

CompactBegin(t) ==
  /\ "compact" \in Behaviours
  /\ alive /\ pc[t] = "idle"
  /\ temp' = TRUE
  /\ pc' = [pc EXCEPT ![t] = "rename"]
  /\ UNCHANGED <<recs, synced, compacted, alive, memory, ret, batch, history>>

CompactRename(t) ==
  /\ pc[t] = "rename" /\ temp
  /\ temp' = FALSE /\ compacted' = TRUE
  /\ pc' = [pc EXCEPT ![t] = "replace"]
  /\ UNCHANGED <<recs, synced, alive, memory, ret, batch, history>>

\* A rename fails when another compaction has moved the file already.
CompactFails(t) ==
  /\ \/ pc[t] = "rename" /\ ~temp
     \/ pc[t] = "replace" /\ ~compacted
  /\ pc' = [pc EXCEPT ![t] = "idle"]
  /\ UNCHANGED <<disk, alive, memory, ret, batch, history>>

\* The open handle keeps the file that was replaced.
CompactReplace(t) ==
  /\ pc[t] = "replace" /\ compacted
  /\ compacted' = FALSE
  /\ recs' = CompactedRecords
  /\ synced' = Len(CompactedRecords)
  /\ handle' = IF handle = "log" THEN "orphan" ELSE handle
  /\ pc' = [pc EXCEPT ![t] = "clearIndex"]
  /\ UNCHANGED <<temp, alive, tail, buffer, index, lock, ret, batch, history>>

CompactClearIndex(t) ==
  /\ pc[t] = "clearIndex"
  /\ index' = <<>>
  /\ pc' = [pc EXCEPT ![t] = "setTail"]
  /\ UNCHANGED <<disk, alive, handle, tail, buffer, lock, ret, batch, history>>

CompactSetTail(t) ==
  /\ pc[t] = "setTail"
  /\ tail' = Len(CompactedRecords)
  /\ pc' = [pc EXCEPT ![t] = "idle"]
  /\ UNCHANGED <<disk, alive, handle, buffer, index, lock, ret, batch, history>>

----------------------------------------------------------------------------
Next ==
  \/ Open \/ Crash
  \/ \E t \in Threads :
       \/ AppendOffset(t) \/ AppendBuffer(t)
       \/ FlushStart(t) \/ FlushTake(t) \/ FlushNoHandle(t) \/ FlushWrite(t)
       \/ FlushSync(t) \/ FlushWriteFails(t) \/ FlushSyncFails(t)
       \/ CloseStart(t) \/ CloseRelease(t)
       \/ CompactBegin(t) \/ CompactRename(t) \/ CompactFails(t)
       \/ CompactReplace(t) \/ CompactClearIndex(t) \/ CompactSetTail(t)

Spec == Init /\ [][Next]_vars

----------------------------------------------------------------------------
(* get_since (read_changes_since)                                          *)

\* Where the read may start: the binary search ends at an entry for offset o, or
\* between an entry before it and one after it.  Concurrent flushes can leave
\* the index unsorted; then there are several such places.
StartPositions(o) ==
  LET landings == {i \in DOMAIN index :
                     \/ index[i].offset = o
                     \/ index[i].offset < o /\ (i = Len(index) \/ index[i + 1].offset > o)}
  IN  IF o = 0 THEN {1}
      ELSE {index[i].position : i \in landings}
           \cup IF index = <<>> \/ index[1].offset > o THEN {1} ELSE {}

\* Faulty variant: records are counted from 0 wherever the read starts.
FirstOffsetZero(start) == 0

\* The offset the reader gives the record at `start`.
FirstOffset(start) ==
  LET before == {i \in DOMAIN index : index[i].position <= start}
  IN  IF before = {} THEN 0 ELSE Max({index[i].offset : i \in before}) + 1

\* What it may return. Reading from position 0 takes the header for a record, as
\* compact does. At a torn record the read fails, or, where only a part of its
\* length was written, ends as at the end of the file.
GetSince(o, start) ==
  LET first == FirstOffset(start)
      skip == IF o > first THEN o - first ELSE 0
      torn == {i \in start..Len(recs) : recs[i] = Torn}
      stop == IF torn = {} THEN Len(recs) ELSE Min(torn) - 1
      read == [ok |-> TRUE, changes |-> SubSeq(recs, start + skip, stop)]
      failed == [ok |-> FALSE, changes |-> <<>>]
  IN  (IF start # 0 THEN {read} ELSE {}) \cup (IF start = 0 \/ torn # {} THEN {failed} ELSE {})

----------------------------------------------------------------------------
(* Properties                                                              *)

\* What a reader of the file can get at: the records before a torn one.
Intact == Torn \notin Range(recs)
ReadableLog == IF Intact THEN recs ELSE SubSeq(recs, 1, Scanned - 1)
Readable == Range(ReadableLog)

\* "Flush any buffered writes to disk" (src/persist.rs:69): when a flush
\* returns Ok through a handle on an intact log, all its changes are in the
\* log, whatever other threads flush, fail to flush, close or compact.
AckedReachesLog ==
  [][ handle = "log" /\ Intact => acked' \ acked \subseteq Readable' ]_vars

\* Nothing but the second rename of a compaction ever takes an acknowledged,
\* readable change away: no crash at any point of a flush, a close or a
\* compaction, no failing write, no reopening.  "If compaction crashes, the
\* original file is preserved" (src/persist.rs:407).
OnlyCompactionLoses ==
  [][ acked \cap Readable \subseteq Readable' \/ \E t \in Threads : CompactReplace(t) ]_vars

\* get_since(o), when it succeeds, returns every record at position o or later that
\* no torn one precedes: an index built by a scan, extended by flushes with unknown positions,
\* left unsorted by concurrent ones, or empty, makes it start early but never
\* late.
GetSinceNeverMisses ==
  alive => \A o \in 0..Len(recs) : \A start \in StartPositions(o) :
             \A answer \in GetSince(o, start) :
               answer.ok => \A i \in (o + 1)..Len(ReadableLog) :
                              recs[i] \in Range(answer.changes)

\* "ensuring changes survive restarts and enabling recovery from partial
\* writes" (src/persist.rs:3): a change whose flush returned Ok can be read
\* from the log ever after, whatever crashes and failing flushes come later.
AckedSurvives == acked \subseteq Readable

Log == INSTANCE AppendLog WITH
         Changes <- 1..MaxAppends,
         accepted <- DOMAIN appended,
         waiting <- Range(buffer) \cup UNION {Range(batch[t]) : t \in {u \in Threads : pc[u] # "sync"}},
         log <- ReadableLog,
         durable <- Min({synced, Len(ReadableLog)})

\* The file store is an append-only log as its trait promises (AppendLog), with
\* buffer, threads, failing writes, torn records, crashes, closing and
\* compaction: a change enters the readable log at most once and only from the
\* buffer or a flush under way, keeps its place, and goes only by a crash that
\* cuts off what no sync_all covered or by compaction.
FileIsAppendLog == Log!LogSpec
=============================================================================
