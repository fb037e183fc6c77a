------------------------- MODULE SyncManagerProofs -------------------------
(***************************************************************************)
(* Proofs about SyncManager, for every set of tasks, every capacity of the *)
(* log, every assignment of low-64-bit values to changes and every bound.  *)
(***************************************************************************)
EXTENDS SyncManager, FiniteSetTheorems, SequenceTheorems, TLAPS

USE ConstantsAssumption

(* ------------------------- the log's operators ------------------------- *)

\* push_back followed by the pop_front at capacity keeps the log the newest
\* part of its history (src/sync.rs, record_change).
LEMMA PushKeepsNewest ==
  ASSUME NEW log \in Seq(Changes), NEW hist \in Seq(Changes), NEW c \in Changes,
         Newest(log, hist)
  PROVE  /\ PushBounded(log, c, MaxChanges) \in Seq(Changes)
         /\ Newest(PushBounded(log, c, MaxChanges), Append(hist, c))
<1> DEFINE grown == Append(log, c)
           longer == Append(hist, c)
<1>1. /\ grown \in Seq(Changes) /\ grown # <<>> /\ Len(grown) = Len(log) + 1
      /\ \A i \in 1..Len(log) : grown[i] = log[i]
      /\ grown[Len(log) + 1] = c
  BY AppendProperties
<1>2. /\ longer \in Seq(Changes) /\ Len(longer) = Len(hist) + 1
      /\ \A i \in 1..Len(hist) : longer[i] = hist[i]
      /\ longer[Len(hist) + 1] = c
  BY AppendProperties
<1>3. Len(log) \in Nat /\ Len(hist) \in Nat /\ Len(log) <= Len(hist)
  BY LenProperties DEF Newest
<1> HIDE DEF grown, longer
<1>4. \A i \in 1..Len(grown) : grown[i] = longer[Len(longer) - Len(grown) + i]
  <2> TAKE i \in 1..Len(grown)
  <2>1. CASE i = Len(log) + 1
    BY <2>1, <1>1, <1>2, <1>3
  <2>2. CASE i \in 1..Len(log)
    <3>1. Len(longer) - Len(grown) + i = Len(hist) - Len(log) + i
      BY <1>1, <1>2, <1>3
    <3>2. Len(hist) - Len(log) + i \in 1..Len(hist)
      BY <2>2, <1>3
    <3> QED BY <3>1, <3>2, <2>2, <1>1, <1>2 DEF Newest
  <2> QED BY <2>1, <2>2, <1>1, <1>3
<1>5. CASE Len(grown) > MaxChanges
  <2>1. PushBounded(log, c, MaxChanges) = Tail(grown)
    BY <1>5 DEF PushBounded, grown
  <2>2. /\ Tail(grown) \in Seq(Changes) /\ Len(Tail(grown)) = Len(log)
        /\ \A i \in 1..Len(log) : Tail(grown)[i] = grown[i + 1]
    BY <1>1, <1>3, HeadTailProperties
  <2>3. Len(log) = MaxChanges
    BY <1>5, <1>1, <1>3 DEF Newest
  <2>4. \A i \in 1..Len(log) :
          grown[i + 1] = longer[Len(longer) - Len(log) + i]
    <3> TAKE i \in 1..Len(log)
    <3>1. i + 1 \in 1..Len(grown)
      BY <1>1, <1>3
    <3>2. Len(longer) - Len(grown) + (i + 1) = Len(longer) - Len(log) + i
      BY <1>1, <1>2, <1>3
    <3> QED BY <3>1, <3>2, <1>4
  <2>5. Len(longer) > MaxChanges
    BY <2>3, <1>2, <1>3
  <2> QED BY <2>1, <2>2, <2>3, <2>4, <2>5 DEF Newest, longer
<1>6. CASE ~(Len(grown) > MaxChanges)
  <2>1. PushBounded(log, c, MaxChanges) = grown
    BY <1>6 DEF PushBounded, grown
  <2>2. Len(hist) = Len(log)
    BY <1>6, <1>1, <1>3 DEF Newest
  <2> QED BY <2>1, <2>2, <1>1, <1>2, <1>3, <1>4, <1>6 DEF Newest, longer
<1> QED BY <1>5, <1>6

\* get_changes_since(o) returns the newest changes of the log, at least as
\* many as the counter is ahead of o, or all of them.
LEMMA AnswerIsSuffix ==
  ASSUME NEW log \in Seq(Changes), NEW current \in Nat, NEW o \in Nat, o < current
  PROVE  LET answer == GetChangesSince(log, current, o)
         IN  /\ Len(answer) = IF Len(log) > current - o THEN current - o ELSE Len(log)
             /\ \A i \in 1..Len(answer) :
                  answer[i] = log[Len(log) - Len(answer) + i]
<1> DEFINE skip == SkipCount(Len(log), current - o)
           answer == SubSeq(log, skip + 1, Len(log))
<1>1. Len(log) \in Nat /\ \A i \in 1..Len(log) : log[i] \in Changes
  BY LenProperties, ElementOfSeq
<1>2. skip \in Nat /\ skip <= Len(log)
  BY <1>1 DEF SkipCount
<1>3. GetChangesSince(log, current, o) = answer
  <2>1. ~(o >= current)
    OBVIOUS
  <2> QED BY <2>1, Zenon DEF GetChangesSince
<1>4. \A i \in (skip + 1)..Len(log) : log[i] \in Changes
  BY <1>1, <1>2
<1>5. /\ Len(answer) = IF skip + 1 <= Len(log) THEN Len(log) - (skip + 1) + 1 ELSE 0
      /\ \A i \in 1..(Len(log) - (skip + 1) + 1) : answer[i] = log[skip + 1 + i - 1]
  <2> HIDE DEF skip
  <2>1. skip + 1 \in Int /\ Len(log) \in Int
    BY <1>1, <1>2
  <2> QED BY <1>4, <2>1, SubSeqProperties
<1>6. Len(answer) = Len(log) - skip
  <2> HIDE DEF answer, skip
  <2> QED BY <1>1, <1>2, <1>5
<1>7. \A i \in 1..Len(answer) : answer[i] = log[Len(log) - Len(answer) + i]
  <2> HIDE DEF answer, skip
  <2> TAKE i \in 1..Len(answer)
  <2>1. i \in 1..(Len(log) - (skip + 1) + 1) /\ skip + 1 + i - 1 = Len(log) - Len(answer) + i
    BY <1>1, <1>2, <1>6
  <2> QED BY <2>1, <1>5
<1>8. Len(answer) = IF Len(log) > current - o THEN current - o ELSE Len(log)
  <2> HIDE DEF answer
  <2> QED BY <1>1, <1>6 DEF SkipCount
<1> QED
  <2> HIDE DEF answer, skip
  <2> QED BY <1>3, <1>7, <1>8

\* From the two lemmas: an answer computed when the counter covers the log
\* holds every retained change at position o or later.
LEMMA AnswerHoldsAll ==
  ASSUME NEW log \in Seq(Changes), NEW hist \in Seq(Changes), Newest(log, hist),
         NEW current \in Nat, Len(hist) <= current, NEW o \in Nat,
         NEW k \in 1..Len(hist), k > o, k > Len(hist) - Len(log)
  PROVE  LET answer == GetChangesSince(log, current, o)
         IN  /\ Len(hist) - k < Len(answer)
             /\ answer[Len(answer) - (Len(hist) - k)] = hist[k]
<1> DEFINE answer == GetChangesSince(log, current, o)
<1>1. Len(log) \in Nat /\ Len(hist) \in Nat
  BY LenProperties
<1>2. o < current
  BY <1>1
<1>3. /\ Len(answer) = IF Len(log) > current - o THEN current - o ELSE Len(log)
      /\ \A i \in 1..Len(answer) : answer[i] = log[Len(log) - Len(answer) + i]
  BY <1>2, AnswerIsSuffix
<1> HIDE DEF answer
<1>4. Len(hist) - k < Len(answer)
  BY <1>1, <1>2, <1>3
<1> DEFINE i == Len(answer) - (Len(hist) - k)
<1>6. i \in 1..Len(answer) /\ Len(log) - Len(answer) + i = Len(log) - (Len(hist) - k)
  <2>1. Len(answer) \in Nat
    BY <1>1, <1>2, <1>3
  <2> QED BY <2>1, <1>1, <1>4
<1>7. Len(log) - (Len(hist) - k) \in 1..Len(log)
  BY <1>1
<1>8. log[Len(log) - (Len(hist) - k)] = hist[k]
  <2>1. Len(hist) - Len(log) + (Len(log) - (Len(hist) - k)) = k
    BY <1>1
  <2> QED BY <1>7, <2>1 DEF Newest
<1> QED BY <1>3, <1>4, <1>6, <1>8 DEF answer

(* --------------------------- the type invariant ------------------------ *)

\* The loop of apply_changes ends with its last change.
LEMMA LastElement ==
  ASSUME NEW S, NEW s \in Seq(S), s # <<>>, Len(s) # 1
  PROVE  Tail(s) # <<>>
<1>1. Len(s) \in Nat \ {0}
  BY EmptySeq
<1>2. PICK r : r = Tail(s)
  OBVIOUS
<1>3. Len(r) = Len(s) - 1
  BY <1>2, HeadTailProperties
<1>4. Len(r) # 0
  BY <1>1, <1>3
<1>5. r # <<>>
  BY <1>4, EmptySeq
<1> QED BY <1>2, <1>5

\* push_back and pop_front stay within sequences of changes.
LEMMA PushType ==
  ASSUME NEW log \in Seq(Changes), NEW c \in Changes
  PROVE  PushBounded(log, c, MaxChanges) \in Seq(Changes)
<1>1. PICK grown : grown = Append(log, c)
  OBVIOUS
<1>2. grown \in Seq(Changes) /\ grown # <<>>
  BY <1>1, AppendProperties
<1>3. Tail(grown) \in Seq(Changes)
  BY <1>2, HeadTailProperties
<1> QED BY <1>1, <1>2, <1>3 DEF PushBounded

\* The snapshot that stands for "nothing saved yet" is one.
LEMMA EmptySnapshotType == EmptySnapshot \in Snapshot
BY EmptySeq DEF EmptySnapshot, Snapshot

\* A new manager has its types.
LEMMA InitTypeOK == Init => TypeOK
<1> SUFFICES ASSUME Init PROVE TypeOK
  OBVIOUS
<1> QED BY EmptySnapshotType, EmptySeq DEF Init, TypeOK, PCs, Unknown

\* Every step of every task, and a restart, keeps the types.
LEMMA NextTypeOK == TypeOK /\ [Next]_vars => TypeOK'
<1> SUFFICES ASSUME TypeOK, [Next]_vars PROVE TypeOK'
  OBVIOUS
<1> USE DEF TypeOK, PCs, logVars
<1>1. ASSUME NEW t \in Threads, NEW c \in Changes, RecordFetchAdd(t, c)
      PROVE  TypeOK'
  <2>1. <<c>> \in Seq(Changes) /\ <<c>> # <<>>
    OBVIOUS
  <2> QED BY <1>1, <2>1 DEF RecordFetchAdd
<1>2. ASSUME NEW t \in Threads, RecordPush(t)
      PROVE  TypeOK'
  <2>1. Head(arg[t]) \in Changes
    BY <1>2, HeadTailProperties DEF RecordPush
  <2>2. changes' \in Seq(Changes)
    BY <1>2, <2>1, PushType DEF RecordPush
  <2>3. pushed' \in Seq(Changes) /\ assigned' \in Seq(Nat)
    BY <1>2, <2>1, AppendProperties DEF RecordPush
  <2>4. arg' \in [Threads -> Seq(Changes)]
    BY <1>2, EmptySeq DEF RecordPush
  <2> QED BY <1>2, <2>2, <2>3, <2>4 DEF RecordPush
<1>3. ASSUME NEW t \in Threads, NEW batch \in Batch, ApplyStart(t, batch)
      PROVE  TypeOK'
  <2>1. PICK n \in 1..MaxBatch : batch \in [1..n -> Changes]
    BY DEF Batch
  <2>2. batch \in Seq(Changes) /\ batch # <<>>
    BY <2>1
  <2> QED BY <1>3, <2>2 DEF ApplyStart
<1>4. ASSUME NEW t \in Threads, ApplyStep(t)
      PROVE  TypeOK'
  <2>1. /\ Head(arg[t]) \in Changes /\ Tail(arg[t]) \in Seq(Changes)
        /\ Len(Tail(arg[t])) = Len(arg[t]) - 1 /\ Len(arg[t]) \in Nat \ {0}
    BY <1>4, HeadTailProperties, EmptySeq DEF ApplyStep
  <2>2. SeqOf[Head(arg[t])] \in Nat
    BY <2>1
  <2>3. Len(arg[t]) # 1 => Tail(arg[t]) # <<>>
    BY <2>1, <1>4, LastElement DEF ApplyStep
  <2>4. offset' \in Nat
    BY <1>4, <2>2 DEF ApplyStep
  <2>5. arg' = [arg EXCEPT ![t] = Tail(arg[t])] /\ arg' \in [Threads -> Seq(Changes)]
    BY <1>4, <2>1 DEF ApplyStep
  <2> QED BY <1>4, <2>3, <2>4, <2>5 DEF ApplyStep
<1>5. ASSUME NEW t \in Threads, NEW p \in Peers, NEW s \in SyncState,
             UpdatePeerState(t, p, s)
      PROVE  TypeOK'
  BY <1>5 DEF UpdatePeerState
<1>6. ASSUME NEW t \in Threads, SnapshotChanges(t)
      PROVE  TypeOK'
  <2>1. [EmptySnapshot EXCEPT !.changes = changes, !.pushed = pushed,
                              !.assigned = assigned] \in Snapshot
    BY DEF EmptySnapshot, Snapshot
  <2> QED BY <1>6, <2>1 DEF SnapshotChanges
<1>7. ASSUME NEW t \in Threads, SnapshotOffset(t)
      PROVE  TypeOK'
  <2>1. [draft[t] EXCEPT !.offset = offset] \in Snapshot
    BY DEF Snapshot
  <2>2. draft' = [draft EXCEPT ![t] = [draft[t] EXCEPT !.offset = offset]]
    BY <1>7 DEF SnapshotOffset
  <2>3. draft' \in [Threads -> Snapshot]
    BY <2>1, <2>2
  <2> QED BY <1>7, <2>3 DEF SnapshotOffset
<1>8. ASSUME NEW t \in Threads, SnapshotPeers(t)
      PROVE  TypeOK'
  <2>1. KnownPeers \in SUBSET Peers
    BY DEF KnownPeers
  <2>2. [draft[t] EXCEPT !.peers = KnownPeers] \in Snapshot
    BY <2>1 DEF Snapshot
  <2> QED BY <1>8, <2>2, EmptySnapshotType DEF SnapshotPeers
<1>9. CASE Restart
  <2>1. /\ saved.offset \in Nat /\ saved.changes \in Seq(Changes)
        /\ saved.pushed \in Seq(Changes) /\ saved.assigned \in Seq(Nat)
    BY DEF Snapshot
  <2>2. RestoredPeers(saved.peers) \in [Peers -> SyncState \cup {Unknown}]
    BY DEF RestoredPeers, SyncState
  <2> QED BY <1>9, <2>1, <2>2, EmptySnapshotType, EmptySeq DEF Restart
<1>10. CASE UNCHANGED vars
  BY <1>10 DEF vars
<1> QED
  BY <1>1, <1>2, <1>3, <1>4, <1>5, <1>6, <1>7, <1>8, <1>9, <1>10 DEF Next

\* Type correctness of the shared manager: every variable keeps its type and a
\* task never reaches the lock in record_change, or the loop of apply_changes,
\* without a change in hand.
THEOREM TypeCorrect == Spec => []TypeOK
BY InitTypeOK, NextTypeOK, PTL DEF Spec

(* ------------------------ the inductive invariant ---------------------- *)

\* A snapshot stays restorable when the counter moves on.
LEMMA RestorableMonotonic ==
  ASSUME NEW s \in Snapshot, NEW b \in Nat, NEW d \in Nat, b <= d,
         Restorable(s, b)
  PROVE  Restorable(s, d)
<1>1. \A i \in 1..Len(s.assigned) : s.assigned[i] \in Nat
  BY ElementOfSeq DEF Snapshot
<1>2. Len(s.pushed) \in Nat
  BY LenProperties DEF Snapshot
<1> QED BY <1>1, <1>2 DEF Restorable, Distinct

\* Finitely many tasks are between fetch_add and the lock.
LEMMA InFlightFinite ==
  ASSUME TypeOK
  PROVE  IsFiniteSet(InFlight) /\ Cardinality(InFlight) \in Nat
<1>1. InFlight \subseteq Threads
  BY DEF InFlight
<1> QED BY <1>1, FS_Subset, FS_CardinalityType

\* The counter is at least the length of the history of the log.
LEMMA CounterCoversLog ==
  ASSUME TypeOK, CounterCovers
  PROVE  Len(pushed) <= offset /\ Len(pushed) \in Nat /\ offset \in Nat
<1>1. Len(pushed) \in Nat /\ offset \in Nat
  BY LenProperties DEF TypeOK
<1>2. Cardinality(InFlight) \in Nat
  BY InFlightFinite
<1> QED BY <1>1, <1>2 DEF CounterCovers

\* A new manager satisfies the inductive invariant.
LEMMA InitIndInv == Init => IndInv
<1> SUFFICES ASSUME Init PROVE IndInv
  OBVIOUS
<1>1. TypeOK
  BY InitTypeOK
<1>2. InFlight = {}
  BY DEF Init, InFlight
<1>3. Len(<<>>) = 0
  OBVIOUS
<1>4. Newest(<<>>, <<>>)
  BY <1>3 DEF Newest
<1>5. Distinct(<<>>, 0)
  BY <1>3 DEF Distinct
<1>6. RetainsNewest
  BY <1>4 DEF Init, RetainsNewest
<1>7. CounterCovers
  BY <1>2, <1>3, FS_EmptySet DEF Init, CounterCovers
<1>8. Restorable(EmptySnapshot, 0)
  BY <1>3, <1>4, <1>5 DEF Restorable, EmptySnapshot
<1>9. SnapshotsRestorable
  BY <1>8 DEF Init, SnapshotsRestorable, EmptySnapshot
<1>10. OffsetsBehind /\ UniqueOffsets
  BY <1>2, <1>3, <1>5 DEF Init, OffsetsBehind, UniqueOffsets
<1> QED BY <1>1, <1>6, <1>7, <1>9, <1>10 DEF IndInv

\* A step that leaves the log and the tasks in flight alone, lets the counter
\* only grow and every snapshot restorable keeps the invariant.
LEMMA QuietStep ==
  ASSUME IndInv, TypeOK', offset' >= offset,
         UNCHANGED <<changes, pushed, assigned, got>>, InFlight' = InFlight,
         SnapshotsRestorable'
  PROVE  IndInv'
<1> USE DEF IndInv
<1>1. offset \in Nat /\ offset' \in Nat
  BY DEF TypeOK
<1>2. RetainsNewest'
  BY DEF RetainsNewest, Newest
<1>3. CounterCovers'
  BY <1>1, InFlightFinite, LenProperties DEF CounterCovers, TypeOK
<1>4. OffsetsBehind'
  <2>1. \A i \in 1..Len(assigned) : assigned[i] \in Nat
    BY ElementOfSeq DEF TypeOK
  <2>2. \A t \in InFlight : got[t] \in Nat
    BY DEF TypeOK, InFlight
  <2> QED BY <2>1, <2>2, <1>1 DEF OffsetsBehind, Distinct
<1>5. UniqueOffsets'
  BY DEF UniqueOffsets
<1> QED BY <1>2, <1>3, <1>4, <1>5

\* Snapshots stay restorable when the counter only grows and no task enters,
\* leaves or changes its draft.
LEMMA DraftsKept ==
  ASSUME IndInv, TypeOK', offset' >= offset, UNCHANGED <<draft, saved>>,
         \A t \in Threads : pc'[t] \in {"snapshotOffset", "snapshotPeers"}
                              => pc'[t] = pc[t]
  PROVE  SnapshotsRestorable'
<1> USE DEF IndInv
<1>1. offset \in Nat /\ offset' \in Nat /\ \A t \in Threads : draft[t] \in Snapshot
  BY DEF TypeOK
<1>2. ASSUME NEW t \in Threads, pc'[t] = "snapshotOffset"
      PROVE  Restorable(draft'[t], offset')
  <2>1. Restorable(draft[t], offset)
    BY <1>2 DEF SnapshotsRestorable
  <2> QED BY <2>1, <1>1, RestorableMonotonic
<1>3. ASSUME NEW t \in Threads, pc'[t] = "snapshotPeers"
      PROVE  Restorable(draft'[t], draft'[t].offset)
  BY <1>3 DEF SnapshotsRestorable
<1>4. Restorable(saved, saved.offset)'
  BY DEF SnapshotsRestorable, Restorable, Newest, Distinct
<1> QED BY <1>2, <1>3, <1>4 DEF SnapshotsRestorable, Restorable, Newest, Distinct

\* The fetch_add of record_change hands out an offset nobody has: all others
\* are behind the counter.  It adds one task in flight and one to the counter.
LEMMA FetchAddStep ==
  ASSUME IndInv, TypeOK', NEW t \in Threads, NEW c \in Changes,
         RecordFetchAdd(t, c)
  PROVE  IndInv'
<1> USE DEF IndInv
<1>1. /\ offset \in Nat /\ offset' = offset + 1
      /\ UNCHANGED <<changes, draft, saved, pushed, assigned>>
      /\ pc[t] = "idle" /\ pc' = [pc EXCEPT ![t] = "push"]
      /\ got' = [got EXCEPT ![t] = offset]
      /\ pc \in [Threads -> PCs] /\ got \in [Threads -> Nat]
  BY DEF RecordFetchAdd, TypeOK
<1>2. InFlight' = InFlight \cup {t} /\ t \notin InFlight
  BY <1>1 DEF InFlight
<1>3. RetainsNewest'
  BY <1>1 DEF RetainsNewest, Newest
<1>4. CounterCovers'
  <2>1. Cardinality(InFlight') = Cardinality(InFlight) + 1
    BY <1>2, InFlightFinite, FS_AddElement
  <2>2. Len(pushed) \in Nat
    BY LenProperties DEF TypeOK
  <2> QED BY <2>1, <2>2, <1>1, InFlightFinite DEF CounterCovers
<1>5. SnapshotsRestorable'
  <2>1. \A u \in Threads : pc'[u] \in {"snapshotOffset", "snapshotPeers"}
                             => pc'[u] = pc[u]
    BY <1>1
  <2> QED BY <1>1, <2>1, DraftsKept
<1>6. \A i \in 1..Len(assigned) : assigned[i] \in Nat /\ assigned[i] < offset
  BY ElementOfSeq DEF TypeOK, OffsetsBehind, Distinct
<1>7. \A u \in InFlight : got'[u] = got[u] /\ got[u] \in Nat /\ got[u] < offset
  BY <1>1, <1>2 DEF OffsetsBehind, InFlight
<1>8. got'[t] = offset
  BY <1>1
<1>9. OffsetsBehind'
  BY <1>1, <1>2, <1>6, <1>7, <1>8 DEF OffsetsBehind, Distinct
<1>10. UniqueOffsets'
  BY <1>1, <1>2, <1>6, <1>7, <1>8 DEF UniqueOffsets
<1> QED BY <1>3, <1>4, <1>5, <1>9, <1>10

\* The push of record_change moves one task out of flight into the history, so
\* the counter still covers both; its offset was nobody else's.
LEMMA PushStep ==
  ASSUME IndInv, TypeOK', NEW t \in Threads, RecordPush(t)
  PROVE  IndInv'
<1> USE DEF IndInv
<1>1. /\ offset \in Nat /\ offset' = offset /\ UNCHANGED <<draft, saved>>
      /\ pc[t] = "push" /\ pc' = [pc EXCEPT ![t] = "idle"]
      /\ got' = [got EXCEPT ![t] = 0]
      /\ pc \in [Threads -> PCs] /\ got \in [Threads -> Nat]
      /\ pushed \in Seq(Changes) /\ assigned \in Seq(Nat)
      /\ changes \in Seq(Changes)
  BY DEF RecordPush, TypeOK
<1>2. PICK c \in Changes : c = Head(arg[t])
  BY <1>1, HeadTailProperties DEF TypeOK
<1>3. /\ changes' = PushBounded(changes, c, MaxChanges)
      /\ pushed' = Append(pushed, c)
      /\ assigned' = Append(assigned, got[t])
  BY <1>2 DEF RecordPush
<1>4. InFlight' = InFlight \ {t} /\ t \in InFlight
  BY <1>1 DEF InFlight
<1>5. /\ got[t] \in Nat /\ got[t] < offset
      /\ \A u \in InFlight' : got'[u] = got[u] /\ u # t /\ u \in InFlight
  BY <1>1, <1>4 DEF OffsetsBehind, InFlight
<1>6. Len(pushed') = Len(pushed) + 1 /\ Len(pushed) \in Nat
  BY <1>1, <1>3, AppendProperties, LenProperties
<1>7. /\ Len(assigned') = Len(assigned) + 1 /\ Len(assigned) \in Nat
      /\ \A i \in 1..Len(assigned) : assigned'[i] = assigned[i] /\ assigned[i] \in Nat
      /\ assigned'[Len(assigned) + 1] = got[t]
  BY <1>1, <1>3, <1>5, AppendProperties, LenProperties, ElementOfSeq
<1>8. RetainsNewest'
  <2>1. Newest(PushBounded(changes, c, MaxChanges), Append(pushed, c))
    BY <1>1, PushKeepsNewest DEF RetainsNewest
  <2> QED BY <2>1, <1>3 DEF RetainsNewest, Newest
<1>9. CounterCovers'
  <2>1. Cardinality(InFlight') = Cardinality(InFlight) - 1
    BY <1>4, InFlightFinite, FS_RemoveElement
  <2> QED BY <2>1, <1>1, <1>6, InFlightFinite DEF CounterCovers
<1>10. SnapshotsRestorable'
  <2>1. \A u \in Threads : pc'[u] \in {"snapshotOffset", "snapshotPeers"}
                             => pc'[u] = pc[u]
    BY <1>1
  <2> QED BY <1>1, <2>1, DraftsKept
<1>11. \A i \in 1..Len(assigned') :
         i \in 1..Len(assigned) \/ i = Len(assigned) + 1
  BY <1>7
<1>12. \A i, j \in 1..Len(assigned') : assigned'[i] = assigned'[j] => i = j
  BY <1>4, <1>7, <1>11 DEF UniqueOffsets
<1>13. OffsetsBehind'
  <2>1. \A i \in 1..Len(assigned') : assigned'[i] < offset'
    BY <1>1, <1>5, <1>7, <1>11 DEF OffsetsBehind, Distinct
  <2>2. \A u \in InFlight' : got'[u] < offset'
    BY <1>1, <1>5 DEF OffsetsBehind
  <2> QED BY <2>1, <2>2, <1>6, <1>7, <1>12 DEF OffsetsBehind, Distinct
<1>14. UniqueOffsets'
  <2>1. \A u \in InFlight' : \A i \in 1..Len(assigned') : got'[u] # assigned'[i]
    BY <1>4, <1>5, <1>7, <1>11 DEF UniqueOffsets
  <2>2. \A u, v \in InFlight' : got'[u] = got'[v] => u = v
    BY <1>5 DEF UniqueOffsets
  <2> QED BY <2>1, <2>2, <1>12 DEF UniqueOffsets
<1> QED BY <1>8, <1>9, <1>10, <1>13, <1>14

\* The fetch_max of apply_changes never moves the counter back.
LEMMA ApplyStepKeeps ==
  ASSUME IndInv, TypeOK', NEW t \in Threads, ApplyStep(t)
  PROVE  IndInv'
<1> USE DEF IndInv
<1>1. /\ pc[t] = "apply" /\ pc' \in [Threads -> PCs] /\ pc \in [Threads -> PCs]
      /\ pc'[t] \in {"idle", "apply"}
      /\ \A u \in Threads : u # t => pc'[u] = pc[u]
      /\ UNCHANGED <<changes, got, draft, saved, pushed, assigned>>
  BY DEF ApplyStep, TypeOK
<1>2. offset' >= offset
  <2>1. Head(arg[t]) \in Changes
    BY <1>1, HeadTailProperties DEF TypeOK
  <2>2. SeqOf[Head(arg[t])] \in Nat
    BY <2>1
  <2> QED BY <2>2 DEF ApplyStep, TypeOK
<1>3. InFlight' = InFlight
  BY <1>1 DEF InFlight
<1>4. SnapshotsRestorable'
  <2>1. \A u \in Threads : pc'[u] \in {"snapshotOffset", "snapshotPeers"}
                             => pc'[u] = pc[u]
    BY <1>1
  <2> QED BY <1>1, <1>2, <2>1, DraftsKept
<1> QED BY <1>1, <1>2, <1>3, <1>4, QuietStep

\* ApplyStart and UpdatePeerState touch neither log, counter nor snapshots.
LEMMA LocalStepKeeps ==
  ASSUME IndInv, TypeOK', NEW t \in Threads,
         \/ \E batch \in Batch : ApplyStart(t, batch)
         \/ \E p \in Peers, s \in SyncState : UpdatePeerState(t, p, s)
  PROVE  IndInv'
<1> USE DEF IndInv
<1>1. /\ pc[t] = "idle" /\ pc'[t] \in {"idle", "apply"}
      /\ \A u \in Threads : u # t => pc'[u] = pc[u]
      /\ UNCHANGED <<offset, changes, got, draft, saved, pushed, assigned>>
  BY DEF ApplyStart, UpdatePeerState, TypeOK, logVars
<1>2. offset' >= offset
  BY <1>1 DEF TypeOK
<1>3. InFlight' = InFlight
  BY <1>1 DEF InFlight
<1>4. SnapshotsRestorable'
  <2>1. \A u \in Threads : pc'[u] \in {"snapshotOffset", "snapshotPeers"}
                             => pc'[u] = pc[u]
    BY <1>1
  <2> QED BY <1>1, <1>2, <2>1, DraftsKept
<1> QED BY <1>1, <1>2, <1>3, <1>4, QuietStep

\* The copy of the log is restorable with the counter as it is now ...
LEMMA SnapshotChangesKeeps ==
  ASSUME IndInv, TypeOK', NEW t \in Threads, SnapshotChanges(t)
  PROVE  IndInv'
<1> USE DEF IndInv
<1>1. /\ pc[t] = "idle" /\ pc'[t] = "snapshotOffset"
      /\ \A u \in Threads : u # t => pc'[u] = pc[u] /\ draft'[u] = draft[u]
      /\ UNCHANGED <<offset, changes, got, saved, pushed, assigned>>
      /\ draft'[t].changes = changes /\ draft'[t].pushed = pushed
      /\ draft'[t].assigned = assigned
  BY DEF SnapshotChanges, TypeOK, logVars, Snapshot, EmptySnapshot
<1>2. InFlight' = InFlight
  BY <1>1 DEF InFlight
<1>3. Len(pushed) <= offset
  BY CounterCoversLog
<1>4. Restorable(draft'[t], offset')
  BY <1>1, <1>3 DEF Restorable, RetainsNewest, OffsetsBehind
<1>5. SnapshotsRestorable'
  <2>1. Restorable(saved', saved'.offset)
    BY <1>1 DEF SnapshotsRestorable
  <2>2. \A u \in Threads :
          /\ pc'[u] = "snapshotOffset" => Restorable(draft'[u], offset')
          /\ pc'[u] = "snapshotPeers" => Restorable(draft'[u], draft'[u].offset)
    BY <1>1, <1>4 DEF SnapshotsRestorable
  <2> QED BY <2>1, <2>2 DEF SnapshotsRestorable, Restorable, Newest, Distinct
<1>6. offset' >= offset
  BY <1>1 DEF TypeOK
<1> QED BY <1>1, <1>2, <1>5, <1>6, QuietStep

\* ... and stays so with any later reading of the counter.
LEMMA SnapshotOffsetKeeps ==
  ASSUME IndInv, TypeOK', NEW t \in Threads, SnapshotOffset(t)
  PROVE  IndInv'
<1> USE DEF IndInv
<1>1. /\ pc[t] = "snapshotOffset" /\ pc'[t] = "snapshotPeers"
      /\ \A u \in Threads : u # t => pc'[u] = pc[u] /\ draft'[u] = draft[u]
      /\ UNCHANGED <<offset, changes, got, saved, pushed, assigned>>
      /\ draft'[t].changes = draft[t].changes
      /\ draft'[t].pushed = draft[t].pushed
      /\ draft'[t].assigned = draft[t].assigned /\ draft'[t].offset = offset
  BY DEF SnapshotOffset, TypeOK, logVars, Snapshot
<1>2. InFlight' = InFlight
  BY <1>1 DEF InFlight
<1>3. Restorable(draft'[t], draft'[t].offset)
  BY <1>1 DEF SnapshotsRestorable, Restorable
<1>4. SnapshotsRestorable'
  <2>1. Restorable(saved', saved'.offset)
    BY <1>1 DEF SnapshotsRestorable
  <2>2. \A u \in Threads :
          /\ pc'[u] = "snapshotOffset" => Restorable(draft'[u], offset')
          /\ pc'[u] = "snapshotPeers" => Restorable(draft'[u], draft'[u].offset)
    BY <1>1, <1>3 DEF SnapshotsRestorable
  <2> QED BY <2>1, <2>2 DEF SnapshotsRestorable, Restorable, Newest, Distinct
<1>5. offset' >= offset
  BY <1>1 DEF TypeOK
<1> QED BY <1>1, <1>2, <1>4, <1>5, QuietStep

\* The finished snapshot is as restorable as its draft.
LEMMA SnapshotPeersKeeps ==
  ASSUME IndInv, TypeOK', NEW t \in Threads, SnapshotPeers(t)
  PROVE  IndInv'
<1> USE DEF IndInv
<1>1. /\ pc[t] = "snapshotPeers" /\ pc'[t] = "idle"
      /\ \A u \in Threads : u # t => pc'[u] = pc[u] /\ draft'[u] = draft[u]
      /\ UNCHANGED <<offset, changes, got, pushed, assigned>>
      /\ saved'.changes = draft[t].changes /\ saved'.pushed = draft[t].pushed
      /\ saved'.assigned = draft[t].assigned /\ saved'.offset = draft[t].offset
  BY DEF SnapshotPeers, TypeOK, logVars, Snapshot
<1>2. InFlight' = InFlight
  BY <1>1 DEF InFlight
<1>3. SnapshotsRestorable'
  <2>1. Restorable(saved', saved'.offset)
    BY <1>1 DEF SnapshotsRestorable, Restorable
  <2>2. \A u \in Threads :
          /\ pc'[u] = "snapshotOffset" => Restorable(draft'[u], offset')
          /\ pc'[u] = "snapshotPeers" => Restorable(draft'[u], draft'[u].offset)
    BY <1>1 DEF SnapshotsRestorable
  <2> QED BY <2>1, <2>2 DEF SnapshotsRestorable, Restorable, Newest, Distinct
<1>4. offset' >= offset
  BY <1>1 DEF TypeOK
<1> QED BY <1>1, <1>2, <1>3, <1>4, QuietStep

\* A restart puts the manager in the state the saved snapshot describes.
LEMMA RestartKeeps ==
  ASSUME IndInv, TypeOK', Restart
  PROVE  IndInv'
<1> USE DEF IndInv
<1>1. Restorable(saved, saved.offset) /\ saved' = saved
  BY DEF SnapshotsRestorable, Restart
<1>2. /\ offset' = saved.offset /\ changes' = saved.changes
      /\ pushed' = saved.pushed /\ assigned' = saved.assigned
      /\ pc' = [t \in Threads |-> "idle"]
  BY DEF Restart
<1>3. InFlight' = {}
  BY <1>2 DEF InFlight
<1>4. RetainsNewest'
  BY <1>1, <1>2 DEF RetainsNewest, Restorable
<1>5. CounterCovers'
  <2>1. Cardinality(InFlight') = 0
    BY <1>3, FS_EmptySet
  <2>2. Len(pushed') \in Nat
    BY LenProperties DEF TypeOK
  <2> QED BY <2>1, <2>2, <1>1, <1>2 DEF CounterCovers, Restorable
<1>6. SnapshotsRestorable'
  BY <1>1, <1>2 DEF SnapshotsRestorable
<1>7. OffsetsBehind' /\ UniqueOffsets'
  BY <1>1, <1>2, <1>3 DEF OffsetsBehind, UniqueOffsets, Restorable, Distinct
<1> QED BY <1>4, <1>5, <1>6, <1>7

\* Every step of the manager keeps the inductive invariant.
LEMMA NextIndInv == IndInv /\ [Next]_vars => IndInv'
<1> SUFFICES ASSUME IndInv, [Next]_vars PROVE IndInv'
  OBVIOUS
<1>1. TypeOK'
  BY NextTypeOK DEF IndInv
<1>2. CASE UNCHANGED vars
  <2>1. UNCHANGED <<offset, changes, pc, got, draft, saved, pushed, assigned>>
    BY <1>2 DEF vars
  <2>2. InFlight' = InFlight /\ offset' >= offset
    BY <2>1 DEF InFlight, IndInv, TypeOK
  <2>3. SnapshotsRestorable'
    BY <1>1, <2>1, <2>2, DraftsKept
  <2> QED BY <1>1, <2>1, <2>2, <2>3, QuietStep
<1>3. CASE Restart
  BY <1>1, <1>3, RestartKeeps
<1>4. ASSUME NEW t \in Threads,
             \/ \E c \in Changes : RecordFetchAdd(t, c)
             \/ RecordPush(t)
             \/ \E batch \in Batch : ApplyStart(t, batch)
             \/ ApplyStep(t)
             \/ \E p \in Peers, s \in SyncState : UpdatePeerState(t, p, s)
             \/ SnapshotChanges(t) \/ SnapshotOffset(t) \/ SnapshotPeers(t)
      PROVE  IndInv'
  BY <1>1, <1>4, FetchAddStep, PushStep, ApplyStepKeeps, LocalStepKeeps,
     SnapshotChangesKeeps, SnapshotOffsetKeeps, SnapshotPeersKeeps
<1> QED BY <1>2, <1>3, <1>4 DEF Next

\* The inductive invariant holds in every reachable state of the manager.
THEOREM IndInvHolds == Spec => []IndInv
BY InitIndInv, NextIndInv, PTL DEF Spec

\* The invariant implies that a pull never misses a retained change.
LEMMA IndInvNeverMisses == IndInv => NeverMisses
<1> SUFFICES ASSUME IndInv, NEW o \in 0..Len(pushed), NEW k \in 1..Len(pushed),
                    k > o, k > Len(pushed) - Len(changes)
             PROVE  LET answer == GetChangesSince(changes, offset, o)
                    IN  /\ Len(pushed) - k < Len(answer)
                        /\ answer[Len(answer) - (Len(pushed) - k)] = pushed[k]
  BY DEF NeverMisses, HoldsAllFrom
<1>1. /\ changes \in Seq(Changes) /\ pushed \in Seq(Changes) /\ o \in Nat
      /\ Newest(changes, pushed)
  BY DEF IndInv, TypeOK, RetainsNewest
<1>2. Len(pushed) <= offset /\ offset \in Nat
  BY CounterCoversLog DEF IndInv
<1> QED BY <1>1, <1>2, AnswerHoldsAll, SMTT(30)

\* get_changes_since never misses a retained change at or after the requested
\* position, for any number of concurrent recorders, appliers, snapshots and
\* restarts.
THEOREM PullNeverMisses == Spec => []NeverMisses
BY IndInvHolds, IndInvNeverMisses, PTL

\* record_change never returns the same offset for two changes of one log,
\* restarts from a snapshot included.
THEOREM OffsetsUnique == Spec => []UniqueOffsets
<1>1. IndInv => UniqueOffsets
  BY DEF IndInv
<1> QED BY <1>1, IndInvHolds, PTL

\* The log is always the newest MaxChanges changes of its history.
THEOREM LogRetainsNewest == Spec => []RetainsNewest
<1>1. IndInv => RetainsNewest
  BY DEF IndInv
<1> QED BY <1>1, IndInvHolds, PTL

(* ------------------- how far recorders overtake each other --------------- *)

\* The changes pushed after the k-th although they took their offset before it,
\* and the recorders in flight that may still do so.
Overtakers(offs, k) == {j \in (k + 1)..Len(offs) : offs[j] < offs[k]}
Behind(k) == {t \in InFlight : got[t] < assigned[k]}
FewOvertakers(offs) ==
  \A k \in 1..Len(offs) : Cardinality(Overtakers(offs, k)) <= Cardinality(Recorders) - 1

\* A change is overtaken by the recorders that were in flight when it was
\* pushed, and a recorder overtakes it once: together fewer than the recorders.
OvertakeInv ==
  /\ InFlight \subseteq Recorders
  /\ \A k \in 1..Len(assigned) :
       Cardinality(Overtakers(assigned, k)) + Cardinality(Behind(k)) <= Cardinality(Recorders) - 1
  /\ FewOvertakers(saved.assigned)
  /\ \A t \in Threads : FewOvertakers(draft[t].assigned)

\* There are finitely many of them.
LEMMA OvertakersFinite ==
  ASSUME NEW offs \in Seq(Nat), NEW k \in Nat
  PROVE  IsFiniteSet(Overtakers(offs, k)) /\ Cardinality(Overtakers(offs, k)) \in Nat
<1>1. k + 1 \in Int /\ Len(offs) \in Int
  OBVIOUS
<1>2. IsFiniteSet((k + 1)..Len(offs))
  BY <1>1, FS_Interval
<1>3. Overtakers(offs, k) \subseteq (k + 1)..Len(offs)
  BY DEF Overtakers
<1>4. IsFiniteSet(Overtakers(offs, k))
  BY <1>2, <1>3, FS_Subset
<1> QED BY <1>4, FS_CardinalityType

\* A push overtakes the changes that have a larger offset, and is overtaken by none.
LEMMA OvertakersAppend ==
  ASSUME NEW offs \in Seq(Nat), NEW x \in Nat
  PROVE  /\ \A k \in 1..Len(offs) :
              Overtakers(Append(offs, x), k) =
                Overtakers(offs, k) \cup (IF x < offs[k] THEN {Len(offs) + 1} ELSE {})
         /\ Overtakers(Append(offs, x), Len(offs) + 1) = {}
<1> DEFINE longer == Append(offs, x)
           n == Len(offs)
<1>1. /\ n \in Nat /\ Len(longer) = n + 1 /\ longer[n + 1] = x
      /\ \A i \in 1..n : longer[i] = offs[i]
  OBVIOUS
<1> HIDE DEF longer
<1>2. ASSUME NEW k \in 1..n
      PROVE  Overtakers(longer, k) = Overtakers(offs, k) \cup (IF x < offs[k] THEN {n + 1} ELSE {})
  <2>1. (k + 1)..(n + 1) = ((k + 1)..n) \cup {n + 1}
    <3>1. n \in Nat /\ k \in Nat /\ k <= n
      BY <1>1
    <3> HIDE DEF n
    <3>2. \A j \in (k + 1)..(n + 1) : j \in (k + 1)..n \/ j = n + 1
      BY <3>1
    <3>3. \A j \in (k + 1)..n : j \in (k + 1)..(n + 1)
      BY <3>1
    <3>4. n + 1 \in (k + 1)..(n + 1)
      BY <3>1
    <3> QED BY <3>2, <3>3, <3>4
  <2>2. \A j \in (k + 1)..n : j \in 1..n
    BY <1>1
  <2>3. CASE x < offs[k]
    BY <1>1, <2>1, <2>2, <2>3 DEF Overtakers
  <2>4. CASE ~(x < offs[k])
    BY <1>1, <2>1, <2>2, <2>4 DEF Overtakers
  <2> QED BY <2>3, <2>4
<1>3. Overtakers(longer, n + 1) = {}
  BY <1>1 DEF Overtakers
<1> QED BY <1>2, <1>3 DEF longer

\* The recorders are finitely many.
LEMMA RecordersFinite == IsFiniteSet(Recorders) /\ Cardinality(Recorders) \in Nat
<1>1. IsFiniteSet(Recorders)
  BY FS_Subset
<1> QED BY <1>1, FS_CardinalityType

\* So are those in flight behind a change.
LEMMA BehindFinite ==
  ASSUME TypeOK, NEW k
  PROVE  IsFiniteSet(Behind(k)) /\ Cardinality(Behind(k)) \in Nat
<1>1. Behind(k) \subseteq Threads
  BY DEF Behind, InFlight
<1>2. IsFiniteSet(Behind(k))
  BY <1>1, FS_Subset
<1> QED BY <1>2, FS_CardinalityType

\* record_change's two steps: an offset taken now is behind no change, and a push
\* overtakes only what it was behind.
LEMMA RecordKeepsOvertake ==
  ASSUME IndInv, OvertakeInv, NEW t \in Threads,
         (\E c \in Changes : RecordFetchAdd(t, c)) \/ RecordPush(t)
  PROVE  OvertakeInv'
<1>0. /\ assigned \in Seq(Nat) /\ Len(assigned) \in Nat /\ offset \in Nat
      /\ pc \in [Threads -> PCs] /\ got \in [Threads -> Nat] /\ TypeOK
      /\ \A k \in 1..Len(assigned) : assigned[k] \in Nat /\ assigned[k] < offset
      /\ draft' = draft /\ saved' = saved
  <2>1. /\ assigned \in Seq(Nat) /\ Len(assigned) \in Nat /\ offset \in Nat
        /\ pc \in [Threads -> PCs] /\ got \in [Threads -> Nat] /\ TypeOK
    BY DEF IndInv, TypeOK
  <2>2. \A k \in 1..Len(assigned) : assigned[k] \in Nat /\ assigned[k] < offset
    BY <2>1, ElementOfSeq DEF IndInv, OffsetsBehind, Distinct
  <2>3. draft' = draft /\ saved' = saved
    BY DEF RecordFetchAdd, RecordPush
  <2> QED BY <2>1, <2>2, <2>3
<1>1. FewOvertakers(saved.assigned)' /\ \A u \in Threads : FewOvertakers(draft[u].assigned)'
  BY <1>0 DEF OvertakeInv, FewOvertakers, Overtakers
<1>2. ASSUME NEW c \in Changes, RecordFetchAdd(t, c) PROVE OvertakeInv'
  <2>1. /\ t \in Recorders /\ assigned' = assigned /\ pc' = [pc EXCEPT ![t] = "push"]
        /\ got' = [got EXCEPT ![t] = offset] /\ pc[t] = "idle"
    BY <1>2 DEF RecordFetchAdd
  <2>2. InFlight' = InFlight \cup {t} /\ t \notin InFlight
    BY <1>0, <2>1 DEF InFlight
  <2>3. InFlight' \subseteq Recorders
    BY <2>1, <2>2 DEF OvertakeInv
  <2>4. \A k \in 1..Len(assigned) : Behind(k)' = Behind(k)
    <3> SUFFICES ASSUME NEW k \in 1..Len(assigned) PROVE Behind(k)' = Behind(k)
      OBVIOUS
    <3>1. ~(got'[t] < assigned[k])
      BY <1>0, <2>1
    <3>2. \A u \in InFlight : got'[u] = got[u]
      BY <1>0, <2>1, <2>2 DEF InFlight
    <3> QED BY <2>1, <2>2, <3>1, <3>2 DEF Behind
  <2>5. \A k \in 1..Len(assigned') :
          Cardinality(Overtakers(assigned', k)) + Cardinality(Behind(k)') <= Cardinality(Recorders) - 1
    BY <2>1, <2>4 DEF OvertakeInv
  <2> QED BY <1>1, <2>3, <2>5 DEF OvertakeInv
<1>3. CASE RecordPush(t)
  <2> DEFINE x == got[t]
  <2>0. PICK n \in Nat : n = Len(assigned)
    BY <1>0
  <2>1. /\ assigned' = Append(assigned, x) /\ pc[t] = "push" /\ pc' = [pc EXCEPT ![t] = "idle"]
        /\ got' = [got EXCEPT ![t] = 0]
    BY <1>3 DEF RecordPush
  <2>2. InFlight' = InFlight \ {t} /\ t \in InFlight /\ x \in Nat
    BY <1>0, <2>1 DEF InFlight
  <2>3. InFlight' \subseteq Recorders /\ t \in Recorders
    BY <2>2 DEF OvertakeInv
  <2>4. /\ Len(assigned') = n + 1 /\ assigned'[n + 1] = x /\ \A i \in 1..n : assigned'[i] = assigned[i]
    BY <1>0, <2>0, <2>1, <2>2
  <2>5. \A u \in InFlight' : got'[u] = got[u]
    BY <1>0, <2>1, <2>2 DEF InFlight
  <2> HIDE DEF x
  <2>6. ASSUME NEW k \in 1..n
        PROVE  Cardinality(Overtakers(assigned', k)) + Cardinality(Behind(k)') <= Cardinality(Recorders) - 1
    <3> DEFINE O == Overtakers(assigned, k)
    <3>1. Overtakers(assigned', k) = O \cup (IF x < assigned[k] THEN {n + 1} ELSE {})
      BY <1>0, <2>0, <2>1, <2>2, OvertakersAppend
    <3>2. Behind(k)' = Behind(k) \ {t}
      BY <2>2, <2>4, <2>5 DEF Behind
    <3>3. t \in Behind(k) <=> x < assigned[k]
      BY <2>2 DEF Behind, x
    <3>4. k \in Nat /\ IsFiniteSet(O) /\ Cardinality(O) \in Nat
      BY <1>0, OvertakersFinite
    <3>5. IsFiniteSet(Behind(k)) /\ Cardinality(Behind(k)) \in Nat
      BY <1>0, BehindFinite
    <3>6. Cardinality(O) + Cardinality(Behind(k)) <= Cardinality(Recorders) - 1
      BY <2>0 DEF OvertakeInv
    <3>7. n + 1 \notin O
      BY <1>0, <2>0 DEF Overtakers
    <3> HIDE DEF O
    <3>8. CASE x < assigned[k]
      <4>1. Cardinality(Overtakers(assigned', k)) = Cardinality(O) + 1
        BY <3>1, <3>4, <3>7, <3>8, FS_AddElement
      <4>2. Cardinality(Behind(k)') = Cardinality(Behind(k)) - 1
        BY <3>2, <3>3, <3>5, <3>8, FS_RemoveElement
      <4> QED BY <3>4, <3>5, <3>6, <4>1, <4>2, RecordersFinite
    <3>9. CASE ~(x < assigned[k])
      <4>1. Overtakers(assigned', k) = O /\ Behind(k)' = Behind(k)
        BY <3>1, <3>2, <3>3, <3>9
      <4> QED BY <3>6, <4>1
    <3> QED BY <3>8, <3>9
  <2>7. Cardinality(Overtakers(assigned', n + 1)) + Cardinality(Behind(n + 1)') <= Cardinality(Recorders) - 1
    <3>1. Cardinality(Overtakers(assigned', n + 1)) = 0
      BY <1>0, <2>0, <2>1, <2>2, OvertakersAppend, FS_EmptySet
    <3>2. Behind(n + 1)' \subseteq Recorders \ {t}
      BY <2>2, <2>3 DEF Behind
    <3>3. IsFiniteSet(Recorders \ {t}) /\ Cardinality(Recorders \ {t}) = Cardinality(Recorders) - 1
      BY <2>3, RecordersFinite, FS_RemoveElement
    <3> DEFINE late == Behind(n + 1)'
    <3>4. late \in SUBSET (Recorders \ {t})
      BY <3>2
    <3> HIDE DEF late
    <3>5. IsFiniteSet(late) /\ Cardinality(late) <= Cardinality(Recorders \ {t})
      BY <3>3, <3>4, FS_Subset
    <3>6. Cardinality(late) \in Nat
      BY <3>5, FS_CardinalityType
    <3> QED BY <3>1, <3>3, <3>5, <3>6, RecordersFinite DEF late
  <2>8. \A k \in 1..Len(assigned') : k \in 1..n \/ k = n + 1
    BY <2>0, <2>4
  <2>9. \A k \in 1..Len(assigned') :
          Cardinality(Overtakers(assigned', k)) + Cardinality(Behind(k)') <= Cardinality(Recorders) - 1
    BY <2>6, <2>7, <2>8
  <2> QED BY <1>1, <2>3, <2>9 DEF OvertakeInv
<1> QED BY <1>2, <1>3

\* Every other step: snapshots copy a log, a restart drops the recorders in flight.
LEMMA NextOvertakeInv == IndInv /\ OvertakeInv /\ [Next]_vars => OvertakeInv'
<1> SUFFICES ASSUME IndInv, OvertakeInv, [Next]_vars PROVE OvertakeInv'
  OBVIOUS
<1>0. TypeOK /\ draft \in [Threads -> Snapshot] /\ saved \in Snapshot /\ pc \in [Threads -> PCs]
  BY DEF IndInv, TypeOK
<1>1. ASSUME UNCHANGED <<got, assigned>>, InFlight' = InFlight,
             FewOvertakers(saved'.assigned), \A u \in Threads : FewOvertakers(draft'[u].assigned)
      PROVE  OvertakeInv'
  BY <1>1 DEF OvertakeInv, Behind, Overtakers, FewOvertakers
<1>2. FewOvertakers(EmptySnapshot.assigned)
  BY DEF FewOvertakers, EmptySnapshot
<1>3. FewOvertakers(assigned)
  <2> SUFFICES ASSUME NEW k \in 1..Len(assigned)
               PROVE  Cardinality(Overtakers(assigned, k)) <= Cardinality(Recorders) - 1
    BY DEF FewOvertakers
  <2>1. assigned \in Seq(Nat) /\ k \in Nat
    BY <1>0 DEF TypeOK
  <2>2. Cardinality(Overtakers(assigned, k)) \in Nat /\ Cardinality(Behind(k)) \in Nat
    BY <1>0, <2>1, BehindFinite, OvertakersFinite
  <2> QED BY <2>2, RecordersFinite DEF OvertakeInv
<1>4. ASSUME NEW t \in Threads, \/ \E batch \in Batch : ApplyStart(t, batch)
                                \/ ApplyStep(t)
                                \/ \E p \in Peers, s \in SyncState : UpdatePeerState(t, p, s)
      PROVE  OvertakeInv'
  <2>1. UNCHANGED <<got, assigned, saved, draft>> /\ InFlight' = InFlight
    BY <1>0, <1>4 DEF ApplyStart, ApplyStep, UpdatePeerState, logVars, InFlight
  <2> QED BY <1>1, <2>1 DEF OvertakeInv
<1>5. ASSUME NEW t \in Threads, SnapshotChanges(t) PROVE OvertakeInv'
  <2>1. /\ UNCHANGED <<got, assigned, saved>> /\ InFlight' = InFlight
        /\ draft'[t].assigned = assigned /\ \A u \in Threads : u # t => draft'[u] = draft[u]
    BY <1>0, <1>5 DEF SnapshotChanges, logVars, InFlight, Snapshot, EmptySnapshot
  <2> QED BY <1>1, <1>3, <2>1 DEF OvertakeInv
<1>6. ASSUME NEW t \in Threads, SnapshotOffset(t) PROVE OvertakeInv'
  <2>1. /\ UNCHANGED <<got, assigned, saved>> /\ InFlight' = InFlight
        /\ \A u \in Threads : draft'[u].assigned = draft[u].assigned
    BY <1>0, <1>6 DEF SnapshotOffset, logVars, InFlight, Snapshot
  <2> QED BY <1>1, <2>1 DEF OvertakeInv
<1>7. ASSUME NEW t \in Threads, SnapshotPeers(t) PROVE OvertakeInv'
  <2>1. /\ UNCHANGED <<got, assigned>> /\ InFlight' = InFlight
        /\ saved'.assigned = draft[t].assigned /\ draft'[t] = EmptySnapshot
        /\ \A u \in Threads : u # t => draft'[u] = draft[u]
    BY <1>0, <1>7 DEF SnapshotPeers, logVars, InFlight, Snapshot
  <2> QED BY <1>1, <1>2, <2>1 DEF OvertakeInv
<1>8. CASE Restart
  <2>1. /\ assigned' = saved.assigned /\ InFlight' = {} /\ saved' = saved
        /\ \A u \in Threads : draft'[u] = EmptySnapshot
    BY <1>8 DEF Restart, InFlight
  <2>2. \A k : Behind(k)' = {}
    BY <2>1 DEF Behind
  <2>3. saved.assigned \in Seq(Nat)
    BY <1>0 DEF Snapshot
  <2>4. \A k \in 1..Len(assigned') :
          Cardinality(Overtakers(assigned', k)) + Cardinality(Behind(k)') <= Cardinality(Recorders) - 1
    <3> SUFFICES ASSUME NEW k \in 1..Len(saved.assigned)
                 PROVE  Cardinality(Overtakers(saved.assigned, k)) + 0 <= Cardinality(Recorders) - 1
      BY <2>1, <2>2, FS_EmptySet
    <3>1. k \in Nat
      OBVIOUS
    <3>2. Cardinality(Overtakers(saved.assigned, k)) \in Nat
      BY <2>3, <3>1, OvertakersFinite
    <3>3. Cardinality(Overtakers(saved.assigned, k)) <= Cardinality(Recorders) - 1
      BY DEF OvertakeInv, FewOvertakers
    <3> QED BY <3>2, <3>3, RecordersFinite
  <2> QED BY <1>2, <2>1, <2>4 DEF OvertakeInv, FewOvertakers, Overtakers
<1>9. CASE UNCHANGED vars
  BY <1>1, <1>9 DEF vars, InFlight, OvertakeInv
<1> QED BY <1>4, <1>5, <1>6, <1>7, <1>8, <1>9, RecordKeepsOvertake DEF Next

\* In the initial state nothing is pushed and nobody is in flight.
LEMMA InitOvertakeInv == Init => OvertakeInv
<1> SUFFICES ASSUME Init PROVE OvertakeInv
  OBVIOUS
<1>1. InFlight = {} /\ assigned = <<>> /\ saved.assigned = <<>> /\ \A t \in Threads : draft[t].assigned = <<>>
  BY DEF Init, InFlight, EmptySnapshot
<1> QED BY <1>1 DEF OvertakeInv, FewOvertakers

\* The changes after the k-th are those that overtook it and those whose offsets
\* lie between its own and the counter.
LEMMA PlacesAfter ==
  ASSUME NEW offs \in Seq(Nat), NEW bound \in Nat, Distinct(offs, bound), NEW k \in 1..Len(offs)
  PROVE  Len(offs) - k <= Cardinality(Overtakers(offs, k)) + (bound - offs[k] - 1)
<1> DEFINE n == Len(offs)
           later == {j \in (k + 1)..n : offs[j] > offs[k]}
           O == Overtakers(offs, k)
           room == (offs[k] + 1)..(bound - 1)
<1>1. n \in Nat /\ k \in Nat /\ k <= n /\ \A j \in 1..n : offs[j] \in Nat /\ offs[j] < bound
  BY ElementOfSeq DEF Distinct
<1>2. k + 1 \in Int /\ n \in Int /\ offs[k] + 1 \in Int /\ bound - 1 \in Int
  BY <1>1
<1>3. IsFiniteSet((k + 1)..n) /\ Cardinality((k + 1)..n) = n - k
  BY <1>1, <1>2, FS_Interval
<1>4. IsFiniteSet(room) /\ Cardinality(room) = bound - offs[k] - 1
  <2> DEFINE lo == offs[k] + 1
             hi == bound - 1
  <2>1. lo \in Int /\ hi \in Int /\ (IF lo > hi THEN 0 ELSE hi - lo + 1) = bound - offs[k] - 1
    BY <1>1
  <2> HIDE DEF lo, hi
  <2>2. IsFiniteSet(lo..hi) /\ Cardinality(lo..hi) = IF lo > hi THEN 0 ELSE hi - lo + 1
    BY <2>1, FS_Interval
  <2> QED BY <2>1, <2>2 DEF lo, hi
<1>5. IsFiniteSet(O) /\ Cardinality(O) \in Nat
  BY <1>1, OvertakersFinite
<1>6. IsFiniteSet(later) /\ Cardinality(later) \in Nat
  <2>1. later \in SUBSET ((k + 1)..n)
    OBVIOUS
  <2> HIDE DEF later
  <2>2. IsFiniteSet(later)
    BY <1>3, <2>1, FS_Subset
  <2> QED BY <2>2, FS_CardinalityType
<1>7. Cardinality(later) <= Cardinality(room)
  <2> SUFFICES ASSUME Cardinality(room) < Cardinality(later) PROVE FALSE
    BY <1>1, <1>4, <1>6
  <2> DEFINE f == [j \in later |-> offs[j]]
  <2>1. f \in [later -> room]
    BY <1>1
  <2>2. \A x, y \in later : f[x] = f[y] => x = y
    BY <1>1 DEF Distinct
  <2> HIDE DEF f, later, room
  <2>3. \E x, y \in later : x # y /\ f[x] = f[y]
    BY <1>4, <1>6, <2>1, FS_PigeonHole
  <2> QED BY <2>2, <2>3
<1>8. (k + 1)..n = O \cup later /\ O \cap later = {}
  <2>1. ASSUME NEW j \in (k + 1)..n PROVE offs[j] < offs[k] \/ offs[j] > offs[k]
    <3>1. j \in 1..n /\ j # k
      BY <1>1
    <3>2. offs[j] # offs[k]
      BY <3>1 DEF Distinct
    <3> QED BY <1>1, <3>1, <3>2
  <2>2. ASSUME NEW j \in (k + 1)..n PROVE ~(offs[j] < offs[k] /\ offs[j] > offs[k])
    BY <1>1
  <2> QED BY <2>1, <2>2 DEF Overtakers
<1> HIDE DEF O, later, room, n
<1>9. n - k = Cardinality(O) + Cardinality(later)
  <2>1. Cardinality(O \cup later) = Cardinality(O) + Cardinality(later) - Cardinality(O \cap later)
    BY <1>5, <1>6, FS_Union
  <2>2. Cardinality(O \cap later) = 0
    BY <1>8, FS_EmptySet
  <2>3. Cardinality(O \cup later) = n - k
    BY <1>3, <1>8
  <2> QED BY <1>5, <1>6, <2>1, <2>2, <2>3
<1> QED BY <1>1, <1>4, <1>5, <1>6, <1>7, <1>9 DEF n, O

\* Asking from the offset record_change returned reaches back to that change, or
\* misses it by fewer places than there are recorders (src/sync.rs:115, 139).
THEOREM OffsetsNearlyServed == Spec => []RecordedOffsetNearlyServed
<1>1. Spec => []OvertakeInv
  BY InitOvertakeInv, NextOvertakeInv, IndInvHolds, PTL DEF Spec
<1>2. IndInv /\ OvertakeInv => RecordedOffsetNearlyServed
  <2> SUFFICES ASSUME IndInv, OvertakeInv, NEW k \in 1..Len(pushed), k > Len(pushed) - Len(changes)
               PROVE  Len(pushed) - k < Len(GetChangesSince(changes, offset, assigned[k]))
                                          + Cardinality(Recorders) - 1
    BY DEF RecordedOffsetNearlyServed
  <2> DEFINE a == assigned[k]
             answer == GetChangesSince(changes, offset, a)
             o == Cardinality(Overtakers(assigned, k))
             r == Cardinality(Recorders)
  <2>1. /\ changes \in Seq(Changes) /\ pushed \in Seq(Changes) /\ assigned \in Seq(Nat) /\ offset \in Nat
        /\ Len(assigned) = Len(pushed) /\ Distinct(assigned, offset) /\ TypeOK
    BY DEF IndInv, TypeOK, OffsetsBehind
  <2>2. a \in Nat /\ a < offset /\ k \in Nat /\ k \in 1..Len(assigned)
    BY <2>1, ElementOfSeq DEF Distinct
  <2>3. Len(answer) = IF Len(changes) > offset - a THEN offset - a ELSE Len(changes)
    BY <2>1, <2>2, AnswerIsSuffix
  <2>4. Len(pushed) - k <= o + (offset - a - 1)
    BY <2>1, <2>2, PlacesAfter
  <2>5. o \in Nat /\ r \in Nat /\ o <= r - 1
    <3>1. o \in Nat /\ Cardinality(Behind(k)) \in Nat /\ r \in Nat
      BY <2>1, <2>2, OvertakersFinite, BehindFinite, RecordersFinite
    <3>2. o + Cardinality(Behind(k)) <= r - 1
      BY <2>2 DEF OvertakeInv
    <3> QED BY <3>1, <3>2
  <2>6. Len(changes) \in Nat /\ Len(pushed) \in Nat
    BY <2>1
  <2> HIDE DEF a, answer, o, r
  <2>7. Len(pushed) - k < Len(answer) + r - 1
    BY <2>2, <2>3, <2>4, <2>5, <2>6
  <2> QED BY <2>7 DEF answer, r, a
<1> QED BY <1>1, <1>2, IndInvHolds, PTL
=============================================================================
