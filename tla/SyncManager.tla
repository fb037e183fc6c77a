---------------------------- MODULE SyncManager ----------------------------
(***************************************************************************)
(* SyncManager (src/sync.rs): a change counter (an atomic), a bounded      *)
(* change log (behind a lock) and the states of the known peers (behind    *)
(* another), shared by the tasks of every connection and of the            *)
(* application.  A step is one access to shared state: the code takes no   *)
(* lock across two of them, so the steps of different tasks interleave.    *)
(*                                                                         *)
(* The counter is a u64 in the code and a Nat here.  The ids the crate     *)
(* makes itself (Change::new) are version-4 UUIDs, whose fixed version     *)
(* nibble leaves fetch_max more than 2^55 below the largest u64.  An id in *)
(* a batch of a peer is not checked and may take the counter up to it; the *)
(* next fetch_add then wraps to 0.  That step is not modelled: MaxOffset   *)
(* bounds the counter from which a change is recorded, and stands for a    *)
(* number below 2^64.                                                      *)
(***************************************************************************)
EXTENDS ChangeLog, FiniteSets

CONSTANTS
  Threads,      \* the tasks that share the manager
  Recorders,    \* the tasks among them that call record_change
  Changes,      \* the changes, identified by their UUIDs
  Peers,
  MaxChanges,   \* max_changes, the capacity of the log
  SeqOf,        \* change -> change.id.to_u128_le() as u64
  MaxBatch,     \* bound: changes in a batch given to apply_changes
  MaxOffset     \* bound: the counter below which a change is recorded

ASSUME ConstantsAssumption ==
  /\ IsFiniteSet(Threads) /\ Recorders \subseteq Threads
  /\ MaxChanges \in Nat /\ MaxBatch \in Nat /\ MaxOffset \in Nat
  /\ SeqOf \in [Changes -> Nat]

SyncState == {"Disconnected", "Connecting", "Syncing", "Synchronized", "Error"}
Unknown == "Unknown"   \* no entry for the peer in the map

VARIABLES
  offset,      \* AtomicU64
  changes,     \* the retained changes, oldest first
  peerStates,  \* peer -> its state, or Unknown
  pc,          \* thread -> the step it takes next
  arg,         \* thread -> the changes it still has to record or to apply
  got,         \* thread -> the offset it holds in a local variable
  draft,       \* thread -> the snapshot it is putting together
  saved,       \* the last finished snapshot, outside the process
  pushed,      \* history: every change pushed into this log, oldest first
  assigned     \* history: the offset record_change returned for pushed[i]

vars == <<offset, changes, peerStates, pc, arg, got, draft, saved, pushed,
          assigned>>
logVars == <<offset, changes, pushed, assigned>>

\* A SyncSnapshot, with the histories of the log it was copied from.
Snapshot == [offset : Nat, changes : Seq(Changes), peers : SUBSET Peers,
             pushed : Seq(Changes), assigned : Seq(Nat)]

\* Restoring it gives what `new` gives: it stands for "nothing saved yet".
EmptySnapshot == [offset |-> 0, changes |-> <<>>, peers |-> {},
                  pushed |-> <<>>, assigned |-> <<>>]

KnownPeers == {p \in Peers : peerStates[p] # Unknown}
InFlight == {t \in Threads : pc[t] = "push"}

Init ==
  /\ offset = 0
  /\ changes = <<>>
  /\ peerStates = [p \in Peers |-> Unknown]
  /\ pc = [t \in Threads |-> "idle"]
  /\ arg = [t \in Threads |-> <<>>]
  /\ got = [t \in Threads |-> 0]
  /\ draft = [t \in Threads |-> EmptySnapshot]
  /\ saved = EmptySnapshot
  /\ pushed = <<>>
  /\ assigned = <<>>

----------------------------------------------------------------------------
(* record_change: the counter first, then, under the lock, the log.        *)

RecordFetchAdd(t, c) ==
  /\ t \in Recorders
  /\ pc[t] = "idle"
  /\ offset < MaxOffset
  /\ offset' = offset + 1
  /\ got' = [got EXCEPT ![t] = offset]
  /\ arg' = [arg EXCEPT ![t] = <<c>>]
  /\ pc' = [pc EXCEPT ![t] = "push"]
  /\ UNCHANGED <<changes, peerStates, draft, saved, pushed, assigned>>

\* Faulty variant: record_change returns the counter after the increment.
RecordReturnsNext(t) ==
  /\ pc[t] = "push"
  /\ changes' = PushBounded(changes, Head(arg[t]), MaxChanges)
  /\ pushed' = Append(pushed, Head(arg[t]))
  /\ assigned' = Append(assigned, got[t] + 1)
  /\ arg' = [arg EXCEPT ![t] = <<>>]
  /\ got' = [got EXCEPT ![t] = 0]
  /\ pc' = [pc EXCEPT ![t] = "idle"]
  /\ UNCHANGED <<offset, peerStates, draft, saved>>

RecordPush(t) ==
  /\ pc[t] = "push"
  /\ changes' = PushBounded(changes, Head(arg[t]), MaxChanges)
  /\ pushed' = Append(pushed, Head(arg[t]))
  /\ assigned' = Append(assigned, got[t])
  /\ arg' = [arg EXCEPT ![t] = <<>>]
  /\ got' = [got EXCEPT ![t] = 0]
  /\ pc' = [pc EXCEPT ![t] = "idle"]
  /\ UNCHANGED <<offset, peerStates, draft, saved>>

----------------------------------------------------------------------------
(* apply_changes: one fetch_max per change; the log is not touched.  The   *)
(* local current_offset only counts the changes; no caller uses the result *)
(* and it is left out.                                                     *)

Batch == UNION {[1..n -> Changes] : n \in 1..MaxBatch}

ApplyStart(t, batch) ==
  /\ pc[t] = "idle"
  /\ arg' = [arg EXCEPT ![t] = batch]
  /\ pc' = [pc EXCEPT ![t] = "apply"]
  /\ UNCHANGED <<logVars, peerStates, got, draft, saved>>

\* Faulty variant: a store in place of fetch_max.
ApplyStores(t) ==
  /\ pc[t] = "apply"
  /\ offset' = SeqOf[Head(arg[t])]
  /\ arg' = [arg EXCEPT ![t] = Tail(@)]
  /\ pc' = [pc EXCEPT ![t] = IF Len(arg[t]) = 1 THEN "idle" ELSE "apply"]
  /\ UNCHANGED <<changes, peerStates, got, draft, saved, pushed, assigned>>

\* fetch_max with the low 64 bits of the change's id, which a peer has chosen.
ApplyStep(t) ==
  /\ pc[t] = "apply"
  /\ LET seq == SeqOf[Head(arg[t])]
     IN  offset' = IF seq > offset THEN seq ELSE offset
  /\ arg' = [arg EXCEPT ![t] = Tail(@)]
  /\ pc' = [pc EXCEPT ![t] = IF Len(arg[t]) = 1 THEN "idle" ELSE "apply"]
  /\ UNCHANGED <<changes, peerStates, got, draft, saved, pushed, assigned>>

----------------------------------------------------------------------------
(* update_peer_state                                                       *)

UpdatePeerState(t, p, s) ==
  /\ pc[t] = "idle"
  /\ peerStates' = [peerStates EXCEPT ![p] = s]
  /\ UNCHANGED <<logVars, pc, arg, got, draft, saved>>

----------------------------------------------------------------------------
(* snapshot: the log, the counter and the peers are read at three moments. *)

SnapshotChanges(t) ==
  /\ pc[t] = "idle"
  /\ draft' = [draft EXCEPT ![t] = [EmptySnapshot EXCEPT !.changes = changes,
                                                         !.pushed = pushed,
                                                         !.assigned = assigned]]
  /\ pc' = [pc EXCEPT ![t] = "snapshotOffset"]
  /\ UNCHANGED <<logVars, peerStates, arg, got, saved>>

SnapshotOffset(t) ==
  /\ pc[t] = "snapshotOffset"
  /\ draft' = [draft EXCEPT ![t].offset = offset]
  /\ pc' = [pc EXCEPT ![t] = "snapshotPeers"]
  /\ UNCHANGED <<logVars, peerStates, arg, got, saved>>

SnapshotPeers(t) ==
  /\ pc[t] = "snapshotPeers"
  /\ saved' = [draft[t] EXCEPT !.peers = KnownPeers]
  /\ draft' = [draft EXCEPT ![t] = EmptySnapshot]
  /\ pc' = [pc EXCEPT ![t] = "idle"]
  /\ UNCHANGED <<logVars, peerStates, arg, got>>

----------------------------------------------------------------------------
(* The process ends at any point; the next one creates a manager and       *)
(* restores the last snapshot before any other task has the manager, so    *)
(* new + restore is one step.  Snapshots are made by `snapshot`, so every  *)
(* peer key decodes.  The log is not trimmed.                              *)

RestoredPeers(peers) ==
  [p \in Peers |-> IF p \in peers THEN "Disconnected" ELSE Unknown]

\* Faulty variant: the counter is restored from the length of the log.
RestartFromLength ==
  /\ offset' = Len(saved.changes)
  /\ changes' = saved.changes
  /\ pushed' = saved.pushed
  /\ assigned' = saved.assigned
  /\ peerStates' = RestoredPeers(saved.peers)
  /\ pc' = [t \in Threads |-> "idle"]
  /\ arg' = [t \in Threads |-> <<>>]
  /\ got' = [t \in Threads |-> 0]
  /\ draft' = [t \in Threads |-> EmptySnapshot]
  /\ UNCHANGED saved

Restart ==
  /\ offset' = saved.offset
  /\ changes' = saved.changes
  /\ pushed' = saved.pushed
  /\ assigned' = saved.assigned
  /\ peerStates' = RestoredPeers(saved.peers)
  /\ pc' = [t \in Threads |-> "idle"]
  /\ arg' = [t \in Threads |-> <<>>]
  /\ got' = [t \in Threads |-> 0]
  /\ draft' = [t \in Threads |-> EmptySnapshot]
  /\ UNCHANGED saved

----------------------------------------------------------------------------
Next ==
  \/ \E t \in Threads :
       \/ \E c \in Changes : RecordFetchAdd(t, c)
       \/ RecordPush(t)
       \/ \E batch \in Batch : ApplyStart(t, batch)
       \/ ApplyStep(t)
       \/ \E p \in Peers, s \in SyncState : UpdatePeerState(t, p, s)
       \/ SnapshotChanges(t)
       \/ SnapshotOffset(t)
       \/ SnapshotPeers(t)
  \/ Restart

Spec == Init /\ [][Next]_vars

----------------------------------------------------------------------------
(* Properties                                                              *)

PCs == {"idle", "push", "apply", "snapshotOffset", "snapshotPeers"}

\* Every variable has its type, and a task in the middle of record_change or
\* apply_changes still holds a change.
TypeOK ==
  /\ offset \in Nat
  /\ changes \in Seq(Changes)
  /\ peerStates \in [Peers -> SyncState \cup {Unknown}]
  /\ pc \in [Threads -> PCs]
  /\ arg \in [Threads -> Seq(Changes)]
  /\ got \in [Threads -> Nat]
  /\ draft \in [Threads -> Snapshot]
  /\ saved \in Snapshot
  /\ pushed \in Seq(Changes)
  /\ assigned \in Seq(Nat)
  /\ \A t \in Threads : pc[t] \in {"push", "apply"} => arg[t] # <<>>

\* The answer `answer` of get_changes_since(o) holds every change of the log
\* that is retained and whose position in the history is o or later (the
\* first change has position 0), each at its place from the end.
HoldsAllFrom(answer, o) ==
  \A k \in 1..Len(pushed) :
    (k > o /\ k > Len(pushed) - Len(changes)) =>
       /\ Len(pushed) - k < Len(answer)
       /\ answer[Len(answer) - (Len(pushed) - k)] = pushed[k]

\* get_changes_since(o) never misses a retained change at position o or later,
\* for every o, whatever recorders are between counter and log, however far
\* apply_changes has moved the counter, and after every restart from a
\* snapshot whose log and counter were read at different moments.
NeverMisses ==
  \A o \in 0..Len(pushed) : HoldsAllFrom(GetChangesSince(changes, offset, o), o)

\* No two changes of a log have been given the same offset by record_change,
\* before or after a restart, and an offset in the hands of a recorder is
\* nobody else's.
UniqueOffsets ==
  /\ \A i, j \in 1..Len(assigned) : assigned[i] = assigned[j] => i = j
  /\ \A t \in InFlight : \A i \in 1..Len(assigned) : got[t] # assigned[i]
  /\ \A t, u \in InFlight : got[t] = got[u] => t = u

\* "Record a new change and return its offset" / "Get all changes since a
\* given offset" (src/sync.rs:115, 139): asking from the offset record_change
\* returned for a retained change gives an answer that reaches back to that
\* change, or misses it by at most one place for every other recorder: recorders
\* may push in another order than they took their offsets.
RecordedOffsetNearlyServed ==
  \A k \in 1..Len(pushed) :
    k > Len(pushed) - Len(changes) =>
      Len(pushed) - k < Len(GetChangesSince(changes, offset, assigned[k]))
                          + Cardinality(Recorders) - 1

\* `log` is the newest MaxChanges changes of the history `hist`.
Newest(log, hist) ==
  /\ Len(log) = IF Len(hist) > MaxChanges THEN MaxChanges ELSE Len(hist)
  /\ \A i \in 1..Len(log) : log[i] = hist[Len(hist) - Len(log) + i]

\* The log holds exactly the newest MaxChanges changes ever pushed, in the
\* order they were pushed: nothing else is dropped by concurrent recorders or
\* by a restart.
RetainsNewest == Newest(changes, pushed)

----------------------------------------------------------------------------
(* The inductive invariant behind NeverMisses and UniqueOffsets.           *)

\* The offsets `offs` handed out are distinct and behind the counter `bound`.
Distinct(offs, bound) ==
  /\ \A i \in 1..Len(offs) : offs[i] < bound
  /\ \A i, j \in 1..Len(offs) : offs[i] = offs[j] => i = j

\* The snapshot s can be restored with its counter at `bound` or later.
Restorable(s, bound) ==
  /\ Newest(s.changes, s.pushed)
  /\ Len(s.pushed) <= bound
  /\ Len(s.assigned) = Len(s.pushed)
  /\ Distinct(s.assigned, bound)

\* The counter is ahead of the log by at least the records in flight.
CounterCovers == Len(pushed) + Cardinality(InFlight) <= offset

SnapshotsRestorable ==
  /\ Restorable(saved, saved.offset)
  /\ \A t \in Threads :
       /\ pc[t] = "snapshotOffset" => Restorable(draft[t], offset)
       /\ pc[t] = "snapshotPeers" => Restorable(draft[t], draft[t].offset)

\* The offsets assigned, and the ones in flight, are behind the counter.
OffsetsBehind ==
  /\ Len(assigned) = Len(pushed)
  /\ Distinct(assigned, offset)
  /\ \A t \in InFlight : got[t] < offset

\* The inductive invariant: the log is the newest part of its history, the
\* counter covers the log and the records in flight, every offset handed out
\* is used once, and every snapshot, finished or not, keeps all that.
IndInv ==
  /\ TypeOK
  /\ RetainsNewest
  /\ CounterCovers
  /\ SnapshotsRestorable
  /\ OffsetsBehind
  /\ UniqueOffsets
=============================================================================
