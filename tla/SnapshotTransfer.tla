-------------------------- MODULE SnapshotTransfer --------------------------
(***************************************************************************)
(* src/snapshot.rs: an exporter that gathers changes and cuts a snapshot   *)
(* of them into chunks, and an importer whose chunks and whose expected    *)
(* number of chunks are behind two locks, fed by several tasks while its   *)
(* owner finalizes and resets it.  Chunks of any export arrive in any      *)
(* order, repeatedly, late or never.                                       *)
(*                                                                         *)
(* The i-th byte of export e is <<e, i>>.  bincode::deserialize (external) *)
(* is modelled by what the code relies on: it reads an encoding that other *)
(* bytes may follow, refuses one that is cut short, and makes either an    *)
(* error or garbage of anything else.  That a peer sends chunks no export  *)
(* made is left out.                                                       *)
(***************************************************************************)
EXTENDS Naturals, Sequences, SequencesExt, FiniteSets, Functions

CONSTANTS Changes,    \* the changes that may be added, each once
          Namespace,  \* change -> its namespace
          Database,   \* change -> its database
          ChunkSize,  \* config.chunk_size
          Tasks,      \* tasks that call import_chunk
          MaxExports  \* bound: exports

ASSUME SnapshotAssumption ==
  /\ IsFiniteSet(Changes) /\ ChunkSize \in Nat \ {0} /\ MaxExports \in Nat
  /\ DOMAIN Namespace = Changes /\ DOMAIN Database = Changes

NoTotal == 0     \* None: an export has at least one chunk
NoChunk == <<>>  \* Bytes::new()
Outcome(is, e) == [is |-> is, export |-> e]

VARIABLES
  pending,   \* pending_changes of the serializer
  added,     \* history: the changes added, in order
  exports,   \* the snapshots exported
  received,  \* received_chunks
  total,     \* total_chunks
  pc,        \* task -> "idle" or "store"
  chunk,     \* task -> the chunk it imports
  owner,     \* the step the importer's owner takes next
  raced,     \* history: has an import stored a chunk since the owner's check?
  result     \* what the last finalize returned

exporter == <<pending, added, exports>>
importer == <<received, total>>
vars == <<exporter, importer, pc, chunk, owner, raced, result>>

----------------------------------------------------------------------------
(* build_snapshot, serialize and export                                    *)

\* calculate_checksum: the names and the numbers of entries, in order.
Checksum(namespaces) ==
  FlattenSeq([i \in DOMAIN namespaces |->
    <<namespaces[i].name>> \o
    FlattenSeq([j \in DOMAIN namespaces[i].databases |->
      <<namespaces[i].databases[j].name, Len(namespaces[i].databases[j].entries)>>])])

Validate(snapshot) == snapshot.checksum = Checksum(snapshot.namespaces)

\* The entries of a database: every change of it is pushed, in order.
Entries(changes, n, d) ==
  FlattenSeq([i \in DOMAIN changes |->
    IF Namespace[changes[i]] = n /\ Database[changes[i]] = d THEN <<changes[i]>> ELSE <<>>])

NamespacesOf(changes) == {Namespace[c] : c \in Range(changes)}
DatabasesOf(changes, n) == {Database[c] : c \in {x \in Range(changes) : Namespace[x] = n}}

\* Every grouping of changes build_snapshot can return: namespaces and databases
\* come in the order of a HashMap, entries in the order of the changes.
Groups(changes, n) ==
  {[name |-> n, databases |-> [j \in DOMAIN ds |->
      [name |-> ds[j], entries |-> Entries(changes, n, ds[j])]]] :
    ds \in SetToSeqs(DatabasesOf(changes, n))}
Snapshots(changes) ==
  LET Lists(ns) == {l \in [DOMAIN ns -> UNION {Groups(changes, n) : n \in Range(ns)}] :
                      \A i \in DOMAIN ns : l[i] \in Groups(changes, ns[i])}
  IN  {[namespaces |-> l, checksum |-> Checksum(l)] :
         l \in UNION {Lists(ns) : ns \in SetToSeqs(NamespacesOf(changes))}}

\* serialize: the version, the namespaces, their databases with the entries,
\* and the checksum; every item takes one byte.
Serialize(snapshot) ==
  <<"version">> \o
  FlattenSeq([i \in DOMAIN snapshot.namespaces |->
    <<snapshot.namespaces[i].name>> \o
    FlattenSeq([j \in DOMAIN snapshot.namespaces[i].databases |->
      <<snapshot.namespaces[i].databases[j].name>> \o snapshot.namespaces[i].databases[j].entries])])
  \o <<snapshot.checksum>>
Size(snapshot) == Len(Serialize(snapshot))
Encoded(e) == [i \in 1..Size(exports[e]) |-> <<e, i>>]

\* The chunks of export e; sequence numbers start at 0.
TotalChunks(e) == (Size(exports[e]) + ChunkSize - 1) \div ChunkSize
ChunkOf(e, n) ==
  LET end == IF (n + 1) * ChunkSize < Size(exports[e]) THEN (n + 1) * ChunkSize
                                                      ELSE Size(exports[e])
  IN  [sequence |-> n, total |-> TotalChunks(e),
       data |-> SubSeq(Encoded(e), n * ChunkSize + 1, end)]
Sent == UNION {{ChunkOf(e, n) : n \in 0..(TotalChunks(e) - 1)} : e \in DOMAIN exports}

\* What deserialize may return for these bytes.
Deserialize(data) ==
  LET whole == {e \in DOMAIN exports : IsPrefix(Encoded(e), data)}
      cut == \E e \in DOMAIN exports : IsStrictPrefix(data, Encoded(e))
  IN  IF whole # {} THEN {Outcome("ok", e) : e \in whole}
      ELSE {Outcome("err", 0)} \cup IF cut THEN {} ELSE {Outcome("garbage", 0)}

Init ==
  /\ pending = <<>> /\ added = <<>> /\ exports = <<>>
  /\ received = <<>> /\ total = NoTotal
  /\ pc = [t \in Tasks |-> "idle"]
  /\ chunk = [t \in Tasks |-> NoChunk]
  /\ owner = "idle" /\ raced = FALSE
  /\ result = Outcome("none", 0)

AddChange(c) ==
  /\ c \notin Range(added)
  /\ pending' = Append(pending, c)
  /\ added' = Append(added, c)
  /\ UNCHANGED <<exports, importer, pc, chunk, owner, raced, result>>

\* Faulty variant: the pending changes are cloned, not taken.
ExportClones ==
  /\ Len(exports) < MaxExports
  /\ \E s \in Snapshots(pending) : exports' = Append(exports, s)
  /\ UNCHANGED <<pending, added, importer, pc, chunk, owner, raced, result>>

\* export and export_buffer: mem::take of the pending changes.
Export ==
  /\ Len(exports) < MaxExports
  /\ \E s \in Snapshots(pending) : exports' = Append(exports, s)
  /\ pending' = <<>>
  /\ UNCHANGED <<added, importer, pc, chunk, owner, raced, result>>

----------------------------------------------------------------------------
(* import_chunk, by any task                                               *)

\* The lock of total_chunks: the first chunk sets the number, later ones are
\* refused if their number is not below it.
ImportTotal(t) ==
  /\ pc[t] = "idle"
  /\ \E c \in Sent :
       \/ /\ total # NoTotal /\ c.sequence >= total
          /\ UNCHANGED <<total, pc, chunk>>
       \/ /\ total = NoTotal \/ c.sequence < total
          /\ total' = IF total = NoTotal THEN c.total ELSE total
          /\ chunk' = [chunk EXCEPT ![t] = c]
          /\ pc' = [pc EXCEPT ![t] = "store"]
  /\ UNCHANGED <<exporter, received, owner, raced, result>>

\* Faulty variant: chunks are kept in the order they come.
ImportAppends(t) ==
  /\ pc[t] = "store"
  /\ received' = Append(received, chunk[t].data)
  /\ chunk' = [chunk EXCEPT ![t] = NoChunk]
  /\ pc' = [pc EXCEPT ![t] = "idle"]
  /\ raced' = TRUE
  /\ UNCHANGED <<exporter, total, owner, result>>

\* The lock of received_chunks: resize with empty chunks, then store.
ImportStore(t) ==
  /\ pc[t] = "store"
  /\ LET idx == chunk[t].sequence + 1
         len == IF idx > Len(received) THEN idx ELSE Len(received)
     IN  received' = [i \in 1..len |-> IF i = idx THEN chunk[t].data
                                       ELSE IF i <= Len(received) THEN received[i]
                                       ELSE NoChunk]
  /\ chunk' = [chunk EXCEPT ![t] = NoChunk]
  /\ pc' = [pc EXCEPT ![t] = "idle"]
  /\ raced' = TRUE
  /\ UNCHANGED <<exporter, total, owner, result>>

----------------------------------------------------------------------------
(* is_complete, finalize and reset, by the owner                           *)

\* Only the chunks that are there are looked at: chunks missing at the end do
\* not count.
IsComplete ==
  /\ total # NoTotal
  /\ \A i \in DOMAIN received : i <= total => received[i] # NoChunk

\* Faulty variant: finalize does not ask is_complete.
FinalizeUnchecked ==
  /\ owner = "idle"
  /\ owner' = "read" /\ result' = result
  /\ raced' = FALSE
  /\ UNCHANGED <<exporter, importer, pc, chunk>>

FinalizeCheck ==
  /\ owner = "idle"
  /\ IF IsComplete
     THEN owner' = "read" /\ UNCHANGED result
     ELSE owner' = "idle" /\ result' = Outcome("incomplete", 0)
  /\ raced' = FALSE
  /\ UNCHANGED <<exporter, importer, pc, chunk>>

\* Every chunk is read, those beyond total included; nobody calls validate.
FinalizeRead ==
  /\ owner = "read"
  /\ result' \in Deserialize(FlattenSeq(received))
  /\ owner' = "idle"
  /\ UNCHANGED <<exporter, importer, pc, chunk, raced>>

ResetChunks ==
  /\ owner = "idle"
  /\ received' = <<>>
  /\ owner' = "resetTotal"
  /\ UNCHANGED <<exporter, total, pc, chunk, raced, result>>

ResetTotal ==
  /\ owner = "resetTotal"
  /\ total' = NoTotal
  /\ owner' = "idle"
  /\ UNCHANGED <<exporter, received, pc, chunk, raced, result>>

Next ==
  \/ \E c \in Changes : AddChange(c)
  \/ Export
  \/ \E t \in Tasks : ImportTotal(t) \/ ImportStore(t)
  \/ FinalizeCheck \/ FinalizeRead \/ ResetChunks \/ ResetTotal

Spec == Init /\ [][Next]_vars

----------------------------------------------------------------------------
(* Properties                                                              *)

Quiet == \A t \in Tasks : pc[t] = "idle"
ExportsIn == {received[i][1][1] : i \in {j \in DOMAIN received : received[j] # NoChunk}}

EntriesIn(snapshot, n, d) ==
  FlattenSeq([i \in DOMAIN snapshot.namespaces |->
    IF snapshot.namespaces[i].name # n THEN <<>>
    ELSE LET dbs == snapshot.namespaces[i].databases
         IN  FlattenSeq([j \in DOMAIN dbs |->
               IF dbs[j].name = d THEN dbs[j].entries ELSE <<>>])])

\* Every change that was added is in one export or pending, once, and the
\* entries of a database, export after export, are its changes in the order
\* add_change took them (src/snapshot.rs:151), whenever exports come.
ExportedOnceInOrder ==
  \A n \in Range(Namespace), d \in Range(Database) :
    FlattenSeq([e \in DOMAIN exports |-> EntriesIn(exports[e], n, d)]) \o Entries(pending, n, d)
      = Entries(added, n, d)

\* An importer that holds every chunk of one export, no other one within their
\* number, and knows their number, is complete and finalizes to exactly the
\* snapshot exported, checksum included: whatever order, repetition or
\* interleaving the chunks came in, whatever resets they survived, and
\* whatever is left behind them from an earlier transfer.
AllChunksSuffice ==
  \A e \in DOMAIN exports :
    (/\ Quiet /\ total = TotalChunks(e)
     /\ {b \in Range(FlattenSeq(received)) : b[1] = e} = Range(Encoded(e))
     /\ \A i \in DOMAIN received : i <= total => received[i] # NoChunk /\ received[i][1][1] = e)
    => /\ IsComplete
       /\ Deserialize(FlattenSeq(received)) = {Outcome("ok", e)}
       /\ Validate(exports[e])

\* finalize never takes an incomplete transfer for a snapshot: when the chunks
\* it holds and the number it expects are those of one export, and no chunk was
\* stored between its check and its read, it returns that export's snapshot or
\* an error. (is_complete alone does not see that chunks are missing at the
\* end, src/snapshot.rs:316.)
FinalizeExactOrFails ==
  [][ \A e \in DOMAIN exports :
        (owner = "read" /\ owner' = "idle" /\ ~raced /\ ExportsIn = {e} /\ total = TotalChunks(e))
          => result' \in {Outcome("ok", e), Outcome("err", 0)} ]_vars
=============================================================================
