------------------------------ MODULE Batcher ------------------------------
(***************************************************************************)
(* ChangeBatcher (src/batch.rs): tasks add changes to a pending buffer; a  *)
(* flush, by size, by hand or by the background task when the batch is     *)
(* old, numbers the buffer and hands it to a bounded channel with try_send.*)
(* A step is one critical section.  Two locks are held across another one: *)
(* a flush holds pending while it takes batch_start, the background task   *)
(* holds batch_start while it takes pending.                               *)
(*                                                                         *)
(* BatcherTask completes the specification: it starts and stops the        *)
(* background tasks.  Changes are named by the order of the adds.          *)
(***************************************************************************)
EXTENDS Naturals, Sequences, FiniteSets, SequencesExt

CONSTANTS
  Adders,         \* the tasks that call add and force_flush
  BgTasks,        \* the background flush tasks
  None,
  MaxBatchSize,   \* max_batch_size
  Capacity,       \* capacity of the channel (100 in BatchingSyncManager)
  ReceiverAlive,  \* does anybody hold the channel's receiver?
  ForceFlushes,   \* is force_flush called?
  MaxAdds         \* bound: number of adds

ASSUME BatcherAssumption ==
  /\ IsFiniteSet(Adders) /\ IsFiniteSet(BgTasks) /\ Adders \cap BgTasks = {}
  /\ None \notin Adders \cup BgTasks
  /\ MaxBatchSize \in Nat \ {0} /\ Capacity \in Nat \ {0} /\ MaxAdds \in Nat
  /\ ReceiverAlive \in BOOLEAN /\ ForceFlushes \in BOOLEAN

Tasks == Adders \cup BgTasks

VARIABLES
  enabled,     \* config.enabled
  pending,     \* changes not yet batched
  batchStart,  \* "none", or is max_batch_age over: "young" or "old"
  pendingLock, \* the task that holds the write lock of pending in a flush
  sequence,    \* number of the last batch
  channel,     \* batches sent and not received: [changes, sequence]
  pc,          \* task -> the step it takes next
  held,        \* task -> the changes it holds
  number,      \* task -> the number of the batch it holds
  added,       \* history: number of changes added
  received,    \* history: batches received
  dropped      \* history: batches try_send refused

vars == <<enabled, pending, batchStart, pendingLock, sequence,
          channel, pc, held, number, added, received, dropped>>
outside == <<enabled, received>>

\* A background task holds the read lock of batch_start.
StartIsRead == \E b \in BgTasks : pc[b] = "count"

BatchInit ==
  /\ enabled \in BOOLEAN
  /\ pending = <<>> /\ batchStart = "none"
  /\ pendingLock = None
  /\ sequence = 0 /\ channel = <<>>
  /\ held = [t \in Tasks |-> <<>>]
  /\ number = [t \in Tasks |-> 0]
  /\ added = 0 /\ received = {} /\ dropped = {}

----------------------------------------------------------------------------
(* add                                                                     *)

AddMark(t) ==
  /\ enabled /\ t \in Adders /\ pc[t] = "idle" /\ added < MaxAdds
  /\ ~StartIsRead
  /\ batchStart' = IF batchStart = "none" THEN "young" ELSE batchStart
  /\ added' = added + 1
  /\ held' = [held EXCEPT ![t] = <<added + 1>>]
  /\ pc' = [pc EXCEPT ![t] = "push"]
  /\ UNCHANGED <<outside, pending, pendingLock, sequence, channel,
                 number, dropped>>

AddPush(t) ==
  /\ pc[t] = "push" /\ pendingLock = None
  /\ pending' = pending \o held[t]
  /\ held' = [held EXCEPT ![t] = <<>>]
  /\ pc' = [pc EXCEPT ![t] = "check"]
  /\ UNCHANGED <<outside, batchStart, pendingLock, sequence, channel,
                 number, added, dropped>>

\* Faulty variant: the limit itself does not flush.
CheckFlushAbove(t) ==
  /\ pc[t] = "check" /\ pendingLock = None
  /\ pc' = [pc EXCEPT ![t] = IF Len(pending) > MaxBatchSize THEN "lock" ELSE "idle"]
  /\ UNCHANGED <<outside, pending, batchStart, pendingLock, sequence,
                 channel, held, number, added, dropped>>

\* check_flush reads the length after the push has released the lock.
CheckFlush(t) ==
  /\ pc[t] = "check" /\ pendingLock = None
  /\ pc' = [pc EXCEPT ![t] = IF Len(pending) >= MaxBatchSize THEN "lock" ELSE "idle"]
  /\ UNCHANGED <<outside, pending, batchStart, pendingLock, sequence,
                 channel, held, number, added, dropped>>

\* Batching disabled: a batch of one change, numbered at once.
AddSingle(t) ==
  /\ ~enabled /\ t \in Adders /\ pc[t] = "idle" /\ added < MaxAdds
  /\ added' = added + 1
  /\ held' = [held EXCEPT ![t] = <<added + 1>>]
  /\ sequence' = sequence + 1
  /\ number' = [number EXCEPT ![t] = sequence + 1]
  /\ pc' = [pc EXCEPT ![t] = "send"]
  /\ UNCHANGED <<outside, pending, batchStart, pendingLock, channel,
                 dropped>>

----------------------------------------------------------------------------
(* flush                                                                   *)

ForceFlush(t) ==
  /\ ForceFlushes /\ t \in Adders /\ pc[t] = "idle"
  /\ pc' = [pc EXCEPT ![t] = "lock"]
  /\ UNCHANGED <<outside, pending, batchStart, pendingLock, sequence,
                 channel, held, number, added, dropped>>

FlushLock(t) ==
  /\ pc[t] = "lock" /\ pendingLock = None
  /\ pendingLock' = IF pending = <<>> THEN None ELSE t
  /\ pc' = [pc EXCEPT ![t] = IF pending = <<>> THEN "idle" ELSE "take"]
  /\ UNCHANGED <<outside, pending, batchStart, sequence, channel,
                 held, number, added, dropped>>

\* Faulty variant: the changes are copied and stay pending.
FlushCopies(t) ==
  /\ pc[t] = "take" /\ ~StartIsRead
  /\ batchStart' = "none"
  /\ held' = [held EXCEPT ![t] = pending]
  /\ pendingLock' = None
  /\ pc' = [pc EXCEPT ![t] = "number"]
  /\ UNCHANGED <<outside, pending, sequence, channel, number, added,
                 dropped>>

\* Reset batch_start, then take the changes and release pending.
FlushTake(t) ==
  /\ pc[t] = "take" /\ ~StartIsRead
  /\ batchStart' = "none"
  /\ held' = [held EXCEPT ![t] = pending]
  /\ pending' = <<>>
  /\ pendingLock' = None
  /\ pc' = [pc EXCEPT ![t] = "number"]
  /\ UNCHANGED <<outside, sequence, channel, number, added, dropped>>

FlushNumber(t) ==
  /\ pc[t] = "number"
  /\ sequence' = sequence + 1
  /\ number' = [number EXCEPT ![t] = sequence + 1]
  /\ pc' = [pc EXCEPT ![t] = "send"]
  /\ UNCHANGED <<outside, pending, batchStart, pendingLock, channel,
                 held, added, dropped>>

\* try_send: a full channel, or one without receiver, refuses the batch and
\* its changes are gone.
Send(t) ==
  /\ pc[t] = "send"
  /\ LET batch == [changes |-> held[t], sequence |-> number[t]]
     IN  IF ReceiverAlive /\ Len(channel) < Capacity
         THEN channel' = Append(channel, batch) /\ UNCHANGED dropped
         ELSE dropped' = dropped \cup {batch} /\ UNCHANGED channel
  /\ held' = [held EXCEPT ![t] = <<>>]
  /\ number' = [number EXCEPT ![t] = 0]
  /\ pc' = [pc EXCEPT ![t] = "idle"]
  /\ UNCHANGED <<outside, pending, batchStart, pendingLock, sequence,
                 added>>

----------------------------------------------------------------------------
(* The background task: a tick that finds an old batch keeps batch_start   *)
(* locked until it has counted the pending changes.  Other ticks change    *)
(* nothing.                                                                *)

BgTick(b) ==
  /\ pc[b] = "idle" /\ batchStart = "old"
  /\ pc' = [pc EXCEPT ![b] = "count"]
  /\ UNCHANGED <<outside, pending, batchStart, pendingLock, sequence, channel,
                 held, number, added, dropped>>

\* Faulty variant: an old batch is flushed only when it is full.
BgCountFull(b) ==
  /\ pc[b] = "count" /\ pendingLock = None
  /\ pc' = [pc EXCEPT ![b] = IF Len(pending) >= MaxBatchSize THEN "lock" ELSE "idle"]
  /\ UNCHANGED <<outside, pending, batchStart, pendingLock, sequence, channel,
                 held, number, added, dropped>>

BgCount(b) ==
  /\ pc[b] = "count" /\ pendingLock = None
  /\ pc' = [pc EXCEPT ![b] = IF pending # <<>> THEN "lock" ELSE "idle"]
  /\ UNCHANGED <<outside, pending, batchStart, pendingLock, sequence, channel,
                 held, number, added, dropped>>

\* max_batch_age has passed since batch_start.
Age ==
  /\ batchStart = "young"
  /\ batchStart' = "old"
  /\ UNCHANGED <<outside, pending, pendingLock, sequence, channel,
                 pc, held, number, added, dropped>>

\* The owner of the receiver takes a batch.
Receive ==
  /\ ReceiverAlive /\ channel # <<>>
  /\ received' = received \cup {Head(channel)}
  /\ channel' = Tail(channel)
  /\ UNCHANGED <<enabled, pending, batchStart, pendingLock, sequence,
                 pc, held, number, added, dropped>>

----------------------------------------------------------------------------
FlushStep(t) == FlushLock(t) \/ FlushTake(t) \/ FlushNumber(t) \/ Send(t)
AdderStep(t) == AddPush(t) \/ CheckFlush(t) \/ FlushStep(t)
BgStep(b) == BgTick(b) \/ BgCount(b) \/ FlushStep(b)

BatchNext ==
  \/ \E t \in Adders : AddMark(t) \/ AddSingle(t) \/ ForceFlush(t) \/ AdderStep(t)
  \/ \E b \in BgTasks : BgStep(b)
  \/ Age
  \/ Receive

----------------------------------------------------------------------------
(* Properties                                                              *)

\* The batches sent, received or refused.
Batches == Range(channel) \cup received \cup dropped

\* Where change c is: its positions in pending, in the hands of the tasks, and
\* in the batches.
Positions(c, s) == {i \in DOMAIN s : s[i] = c}
Spots(c) ==
  {<<"pending", None, i>> : i \in Positions(c, pending)}
  \cup (UNION {{<<"held", t, i>> : i \in Positions(c, held[t])} : t \in Tasks})
  \cup (UNION {{<<"batch", b, i>> : i \in Positions(c, b.changes)} : b \in Batches})

\* Every change added is in exactly one place: pending, in the hands of one
\* task, in the channel, received, or in a batch that try_send refused.  No
\* interleaving of adds with the flushes by size, by hand and by age loses or
\* duplicates one, and no two batches have the same number.
EveryChangeOnce ==
  /\ \A c \in 1..added : Cardinality(Spots(c)) = 1
  /\ \A b, c \in Batches : b.sequence = c.sequence => b = c

\* What add and flush keep of "Maximum number of changes per batch"
\* (src/batch.rs:23): the tasks between their push and the end of their flush
\* are the only excess, so no batch has more than MaxBatchSize - 1 changes plus
\* one for every adder.
BatchNearlyBounded ==
  /\ Len(pending) <= MaxBatchSize - 1
       + Cardinality({t \in Adders : pc[t] \in {"check", "lock", "take"}})
  /\ \A i \in DOMAIN channel :
       Len(channel[i].changes) <= MaxBatchSize - 1 + Cardinality(Adders)

\* The background task waits for pending while a flush that holds pending
\* waits for batch_start.
LockCycle == StartIsRead /\ pendingLock # None
=============================================================================
