---------------------------- MODULE BatcherTask ----------------------------
(***************************************************************************)
(* The life of the background flush task of ChangeBatcher (src/batch.rs):  *)
(* owners start it and shut it down while it ticks and flushes, as module  *)
(* Batcher has it, and adders add.  A start spawns a member of BgTasks     *)
(* that never ran: their number bounds the starts.                         *)
(*                                                                         *)
(* The task holds an Arc of its batcher, so drop of the batcher cannot run *)
(* before the task has ended and stops nothing.  Unless max_batch_age is   *)
(* too long for the clock (Instant::now() + max_batch_age overflows and    *)
(* panics, l.160), which is left out, no step of the task can panic:       *)
(* task_has_crashed stays false and try_restart_task has no effect.        *)
(***************************************************************************)
EXTENDS Batcher

CONSTANT Owners     \* the callers of start_background_flush_task and shutdown

ASSUME OwnersAssumption == IsFiniteSet(Owners)

VARIABLES
  shutdownTx,  \* the task whose sender shutdown_tx holds, or None
  told,        \* tasks whose channel a shutdown has sent on
  handle,      \* flush_task_handle: a task or None
  opc,         \* owner -> the step it takes next
  mine,        \* owner -> the task it starts or waits for
  returned     \* history: owner -> the call that returned last

taskVars == <<shutdownTx, told, handle, opc, mine, returned>>
allVars == <<vars, taskVars>>
batching == <<enabled, pending, batchStart, pendingLock, sequence, channel,
              held, number, added, received, dropped>>

TaskInit ==
  /\ BatchInit
  /\ pc = [t \in Tasks |-> IF t \in Adders THEN "idle" ELSE "none"]
  /\ shutdownTx = None /\ told = {} /\ handle = None
  /\ opc = [o \in Owners |-> "idle"]
  /\ mine = [o \in Owners |-> None]
  /\ returned = [o \in Owners |-> "none"]

\* The task runs: spawned and not at its end.
Running(b) == pc[b] \notin {"none", "done"}

\* shutdown_rx.changed() is ready: the sender has sent, or was dropped when
\* another start replaced it.
Signalled(b) == b \in told \/ shutdownTx # b

----------------------------------------------------------------------------
(* start_background_flush_task                                             *)

StartRefused(o) ==
  /\ opc[o] = "idle" /\ handle # None
  /\ returned' = [returned EXCEPT ![o] = "start"]
  /\ UNCHANGED <<vars, shutdownTx, told, handle, opc, mine>>

\* The tasks no start has taken.
Unused == {b \in BgTasks : pc[b] = "none" /\ \A o \in Owners : mine[o] # b}

StartChecked(o) ==
  /\ opc[o] = "idle" /\ handle = None
  /\ Unused # {}
  /\ mine' = [mine EXCEPT ![o] = CHOOSE b \in Unused : TRUE]
  /\ opc' = [opc EXCEPT ![o] = "setTx"]
  /\ UNCHANGED <<vars, shutdownTx, told, handle, returned>>

StartSetTx(o) ==
  /\ opc[o] = "setTx"
  /\ shutdownTx' = mine[o]
  /\ opc' = [opc EXCEPT ![o] = "spawn"]
  /\ UNCHANGED <<vars, told, handle, mine, returned>>

StartSpawn(o) ==
  /\ opc[o] = "spawn"
  /\ pc' = [pc EXCEPT ![mine[o]] = "idle"]
  /\ opc' = [opc EXCEPT ![o] = "store"]
  /\ UNCHANGED <<batching, shutdownTx, told, handle, mine, returned>>

StartStore(o) ==
  /\ opc[o] = "store"
  /\ handle' = mine[o]
  /\ mine' = [mine EXCEPT ![o] = None]
  /\ opc' = [opc EXCEPT ![o] = "idle"]
  /\ returned' = [returned EXCEPT ![o] = "start"]
  /\ UNCHANGED <<vars, shutdownTx, told>>

----------------------------------------------------------------------------
(* shutdown: send, sleep, take the handle, wait for its task.              *)

ShutdownSend(o) ==
  /\ opc[o] = "idle"
  /\ told' = told \cup ({shutdownTx} \ {None})
  /\ opc' = [opc EXCEPT ![o] = "take"]
  /\ UNCHANGED <<vars, shutdownTx, handle, mine, returned>>

\* Faulty variant: shutdown does not wait for the task.
ShutdownTakeOnly(o) ==
  /\ opc[o] = "take"
  /\ handle' = None
  /\ opc' = [opc EXCEPT ![o] = "idle"]
  /\ returned' = [returned EXCEPT ![o] = "shutdown"]
  /\ UNCHANGED <<vars, shutdownTx, told, mine>>

ShutdownTake(o) ==
  /\ opc[o] = "take"
  /\ handle' = None
  /\ mine' = [mine EXCEPT ![o] = handle]
  /\ opc' = [opc EXCEPT ![o] = IF handle = None THEN "idle" ELSE "join"]
  /\ returned' = [returned EXCEPT ![o] = IF handle = None THEN "shutdown" ELSE @]
  /\ UNCHANGED <<vars, shutdownTx, told>>

ShutdownJoin(o) ==
  /\ opc[o] = "join" /\ pc[mine[o]] = "done"
  /\ mine' = [mine EXCEPT ![o] = None]
  /\ opc' = [opc EXCEPT ![o] = "idle"]
  /\ returned' = [returned EXCEPT ![o] = "shutdown"]
  /\ UNCHANGED <<vars, shutdownTx, told, handle>>

----------------------------------------------------------------------------
(* The end of the task: it leaves its loop, then clears the handle.        *)

\* Faulty variant: the loop goes on until its ticks have emptied the buffer.
TaskSignalWhenEmpty(b) ==
  /\ pc[b] = "idle" /\ Signalled(b) /\ pending = <<>>
  /\ pc' = [pc EXCEPT ![b] = "clear"]
  /\ UNCHANGED <<batching, taskVars>>

TaskSignal(b) ==
  /\ pc[b] = "idle" /\ Signalled(b)
  /\ pc' = [pc EXCEPT ![b] = "clear"]
  /\ UNCHANGED <<batching, taskVars>>

TaskClear(b) ==
  /\ pc[b] = "clear"
  /\ handle' = None
  /\ pc' = [pc EXCEPT ![b] = "done"]
  /\ UNCHANGED <<batching, shutdownTx, told, opc, mine, returned>>

----------------------------------------------------------------------------
OwnerStep(o) ==
  \/ StartSetTx(o) \/ StartSpawn(o) \/ StartStore(o)
  \/ ShutdownTake(o) \/ ShutdownJoin(o)

TaskNext ==
  \/ BatchNext /\ UNCHANGED taskVars
  \/ \E o \in Owners : StartRefused(o) \/ StartChecked(o) \/ ShutdownSend(o)
                       \/ OwnerStep(o)
  \/ \E b \in BgTasks : TaskSignal(b) \/ TaskClear(b)

\* A task or call that has begun an operation is scheduled until it ends it (or
\* waits for a lock), the background task takes one of the branches of select!
\* that are ready, and time passes.  Nobody has to add, to force a flush, to
\* receive, to start or to shut down.
TaskFairness ==
  /\ \A t \in Adders : WF_allVars(AdderStep(t) /\ UNCHANGED taskVars)
  /\ \A b \in BgTasks :
       WF_allVars((BgStep(b) /\ UNCHANGED taskVars) \/ TaskSignal(b) \/ TaskClear(b))
  /\ WF_allVars(Age /\ UNCHANGED taskVars)
  /\ \A o \in Owners : WF_allVars(OwnerStep(o))

TaskSpec == TaskInit /\ [][TaskNext]_allVars /\ TaskFairness

----------------------------------------------------------------------------
(* Properties                                                              *)

\* A task runs that nobody has told to stop.
Serving == \E b \in BgTasks : Running(b) /\ ~Signalled(b)

\* "This sends a shutdown signal and waits for the task to complete"
\* (src/batch.rs:228) and "If a task is already running, this is a no-op"
\* (src/batch.rs:141): with one owner, a task serves the batch once start has
\* returned, although earlier tasks clear a handle they do not own, and none
\* runs once shutdown has returned, although the task may have taken its own
\* handle away from it.
CallsTakeEffect ==
  \A o \in Owners : opc[o] = "idle" =>
    /\ returned[o] = "start" => Serving
    /\ returned[o] = "shutdown" => ~\E b \in BgTasks : Running(b)

\* A task that was told to stop ends, at whatever step of a flush it was told,
\* unless it waits crosswise with a flush for the two locks.
SignalledEnds ==
  LET stopping == \E b \in BgTasks : Running(b) /\ Signalled(b)
  IN  stopping ~> (~stopping \/ LockCycle)

\* "periodically checks if the batch has exceeded max_batch_age and flushes it
\* regardless of whether new changes arrive" (src/batch.rs:138): while a task
\* serves, an old batch is flushed, unless the task and a flush wait for each
\* other's lock for ever; nothing else keeps it.
OldBatchFlushedOrLocked ==
  (batchStart = "old" /\ pending # <<>> /\ Serving)
     ~> (pending = <<>> \/ LockCycle \/ ~Serving)
=============================================================================
