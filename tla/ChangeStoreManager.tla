------------------------- MODULE ChangeStoreManager -------------------------
(***************************************************************************)
(* ChangeStoreManager of src/persist.rs around an in-memory store: flush   *)
(* tasks that tick, the watch channel that tells them to stop, shutdown    *)
(* and drop.  A watch channel keeps the newest signal for every receiver   *)
(* subscribed by then.  The periodic flush of a file store is a thread of  *)
(* FileChangeStore that flushes at any time, its close one that closes.    *)
(***************************************************************************)
EXTENDS MemoryChangeStore

CONSTANT FlushTasks   \* the flush tasks that may be started

VARIABLES
  task,     \* flush task -> "unborn", "waiting", "flushing" or "ended"
  told,     \* flush task -> does its receiver hold a change or a closed channel?
  dropped   \* has the manager been dropped?

vars == <<storeVars, task, told, dropped>>

Init ==
  /\ StoreInit
  /\ task = [k \in FlushTasks |-> "unborn"]
  /\ told = [k \in FlushTasks |-> FALSE]
  /\ dropped = FALSE

\* start_flush_task subscribes before it spawns the task.
StartFlushTask(k) ==
  /\ ~dropped /\ task[k] = "unborn"
  /\ task' = [task EXCEPT ![k] = "waiting"]
  /\ UNCHANGED <<storeVars, told, dropped>>

\* select! is not biased: a tick may be served before a signal that waits.
TaskTick(k) ==
  /\ task[k] = "waiting"
  /\ task' = [task EXCEPT ![k] = "flushing"]
  /\ UNCHANGED <<storeVars, told, dropped>>

\* flush returns; an error would only be logged.
TaskFlushed(k) ==
  /\ task[k] = "flushing"
  /\ task' = [task EXCEPT ![k] = "waiting"]
  /\ UNCHANGED <<storeVars, told, dropped>>

TaskEnds(k) ==
  /\ task[k] = "waiting" /\ told[k]
  /\ task' = [task EXCEPT ![k] = "ended"]
  /\ UNCHANGED <<storeVars, told, dropped>>

Started(k) == task[k] # "unborn"

\* Faulty variant: a signal that only tasks that wait for it receive.
SignalWaiting ==
  told' = [k \in FlushTasks |-> told[k] \/ task[k] = "waiting"]

\* watch: every receiver subscribed so far, waiting or not.
Signal == told' = [k \in FlushTasks |-> told[k] \/ Started(k)]

\* shutdown: send, then close, which does nothing here; may be called again.
Shutdown ==
  /\ ~dropped
  /\ Signal
  /\ UNCHANGED <<storeVars, task, dropped>>

\* The sender is dropped with the manager; changed() returns an error.
DropManager ==
  /\ ~dropped
  /\ dropped' = TRUE
  /\ Signal
  /\ UNCHANGED <<storeVars, task>>

ManagerStep ==
  \/ \E k \in FlushTasks : StartFlushTask(k) \/ TaskTick(k) \/ TaskFlushed(k) \/ TaskEnds(k)
  \/ Shutdown \/ DropManager

Next == ManagerStep \/ (StoreNext /\ UNCHANGED <<task, told, dropped>>)

\* The runtime runs a task that is ready, and select! picks among its ready
\* branches at random, so a branch that is ready again and again is taken. No
\* tick need come, and nobody has to call shutdown or drop.
Spec ==
  /\ Init /\ [][Next]_vars
  /\ \A k \in FlushTasks : WF_vars(TaskFlushed(k)) /\ SF_vars(TaskEnds(k))

----------------------------------------------------------------------------
(* Properties                                                              *)

\* "flush task shutting down" (src/persist.rs:794): every flush task started
\* before a shutdown, or before the manager is dropped, ends, also when the
\* signal comes in the middle of a flush.
FlushTasksEnd ==
  \A k \in FlushTasks : (told[k] ~> task[k] = "ended") /\ ((dropped /\ Started(k)) ~> task[k] = "ended")
=============================================================================
