-------------------------- MODULE ReplicatorRunner --------------------------
(***************************************************************************)
(* ReplicatorRunner of src/hook.rs around a Replicator: a bounded channel  *)
(* of changes, the task that forwards them to the replicator and to the    *)
(* registered hooks, and the end of both when the last runner is dropped.  *)
(* Changes are numbered in the order of the calls of record_change.        *)
(***************************************************************************)
EXTENDS Replicator, Sequences, SequencesExt

CONSTANTS Hooks,      \* storage hooks that may be registered
          Capacity,   \* of the channel (1000)
          MaxChanges  \* bound: calls of record_change

VARIABLES
  released,  \* has the last runner been dropped?
  calls,     \* number of calls of record_change
  queue,     \* the runner's channel
  current,   \* the change the task has forwarded and not shown to the hooks, or 0
  hooks,     \* hooks registered
  seen       \* hook -> the changes shown to it

runner == <<released, calls, queue, current, hooks, seen>>
allVars == <<vars, runner>>

RunnerInit ==
  /\ Init
  /\ released = FALSE /\ calls = 0 /\ queue = <<>> /\ current = 0
  /\ hooks = {} /\ seen = [h \in Hooks |-> <<>>]

\* record_change: try_send, whose error is ignored.
Record ==
  /\ ~released /\ calls < MaxChanges
  /\ calls' = calls + 1
  /\ queue' = IF Len(queue) < Capacity THEN Append(queue, calls + 1) ELSE queue
  /\ UNCHANGED <<vars, released, current, hooks, seen>>

RegisterHook(h) ==
  /\ ~released /\ h \notin hooks
  /\ hooks' = hooks \cup {h}
  /\ UNCHANGED <<vars, released, calls, queue, current, seen>>

\* Replicator::record_change has no effect: new drops the receiver of change_tx,
\* so try_send fails, and its error is ignored.
Forward ==
  /\ current = 0 /\ queue # <<>>
  /\ current' = Head(queue)
  /\ queue' = Tail(queue)
  /\ UNCHANGED <<vars, released, calls, hooks, seen>>

\* on_change of every hook, under the read lock of the hooks.
NotifyHooks ==
  /\ current # 0
  /\ seen' = [h \in Hooks |-> IF h \in hooks THEN Append(seen[h], current) ELSE seen[h]]
  /\ current' = 0
  /\ UNCHANGED <<vars, released, calls, queue, hooks>>

\* The last runner is dropped, and the channel's sender with it; no call is
\* under way.
Release ==
  /\ ~released /\ \A c \in Callers : pc[c] = "idle"
  /\ released' = TRUE
  /\ UNCHANGED <<vars, calls, queue, current, hooks, seen>>

\* Faulty variant: the task ends without draining the channel.
ForwardEndsEarly ==
  /\ released /\ current = 0
  /\ queue' = <<>>
  /\ Drop
  /\ UNCHANGED <<released, calls, current, hooks, seen>>

\* recv returns None when the senders are gone and the channel is drained: the
\* task ends and drops the last reference to the replicator.
ForwardEnds ==
  /\ released /\ current = 0 /\ queue = <<>>
  /\ Drop
  /\ UNCHANGED runner

CallThroughRunner(c) == ~released /\ CallerStep(c) /\ UNCHANGED runner
ReplicatorTask(g) == (LoopStep(g) \/ AcceptEnds(g)) /\ UNCHANGED runner

RunnerNext ==
  \/ \E c \in Callers : CallThroughRunner(c)
  \/ \E g \in Starts : ReplicatorTask(g)
  \/ \E h \in Hooks : RegisterHook(h)
  \/ Record \/ Forward \/ NotifyHooks \/ Release \/ ForwardEnds

\* The fairness of the replicator, and that of the forwarding task.
RunnerSpec ==
  /\ RunnerInit /\ [][RunnerNext]_allVars
  /\ Fairness
  /\ WF_allVars(Forward \/ NotifyHooks \/ ForwardEnds)

----------------------------------------------------------------------------
(* Properties                                                              *)

\* "forward changes to replicator and notify hooks" (src/hook.rs:70): a change
\* the channel took reaches every hook registered by then, the changes still
\* queued when the runner is dropped included.
QueuedReachesHooks ==
  \A h \in Hooks, i \in 1..MaxChanges :
    (h \in hooks /\ i \in Range(queue)) ~> i \in Range(seen[h])

\* "Attempt to shutdown (best effort)" (src/replicator.rs:371): when the runner
\* is dropped while the loop runs and waits for signals, everything ends,
\* however many changes are still queued: the loop is done, the endpoint closed,
\* its accept task ended and the flag clear.
DropStops ==
  \A g \in Starts : (released /\ ~dropped /\ Subscribed(g)) ~>
       (loop[g] = "done" /\ g \in closed /\ accept[g] = "ended" /\ ~running)

=============================================================================
