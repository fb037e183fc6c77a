----------------------------- MODULE Replicator -----------------------------
(***************************************************************************)
(* The life cycle of src/replicator.rs: start, shutdown, run_loop and drop *)
(* called by several tasks of a multi-threaded runtime. An endpoint is the *)
(* number of the start that bound it, and so are its run loop and its      *)
(* accept task. sync_with_peers only connects and drops the connection; it *)
(* is one step of the loop that takes its time. connect_ticket changes no  *)
(* state kept here.                                                        *)
(***************************************************************************)
EXTENDS Naturals

CONSTANTS Callers,   \* tasks that call start and shutdown
          MaxStarts  \* bound: endpoints bound

ASSUME ReplicatorAssumption == MaxStarts \in Nat

Starts == 1..MaxStarts
NoEndpoint == 0

VARIABLES
  running,  \* the flag start sets and run_loop clears
  endpoint, \* the endpoint kept for shutdown, or NoEndpoint
  bound,    \* number of endpoints bound
  closed,   \* endpoints closed
  loop,     \* start -> the state of its run loop
  signal,   \* start -> does its loop's receiver hold a shutdown signal?
  taken,    \* start -> the endpoint its loop took from the slot
  accept,   \* start -> the state of its accept task
  pc,       \* caller -> the step it takes next
  hand,     \* caller -> the endpoint it starts or closes
  dropped,  \* has the Replicator been dropped?
  failed    \* history: has a start failed?

life == <<running, endpoint, bound, closed>>
tasks == <<loop, signal, taken, accept>>
callers == <<pc, hand>>
vars == <<life, tasks, callers, dropped, failed>>

LoopStates == {"none", "spawned", "select", "syncing", "stopping", "closing", "clearing", "done"}
Live(g) == loop[g] \notin {"none", "done"}

\* Receivers subscribed to the shutdown channel: a send reaches these and no
\* other. (A second send makes recv return Lagged, which ends the loop as well.)
Subscribed(g) == loop[g] \in {"select", "syncing"}
Send == signal' = [g \in Starts |-> signal[g] \/ Subscribed(g)]

Init ==
  /\ running = FALSE /\ endpoint = NoEndpoint /\ bound = 0 /\ closed = {}
  /\ loop = [g \in Starts |-> "none"]
  /\ signal = [g \in Starts |-> FALSE]
  /\ taken = [g \in Starts |-> NoEndpoint]
  /\ accept = [g \in Starts |-> "none"]
  /\ pc = [c \in Callers |-> "idle"]
  /\ hand = [c \in Callers |-> NoEndpoint]
  /\ dropped = FALSE /\ failed = FALSE

----------------------------------------------------------------------------
(* start                                                                   *)

\* Faulty variant: the result of the swap is ignored.
StartSwapIgnored(c) ==
  /\ pc[c] = "idle" /\ ~dropped
  /\ running' = TRUE
  /\ pc' = [pc EXCEPT ![c] = "bind"]
  /\ UNCHANGED <<endpoint, bound, closed, tasks, hand, dropped, failed>>

\* swap; a caller that finds the flag set gets an error and nothing changes.
StartSwap(c) ==
  /\ pc[c] = "idle" /\ ~dropped /\ ~running
  /\ running' = TRUE
  /\ pc' = [pc EXCEPT ![c] = "bind"]
  /\ UNCHANGED <<endpoint, bound, closed, tasks, hand, dropped, failed>>

\* build_endpoint succeeds and the endpoint is stored. (DiscoveryManager::new
\* cannot fail.)
StartBind(c) ==
  /\ pc[c] = "bind" /\ bound < MaxStarts
  /\ bound' = bound + 1
  /\ endpoint' = bound + 1
  /\ hand' = [hand EXCEPT ![c] = bound + 1]
  /\ pc' = [pc EXCEPT ![c] = "spawn"]
  /\ UNCHANGED <<running, closed, tasks, dropped, failed>>

\* build_endpoint fails: the error is returned, running stays set.
StartFails(c) ==
  /\ pc[c] = "bind"
  /\ failed' = TRUE
  /\ pc' = [pc EXCEPT ![c] = "idle"]
  /\ UNCHANGED <<life, tasks, hand, dropped>>

\* The accept task.
StartAccept(c) ==
  /\ pc[c] = "spawn"
  /\ accept' = [accept EXCEPT ![hand[c]] = "accepting"]
  /\ pc' = [pc EXCEPT ![c] = "loop"]
  /\ UNCHANGED <<life, loop, signal, taken, hand, dropped, failed>>

\* The task of run_loop.
StartLoop(c) ==
  /\ pc[c] = "loop"
  /\ loop' = [loop EXCEPT ![hand[c]] = "spawned"]
  /\ pc' = [pc EXCEPT ![c] = "idle"]
  /\ hand' = [hand EXCEPT ![c] = NoEndpoint]
  /\ UNCHANGED <<life, signal, taken, accept, dropped, failed>>

\* endpoint.accept() returns None once the endpoint is closed.
AcceptEnds(g) ==
  /\ accept[g] = "accepting" /\ g \in closed
  /\ accept' = [accept EXCEPT ![g] = "ended"]
  /\ UNCHANGED <<life, loop, signal, taken, callers, dropped, failed>>

----------------------------------------------------------------------------
(* shutdown                                                                *)

\* A caller that finds running clear returns at once.
ShutdownCheck(c) ==
  /\ pc[c] = "idle" /\ ~dropped /\ running
  /\ pc' = [pc EXCEPT ![c] = "send"]
  /\ UNCHANGED <<life, tasks, hand, dropped, failed>>

ShutdownSend(c) ==
  /\ pc[c] = "send"
  /\ Send
  /\ pc' = [pc EXCEPT ![c] = "take"]
  /\ UNCHANGED <<life, loop, taken, accept, hand, dropped, failed>>

ShutdownTake(c) ==
  /\ pc[c] = "take"
  /\ endpoint' = NoEndpoint
  /\ hand' = [hand EXCEPT ![c] = endpoint]
  /\ pc' = [pc EXCEPT ![c] = IF endpoint = NoEndpoint THEN "idle" ELSE "close"]
  /\ UNCHANGED <<running, bound, closed, tasks, dropped, failed>>

ShutdownClose(c) ==
  /\ pc[c] = "close"
  /\ closed' = closed \cup {hand[c]}
  /\ hand' = [hand EXCEPT ![c] = NoEndpoint]
  /\ pc' = [pc EXCEPT ![c] = "idle"]
  /\ UNCHANGED <<running, endpoint, bound, tasks, dropped, failed>>

----------------------------------------------------------------------------
(* run_loop                                                                *)

LoopSubscribe(g) ==
  /\ loop[g] = "spawned"
  /\ loop' = [loop EXCEPT ![g] = "select"]
  /\ UNCHANGED <<life, signal, taken, accept, callers, dropped, failed>>

\* Faulty variant: not biased, a tick may be served before a signal.
LoopTickFirst(g) ==
  /\ loop[g] = "select"
  /\ loop' = [loop EXCEPT ![g] = "syncing"]
  /\ UNCHANGED <<life, signal, taken, accept, callers, dropped, failed>>

\* biased: a tick is served only when no signal waits.
LoopTick(g) ==
  /\ loop[g] = "select" /\ ~signal[g]
  /\ loop' = [loop EXCEPT ![g] = "syncing"]
  /\ UNCHANGED <<life, signal, taken, accept, callers, dropped, failed>>

\* sync_with_peers returns.
LoopSynced(g) ==
  /\ loop[g] = "syncing"
  /\ loop' = [loop EXCEPT ![g] = "select"]
  /\ UNCHANGED <<life, signal, taken, accept, callers, dropped, failed>>

LoopSignal(g) ==
  /\ loop[g] = "select" /\ signal[g]
  /\ loop' = [loop EXCEPT ![g] = "stopping"]
  /\ signal' = [signal EXCEPT ![g] = FALSE]
  /\ UNCHANGED <<life, taken, accept, callers, dropped, failed>>

\* Faulty variant: the flag is cleared before the endpoint is taken.
LoopClearsFirst(g) ==
  /\ loop[g] = "stopping"
  /\ running' = FALSE
  /\ endpoint' = NoEndpoint
  /\ taken' = [taken EXCEPT ![g] = endpoint]
  /\ loop' = [loop EXCEPT ![g] = IF endpoint = NoEndpoint THEN "clearing" ELSE "closing"]
  /\ UNCHANGED <<bound, closed, signal, accept, callers, dropped, failed>>

\* Faulty variant: the endpoint is dropped and not closed.
LoopDropsEndpoint(g) ==
  /\ loop[g] = "stopping"
  /\ endpoint' = NoEndpoint
  /\ taken' = [taken EXCEPT ![g] = endpoint]
  /\ loop' = [loop EXCEPT ![g] = "clearing"]
  /\ UNCHANGED <<running, bound, closed, signal, accept, callers, dropped, failed>>

\* Whatever endpoint is in the slot, if shutdown has not taken it.
LoopTake(g) ==
  /\ loop[g] = "stopping"
  /\ endpoint' = NoEndpoint
  /\ taken' = [taken EXCEPT ![g] = endpoint]
  /\ loop' = [loop EXCEPT ![g] = IF endpoint = NoEndpoint THEN "clearing" ELSE "closing"]
  /\ UNCHANGED <<running, bound, closed, signal, accept, callers, dropped, failed>>

LoopClose(g) ==
  /\ loop[g] = "closing"
  /\ closed' = closed \cup {taken[g]}
  /\ loop' = [loop EXCEPT ![g] = "clearing"]
  /\ UNCHANGED <<running, endpoint, bound, signal, taken, accept, callers, dropped, failed>>

LoopClear(g) ==
  /\ loop[g] = "clearing"
  /\ running' = FALSE
  /\ loop' = [loop EXCEPT ![g] = "done"]
  /\ UNCHANGED <<endpoint, bound, closed, signal, taken, accept, callers, dropped, failed>>

\* Faulty variant: the loop is left to itself.
DropSilent ==
  /\ ~dropped /\ \A c \in Callers : pc[c] = "idle"
  /\ dropped' = TRUE
  /\ UNCHANGED <<life, tasks, callers, failed>>

\* Drop: no call is under way; the signal is sent if running is set.
Drop ==
  /\ ~dropped /\ \A c \in Callers : pc[c] = "idle"
  /\ dropped' = TRUE
  /\ IF running THEN Send ELSE UNCHANGED signal
  /\ UNCHANGED <<life, loop, taken, accept, callers, failed>>

----------------------------------------------------------------------------
CallerStep(c) ==
  \/ StartSwap(c) \/ StartBind(c) \/ StartFails(c) \/ StartAccept(c) \/ StartLoop(c)
  \/ ShutdownCheck(c) \/ ShutdownSend(c) \/ ShutdownTake(c) \/ ShutdownClose(c)

LoopStep(g) ==
  \/ LoopSubscribe(g) \/ LoopTick(g) \/ LoopSynced(g) \/ LoopSignal(g)
  \/ LoopTake(g) \/ LoopClose(g) \/ LoopClear(g)

\* The steps of the callers and of the tasks they spawn.
Step == \/ \E c \in Callers : CallerStep(c)
        \/ \E g \in Starts : LoopStep(g) \/ AcceptEnds(g)

Next == Step \/ Drop

Spec == Init /\ [][Next]_vars

\* The runtime runs every task that is ready, connecting and closing end (both
\* have timeouts of their own in iroh), and a call once begun is driven on.
\* Nobody has to call start, shutdown or drop, and a timer need not tick.
Fairness ==
  /\ \A g \in Starts : /\ WF_vars(LoopSubscribe(g) \/ LoopSynced(g) \/ LoopSignal(g))
                       /\ WF_vars(LoopTake(g) \/ LoopClose(g) \/ LoopClear(g))
                       /\ WF_vars(AcceptEnds(g))
  /\ \A c \in Callers : /\ WF_vars(StartBind(c) \/ StartAccept(c) \/ StartLoop(c))
                        /\ WF_vars(ShutdownSend(c) \/ ShutdownTake(c) \/ ShutdownClose(c))
----------------------------------------------------------------------------
(* Properties                                                              *)

\* Every variable has its type, and nobody names an endpoint that was not bound.
TypeOK ==
  /\ running \in BOOLEAN /\ dropped \in BOOLEAN /\ failed \in BOOLEAN
  /\ bound \in 0..MaxStarts
  /\ endpoint \in 0..bound
  /\ closed \subseteq 1..bound
  /\ loop \in [Starts -> LoopStates]
  /\ signal \in [Starts -> BOOLEAN]
  /\ taken \in [Starts -> 0..bound]
  /\ accept \in [Starts -> {"none", "accepting", "ended"}]
  /\ pc \in [Callers -> {"idle", "bind", "spawn", "loop", "send", "take", "close"}]
  /\ hand \in [Callers -> 0..bound]

Starting(c) == pc[c] \in {"bind", "spawn", "loop"}

\* "replicator already started" (src/replicator.rs:82): two starts are never
\* under way together, a start never meets a live loop, and two loops are never
\* alive together, however starts, shutdowns and the end of a loop interleave.
OneAtATime ==
  /\ \A c, d \in Callers : (Starting(c) /\ Starting(d)) => c = d
  /\ \A c \in Callers, g \in Starts : ~(Starting(c) /\ Live(g))
  /\ \A g, h \in Starts : (Live(g) /\ Live(h)) => g = h

\* Every endpoint that was bound is in the slot, in the hands of somebody who
\* is about to close it, or closed; a start or a late shutdown of an earlier
\* generation never loses one.
NoEndpointLost ==
  \A g \in 1..bound :
     \/ g = endpoint
     \/ g \in closed
     \/ \E h \in Starts : loop[h] = "closing" /\ taken[h] = g
     \/ \E c \in Callers : pc[c] = "close" /\ hand[c] = g

\* "Stop the replicator gracefully" (src/replicator.rs:165): once running is
\* clear and no call is under way, nothing is left of any start: every endpoint
\* is closed and every loop has ended.
StoppedIsClean ==
  (~running /\ \A c \in Callers : pc[c] = "idle") =>
     \A g \in 1..bound : g \in closed /\ loop[g] = "done"

Spawning(c) == pc[c] \in {"spawn", "loop"}
RunningIsHeld ==
  /\ \A c \in Callers : Starting(c) => running
  /\ \A g \in Starts : Live(g) => running /\ g = bound
  /\ \A c \in Callers : Spawning(c) => hand[c] = bound /\ bound > 0 /\ loop[bound] = "none"
SlotIsNewest ==
  endpoint # NoEndpoint =>
     /\ endpoint = bound
     /\ \/ loop[bound] \in {"spawned", "select", "syncing", "stopping"}
        \/ \E c \in Callers : Spawning(c)
LoopsAreOwned ==
  /\ \A g \in 1..bound : loop[g] = "none" => \E c \in Callers : Spawning(c) /\ hand[c] = g
  /\ \A g \in Starts : g > bound => loop[g] = "none"
  /\ \A g \in Starts : loop[g] = "closing" => taken[g] # NoEndpoint
  /\ \A c \in Callers : pc[c] = "close" => hand[c] # NoEndpoint

\* What OneAtATime, NoEndpointLost and StoppedIsClean rest on: a start or a live
\* loop holds running; a live loop, a start beyond its bind and a filled slot
\* all belong to the newest endpoint; a loop not yet spawned has a start that
\* will spawn it; whoever is about to close holds an endpoint.
LifeInv ==
  TypeOK /\ OneAtATime /\ RunningIsHeld /\ SlotIsNewest /\ LoopsAreOwned /\ NoEndpointLost

\* A loop that was subscribed when shutdown or drop sent the signal ends, even
\* when the signal comes in the middle of sync_with_peers.
SignalStops == \A g \in Starts : signal[g] ~> (loop[g] = "done")

=============================================================================
