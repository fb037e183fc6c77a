-------------------------- MODULE ReplicatorProofs --------------------------
(***************************************************************************)
(* Proofs about Replicator and PeerDialing, for any set of callers and any *)
(* number of starts. LifeInv is inductive; OneAtATime and NoEndpointLost   *)
(* are two of its conjuncts, StoppedIsClean follows from it. PeerDialing   *)
(* implements Replicator, so that all of it holds there too.               *)
(***************************************************************************)
EXTENDS PeerDialing, TLAPS

USE ReplicatorAssumption DEF Starts, NoEndpoint, LoopStates

(* ------------------- every action keeps the invariant ------------------- *)

\* The invariant is kept when the swap lets one start in, and only when
\* nobody holds running (src/replicator.rs, start).
LEMMA StartSwapKeeps ==
  ASSUME LifeInv, NEW x \in Callers, StartSwap(x)
  PROVE  LifeInv'
<1>1. TypeOK'
  BY DEF LifeInv, StartSwap, tasks, TypeOK
<1>2. OneAtATime'
  BY DEF LifeInv, StartSwap, tasks, TypeOK, OneAtATime, RunningIsHeld,
     Starting, Live
<1>3. RunningIsHeld' /\ SlotIsNewest' /\ LoopsAreOwned' /\ NoEndpointLost'
  BY DEF LifeInv, StartSwap, tasks, RunningIsHeld, Starting, Spawning, Live,
     SlotIsNewest, LoopsAreOwned, NoEndpointLost
<1> QED BY <1>1, <1>2, <1>3 DEF LifeInv

\* The invariant is kept when a start binds when the slot is empty, so no
\* endpoint is overwritten (start).
LEMMA StartBindKeeps ==
  ASSUME LifeInv, NEW x \in Callers, StartBind(x)
  PROVE  LifeInv'
<1>1. TypeOK'
  BY DEF LifeInv, StartBind, tasks, TypeOK
<1>2. RunningIsHeld'
  BY DEF LifeInv, StartBind, tasks, TypeOK, OneAtATime, RunningIsHeld,
     LoopsAreOwned, Starting, Spawning, Live
<1>3. SlotIsNewest'
  BY DEF LifeInv, StartBind, tasks, TypeOK, SlotIsNewest, Spawning
<1>4. LoopsAreOwned'
  BY SMTT(30) DEF LifeInv, StartBind, tasks, TypeOK, LoopsAreOwned, Spawning
<1>5. NoEndpointLost'
  <2>1. endpoint = NoEndpoint
    <3> SUFFICES ASSUME endpoint # NoEndpoint PROVE FALSE
      OBVIOUS
    <3>1. bound \in Starts
      BY DEF LifeInv, SlotIsNewest, TypeOK
    <3>2. ~Live(bound)
      BY <3>1 DEF LifeInv, StartBind, OneAtATime, Starting
    <3>3. \A c \in Callers : ~Spawning(c)
      BY DEF LifeInv, StartBind, OneAtATime, Starting, Spawning
    <3> QED BY <3>2, <3>3 DEF LifeInv, SlotIsNewest, Live
  <2> SUFFICES ASSUME NEW g \in 1..bound'
               PROVE  \/ g = endpoint'
                      \/ g \in closed'
                      \/ \E h \in Starts : loop'[h] = "closing" /\ taken'[h] = g
                      \/ \E c \in Callers : pc'[c] = "close" /\ hand'[c] = g
    BY DEF NoEndpointLost
  <2>2. CASE g = bound + 1
    BY <2>2 DEF StartBind
  <2>3. CASE g # bound + 1
    <3>1. g \in 1..bound /\ g # endpoint
      BY <2>1, <2>3 DEF LifeInv, StartBind, TypeOK
    <3>2. CASE g \in closed \/ \E h \in Starts : loop[h] = "closing" /\ taken[h] = g
      BY <3>2 DEF StartBind, tasks
    <3>3. CASE \E c \in Callers : pc[c] = "close" /\ hand[c] = g
      <4>1. PICK c \in Callers : pc[c] = "close" /\ hand[c] = g
        BY <3>3
      <4>2. pc'[c] = "close" /\ hand'[c] = g
        BY <4>1 DEF LifeInv, StartBind, TypeOK
      <4> QED BY <4>2
    <3> QED BY <3>1, <3>2, <3>3 DEF LifeInv, NoEndpointLost
  <2> QED BY <2>2, <2>3
<1>6. OneAtATime'
  BY DEF LifeInv, StartBind, tasks, OneAtATime, Starting, Live
<1> QED BY <1>1, <1>2, <1>3, <1>4, <1>5, <1>6 DEF LifeInv

\* The invariant is kept when a start that fails leaves everything but its
\* own step alone (start).
LEMMA StartFailsKeeps ==
  ASSUME LifeInv, NEW x \in Callers, StartFails(x)
  PROVE  LifeInv'
<1>1. TypeOK'
  BY DEF LifeInv, StartFails, life, tasks, TypeOK
<1>2. OneAtATime' /\ RunningIsHeld' /\ SlotIsNewest' /\ LoopsAreOwned' /\ NoEndpointLost'
  BY DEF LifeInv, StartFails, life, tasks, OneAtATime, Starting, Live,
     RunningIsHeld, Spawning, SlotIsNewest, LoopsAreOwned, NoEndpointLost
<1> QED BY <1>1, <1>2 DEF LifeInv

\* The invariant is kept when spawning the accept task (start).
LEMMA StartAcceptKeeps ==
  ASSUME LifeInv, NEW x \in Callers, StartAccept(x)
  PROVE  LifeInv'
<1>1. TypeOK'
  BY DEF LifeInv, StartAccept, life, TypeOK
<1>2. OneAtATime' /\ RunningIsHeld' /\ SlotIsNewest' /\ LoopsAreOwned' /\ NoEndpointLost'
  BY DEF LifeInv, StartAccept, life, OneAtATime, Starting, Live,
     RunningIsHeld, Spawning, SlotIsNewest, LoopsAreOwned, NoEndpointLost
<1> QED BY <1>1, <1>2 DEF LifeInv

\* The invariant is kept when the start hands running, and the slot, over
\* to its loop (start).
LEMMA StartLoopKeeps ==
  ASSUME LifeInv, NEW x \in Callers, StartLoop(x)
  PROVE  LifeInv'
<1>1. TypeOK'
  BY DEF LifeInv, StartLoop, life, TypeOK, RunningIsHeld, Spawning,
     LoopsAreOwned
<1>2. OneAtATime'
  BY DEF LifeInv, StartLoop, life, TypeOK, OneAtATime, Starting, Live
<1>3. RunningIsHeld'
  BY DEF LifeInv, StartLoop, life, TypeOK, OneAtATime, RunningIsHeld,
     Starting, Spawning, Live
<1>4. SlotIsNewest'
  BY DEF LifeInv, StartLoop, life, TypeOK, RunningIsHeld, SlotIsNewest,
     Spawning, Live
<1>5. LoopsAreOwned'
  BY DEF LifeInv, StartLoop, life, TypeOK, LoopsAreOwned, Spawning
<1>6. NoEndpointLost'
  <2>1. \A h \in Starts : loop[h] = "closing" => loop'[h] = "closing"
    BY DEF LifeInv, StartLoop, RunningIsHeld, Spawning, TypeOK
  <2> QED BY <2>1 DEF LifeInv, StartLoop, life, TypeOK, NoEndpointLost
<1> QED BY <1>1, <1>2, <1>3, <1>4, <1>5, <1>6 DEF LifeInv

\* The invariant is kept when a shutdown begins (shutdown).
LEMMA ShutdownCheckKeeps ==
  ASSUME LifeInv, NEW x \in Callers, ShutdownCheck(x)
  PROVE  LifeInv'
<1>1. TypeOK'
  BY DEF LifeInv, ShutdownCheck, life, tasks, TypeOK
<1>2. OneAtATime' /\ RunningIsHeld' /\ SlotIsNewest' /\ LoopsAreOwned' /\ NoEndpointLost'
  BY DEF LifeInv, ShutdownCheck, life, tasks, OneAtATime, Starting, Live,
     RunningIsHeld, Spawning, SlotIsNewest, LoopsAreOwned, NoEndpointLost
<1> QED BY <1>1, <1>2 DEF LifeInv

\* The invariant is kept when the signal changes no loop by itself
\* (shutdown).
LEMMA ShutdownSendKeeps ==
  ASSUME LifeInv, NEW x \in Callers, ShutdownSend(x)
  PROVE  LifeInv'
<1>1. TypeOK'
  BY DEF LifeInv, ShutdownSend, life, TypeOK, Send, Subscribed
<1>2. OneAtATime' /\ RunningIsHeld' /\ SlotIsNewest' /\ LoopsAreOwned' /\ NoEndpointLost'
  BY DEF LifeInv, ShutdownSend, life, OneAtATime, Starting, Live,
     RunningIsHeld, Spawning, SlotIsNewest, LoopsAreOwned, NoEndpointLost
<1> QED BY <1>1, <1>2 DEF LifeInv

\* The invariant is kept when the endpoint moves from the slot to the hands
\* of the caller (shutdown).
LEMMA ShutdownTakeKeeps ==
  ASSUME LifeInv, NEW x \in Callers, ShutdownTake(x)
  PROVE  LifeInv'
<1>1. TypeOK'
  BY DEF LifeInv, ShutdownTake, tasks, TypeOK
<1>2. LoopsAreOwned'
  BY DEF LifeInv, ShutdownTake, tasks, TypeOK, LoopsAreOwned, Spawning
<1>3. NoEndpointLost'
  BY DEF LifeInv, ShutdownTake, tasks, TypeOK, NoEndpointLost
<1>4. OneAtATime' /\ RunningIsHeld' /\ SlotIsNewest'
  BY DEF LifeInv, ShutdownTake, tasks, OneAtATime, Starting, Live,
     RunningIsHeld, Spawning, SlotIsNewest
<1> QED BY <1>1, <1>2, <1>3, <1>4 DEF LifeInv

\* The invariant is kept when the caller closes what it holds (shutdown).
LEMMA ShutdownCloseKeeps ==
  ASSUME LifeInv, NEW x \in Callers, ShutdownClose(x)
  PROVE  LifeInv'
<1>1. TypeOK'
  <2>1. hand[x] \in 1..bound
    BY DEF LifeInv, ShutdownClose, LoopsAreOwned, TypeOK
  <2>2. closed' \subseteq 1..bound'
    BY <2>1 DEF LifeInv, ShutdownClose, TypeOK
  <2>3. hand' \in [Callers -> 0..bound']
    BY DEF LifeInv, ShutdownClose, TypeOK
  <2> QED BY <2>2, <2>3 DEF LifeInv, ShutdownClose, tasks, TypeOK
<1>2. LoopsAreOwned'
  BY DEF LifeInv, ShutdownClose, tasks, TypeOK, LoopsAreOwned, Spawning
<1>3. OneAtATime' /\ RunningIsHeld' /\ SlotIsNewest' /\ NoEndpointLost'
  BY DEF LifeInv, ShutdownClose, tasks, OneAtATime, Starting, Live,
     RunningIsHeld, Spawning, SlotIsNewest, NoEndpointLost
<1> QED BY <1>1, <1>2, <1>3 DEF LifeInv

\* The invariant is kept when the loop subscribes (run_loop).
LEMMA LoopSubscribeKeeps ==
  ASSUME LifeInv, NEW x \in Starts, LoopSubscribe(x)
  PROVE  LifeInv'
<1>1. TypeOK'
  BY DEF LifeInv, LoopSubscribe, life, callers, TypeOK
<1>2. OneAtATime' /\ RunningIsHeld' /\ SlotIsNewest' /\ LoopsAreOwned' /\ NoEndpointLost'
  BY DEF LifeInv, LoopSubscribe, life, callers, OneAtATime, Starting, Live,
     RunningIsHeld, Spawning, SlotIsNewest, LoopsAreOwned, NoEndpointLost
<1> QED BY <1>1, <1>2 DEF LifeInv

\* The invariant is kept when the loop begins to sync (run_loop).
LEMMA LoopTickKeeps ==
  ASSUME LifeInv, NEW x \in Starts, LoopTick(x)
  PROVE  LifeInv'
<1>1. TypeOK'
  BY DEF LifeInv, LoopTick, life, callers, TypeOK
<1>2. OneAtATime' /\ RunningIsHeld' /\ SlotIsNewest' /\ LoopsAreOwned' /\ NoEndpointLost'
  BY DEF LifeInv, LoopTick, life, callers, OneAtATime, Starting, Live,
     RunningIsHeld, Spawning, SlotIsNewest, LoopsAreOwned, NoEndpointLost
<1> QED BY <1>1, <1>2 DEF LifeInv

\* The invariant is kept when sync_with_peers returns (run_loop).
LEMMA LoopSyncedKeeps ==
  ASSUME LifeInv, NEW x \in Starts, LoopSynced(x)
  PROVE  LifeInv'
<1>1. TypeOK'
  BY DEF LifeInv, LoopSynced, life, callers, TypeOK
<1>2. OneAtATime' /\ RunningIsHeld' /\ SlotIsNewest' /\ LoopsAreOwned' /\ NoEndpointLost'
  BY DEF LifeInv, LoopSynced, life, callers, OneAtATime, Starting, Live,
     RunningIsHeld, Spawning, SlotIsNewest, LoopsAreOwned, NoEndpointLost
<1> QED BY <1>1, <1>2 DEF LifeInv

\* The invariant is kept when the loop receives the signal (run_loop).
LEMMA LoopSignalKeeps ==
  ASSUME LifeInv, NEW x \in Starts, LoopSignal(x)
  PROVE  LifeInv'
<1>1. TypeOK'
  BY DEF LifeInv, LoopSignal, life, callers, TypeOK
<1>2. OneAtATime' /\ RunningIsHeld' /\ SlotIsNewest' /\ LoopsAreOwned' /\ NoEndpointLost'
  BY DEF LifeInv, LoopSignal, life, callers, OneAtATime, Starting, Live,
     RunningIsHeld, Spawning, SlotIsNewest, LoopsAreOwned, NoEndpointLost
<1> QED BY <1>1, <1>2 DEF LifeInv

\* The invariant is kept when the endpoint moves from the slot to the loop
\* (run_loop).
LEMMA LoopTakeKeeps ==
  ASSUME LifeInv, NEW x \in Starts, LoopTake(x)
  PROVE  LifeInv'
<1>1. TypeOK'
  BY DEF LifeInv, LoopTake, callers, TypeOK
<1>2. LoopsAreOwned'
  BY DEF LifeInv, LoopTake, callers, TypeOK, LoopsAreOwned, Spawning
<1>3. NoEndpointLost'
  BY DEF LifeInv, LoopTake, callers, TypeOK, NoEndpointLost
<1>4. OneAtATime' /\ RunningIsHeld' /\ SlotIsNewest'
  BY DEF LifeInv, LoopTake, callers, OneAtATime, Starting, Live,
     RunningIsHeld, Spawning, SlotIsNewest
<1> QED BY <1>1, <1>2, <1>3, <1>4 DEF LifeInv

\* The invariant is kept when the loop closes what it took (run_loop).
LEMMA LoopCloseKeeps ==
  ASSUME LifeInv, NEW x \in Starts, LoopClose(x)
  PROVE  LifeInv'
<1>1. TypeOK'
  <2>1. taken[x] \in 1..bound
    BY DEF LifeInv, LoopClose, LoopsAreOwned, TypeOK
  <2>2. closed' \subseteq 1..bound'
    BY <2>1 DEF LifeInv, LoopClose, TypeOK
  <2>3. loop' \in [Starts -> LoopStates]
    BY DEF LifeInv, LoopClose, TypeOK
  <2> QED BY <2>2, <2>3 DEF LifeInv, LoopClose, callers, TypeOK
<1>2. OneAtATime' /\ RunningIsHeld' /\ SlotIsNewest' /\ LoopsAreOwned' /\ NoEndpointLost'
  BY DEF LifeInv, LoopClose, callers, OneAtATime, Starting, Live,
     RunningIsHeld, Spawning, SlotIsNewest, LoopsAreOwned, NoEndpointLost
<1> QED BY <1>1, <1>2 DEF LifeInv

\* The invariant is kept when only the one live loop clears running, and
\* nobody else holds it (run_loop).
LEMMA LoopClearKeeps ==
  ASSUME LifeInv, NEW x \in Starts, LoopClear(x)
  PROVE  LifeInv'
<1>1. TypeOK'
  BY DEF LifeInv, LoopClear, callers, TypeOK
<1>2. RunningIsHeld'
  BY DEF LifeInv, LoopClear, callers, TypeOK, OneAtATime, RunningIsHeld,
     Starting, Spawning, Live
<1>3. OneAtATime' /\ SlotIsNewest' /\ LoopsAreOwned' /\ NoEndpointLost'
  BY DEF LifeInv, LoopClear, callers, OneAtATime, Starting, Live,
     SlotIsNewest, Spawning, LoopsAreOwned, NoEndpointLost
<1> QED BY <1>1, <1>2, <1>3 DEF LifeInv

\* The invariant is kept when the accept task ends (start).
LEMMA AcceptEndsKeeps ==
  ASSUME LifeInv, NEW x \in Starts, AcceptEnds(x)
  PROVE  LifeInv'
<1>1. TypeOK'
  BY DEF LifeInv, AcceptEnds, life, callers, TypeOK
<1>2. OneAtATime' /\ RunningIsHeld' /\ SlotIsNewest' /\ LoopsAreOwned' /\ NoEndpointLost'
  BY DEF LifeInv, AcceptEnds, life, callers, OneAtATime, Starting, Live,
     RunningIsHeld, Spawning, SlotIsNewest, LoopsAreOwned, NoEndpointLost
<1> QED BY <1>1, <1>2 DEF LifeInv

\* The invariant is kept when drop sends a signal and changes nothing else
\* (drop).
LEMMA DropKeeps ==
  ASSUME LifeInv, Drop
  PROVE  LifeInv'
<1>1. TypeOK'
  BY DEF LifeInv, Drop, life, callers, TypeOK, Send, Subscribed
<1>2. OneAtATime' /\ RunningIsHeld' /\ SlotIsNewest' /\ LoopsAreOwned' /\ NoEndpointLost'
  BY DEF LifeInv, Drop, life, callers, OneAtATime, Starting, Live,
     RunningIsHeld, Spawning, SlotIsNewest, LoopsAreOwned, NoEndpointLost
<1> QED BY <1>1, <1>2 DEF LifeInv

(* ------------------------------ the theorems ----------------------------- *)

\* LifeInv holds in the initial state: nothing was started.
LEMMA InitLifeInv == Init => LifeInv
<1> SUFFICES ASSUME Init PROVE LifeInv
  OBVIOUS
<1>1. TypeOK
  <2>1. running \in BOOLEAN /\ dropped \in BOOLEAN /\ failed \in BOOLEAN
    BY DEF Init
  <2>2. signal \in [Starts -> BOOLEAN]
    BY Zenon DEF Init
  <2>3. taken \in [Starts -> 0..bound] /\ hand \in [Callers -> 0..bound]
    BY DEF Init
  <2>4. /\ bound \in 0..MaxStarts /\ endpoint \in 0..bound /\ closed \subseteq 1..bound
        /\ loop \in [Starts -> LoopStates]
    BY DEF Init
  <2>5. /\ accept \in [Starts -> {"none", "accepting", "ended"}]
        /\ pc \in [Callers -> {"idle", "bind", "spawn", "loop", "send", "take", "close"}]
    BY DEF Init
  <2> QED BY <2>1, <2>2, <2>3, <2>4, <2>5 DEF TypeOK
<1>2. OneAtATime /\ RunningIsHeld
  BY DEF Init, OneAtATime, RunningIsHeld, Starting, Spawning, Live
<1>3. SlotIsNewest /\ LoopsAreOwned /\ NoEndpointLost
  BY DEF Init, SlotIsNewest, LoopsAreOwned, NoEndpointLost, Spawning
<1> QED BY <1>1, <1>2, <1>3 DEF LifeInv

\* Every step of the callers, of the tasks they spawn and of drop keeps LifeInv.
LEMMA NextKeepsLifeInv == LifeInv /\ [Next]_vars => LifeInv'
<1> SUFFICES ASSUME LifeInv, [Next]_vars PROVE LifeInv'
  OBVIOUS
<1>1. ASSUME NEW c \in Callers, CallerStep(c) PROVE LifeInv'
  BY <1>1, StartSwapKeeps, StartBindKeeps, StartFailsKeeps, StartAcceptKeeps, StartLoopKeeps,
     ShutdownCheckKeeps, ShutdownSendKeeps, ShutdownTakeKeeps, ShutdownCloseKeeps, Zenon
     DEF CallerStep
<1>2. ASSUME NEW g \in Starts, LoopStep(g) PROVE LifeInv'
  BY <1>2, LoopSubscribeKeeps, LoopTickKeeps, LoopSyncedKeeps, LoopSignalKeeps, LoopTakeKeeps,
     LoopCloseKeeps, LoopClearKeeps, Zenon DEF LoopStep
<1>3. ASSUME NEW g \in Starts, AcceptEnds(g) PROVE LifeInv'
  BY <1>3, AcceptEndsKeeps
<1>4. CASE Drop
  BY <1>4, DropKeeps
<1>5. CASE UNCHANGED vars
  BY <1>5 DEF LifeInv, vars, life, tasks, callers, TypeOK, OneAtATime, RunningIsHeld,
     SlotIsNewest, LoopsAreOwned, NoEndpointLost, Starting, Spawning, Live
<1> QED BY <1>1, <1>2, <1>3, <1>4, <1>5, Zenon DEF Next, Step

\* The inductive invariant of the life cycle (src/replicator.rs, start, shutdown,
\* run_loop and drop).
THEOREM LifeInvHolds == Spec => []LifeInv
<1>1. Init => LifeInv BY InitLifeInv
<1>2. LifeInv /\ [Next]_vars => LifeInv' BY NextKeepsLifeInv
<1> QED BY <1>1, <1>2, PTL DEF Spec

\* However starts, shutdowns, failing starts, the end of a loop and drop
\* interleave, at most one start or run loop is active (src/replicator.rs:81, 322).
THEOREM ReplicatorExclusive == Spec => []OneAtATime
<1>1. LifeInv => OneAtATime BY DEF LifeInv
<1> QED BY <1>1, LifeInvHolds, PTL

\* No endpoint is ever lost without being closed (src/replicator.rs:91, 175, 315).
THEOREM EndpointsAccounted == Spec => []NoEndpointLost
<1>1. LifeInv => NoEndpointLost BY DEF LifeInv
<1> QED BY <1>1, LifeInvHolds, PTL

\* When running is clear and no call is under way, every endpoint is closed and
\* every loop has ended (src/replicator.rs:166-181, 312-323).
THEOREM StoppedReplicatorIsClean == Spec => []StoppedIsClean
<1>1. LifeInv => StoppedIsClean
  <2> SUFFICES ASSUME LifeInv, ~running, \A c \in Callers : pc[c] = "idle", NEW g \in 1..bound
               PROVE  g \in closed /\ loop[g] = "done"
    BY DEF StoppedIsClean
  <2>1. \A h \in Starts : ~Live(h)
    BY DEF LifeInv, RunningIsHeld
  <2>2. endpoint = NoEndpoint
    <3> SUFFICES ASSUME endpoint # NoEndpoint PROVE FALSE
      OBVIOUS
    <3>1. bound \in Starts
      BY DEF LifeInv, SlotIsNewest, TypeOK
    <3>2. \A c \in Callers : ~Spawning(c)
      BY DEF Spawning
    <3> QED BY <2>1, <3>1, <3>2 DEF LifeInv, SlotIsNewest, Live
  <2>3. loop[g] = "done"
    <3>1. g \in Starts
      BY DEF LifeInv, TypeOK
    <3>2. loop[g] # "none"
      BY DEF LifeInv, LoopsAreOwned, Spawning
    <3> QED BY <2>1, <3>1, <3>2 DEF Live
  <2>4. g \in closed
    <3>1. \A h \in Starts : loop[h] # "closing"
      BY <2>1 DEF Live
    <3> QED BY <2>2, <3>1 DEF LifeInv, NoEndpointLost
  <2> QED BY <2>3, <2>4
<1> QED BY <1>1, LifeInvHolds, PTL

(* ------------------------------ dialling peers --------------------------- *)

\* A step of the loop, of a session or of connect_ticket is a step of the
\* replicator's life cycle or leaves that alone.
LEMMA DialStepIsLifeStep == [DialNext]_dialVars => [Next]_vars
<1> SUFFICES ASSUME [DialNext]_dialVars PROVE [Next]_vars
  OBVIOUS
<1>1. ASSUME NEW g \in Starts, DialLoop(g) PROVE [Next]_vars
  <2>1. CASE DialTick(g)
    BY <2>1 DEF DialTick, Next, Step, LoopStep
  <2>2. CASE DialEnd(g)
    BY <2>2 DEF DialEnd, Next, Step, LoopStep
  <2>3. CASE \/ \E p \in Peers : DialRead(g, p)
             \/ DialBegin(g) \/ DialConnected(g) \/ DialFailed(g)
    BY <2>3 DEF DialRead, DialBegin, DialConnected, DialFailed
  <2>4. CASE LoopSubscribe(g) \/ LoopSignal(g) \/ LoopTake(g) \/ LoopClose(g) \/ LoopClear(g)
    BY <2>4 DEF Next, Step, LoopStep
  <2> QED BY <1>1, <2>1, <2>2, <2>3, <2>4 DEF DialLoop
<1>2. ASSUME NEW p \in Peers, SessionAccepted(p) \/ SessionServed(p) PROVE UNCHANGED vars
  BY <1>2 DEF SessionAccepted, SessionServed
<1>3. ASSUME NEW k \in Connectors, ConnectStep(k) PROVE UNCHANGED vars
  BY <1>3 DEF ConnectStep, ConnectTicket, ConnectEndpoint, ConnectReaches, ConnectOk, ConnectFails
<1>4. CASE UNCHANGED dialVars
  BY <1>4 DEF dialVars
<1> QED BY <1>1, <1>2, <1>3, <1>4 DEF DialNext, Next, Step

\* The replicator that dials its peers implements the life cycle of Replicator, so
\* that what is proved of the life cycle holds of it (src/replicator.rs).
THEOREM DialingKeepsLifeCycle == DialSpec => Spec
<1>1. DialInit => Init
  BY DEF DialInit
<1> QED BY <1>1, DialStepIsLifeStep, PTL DEF DialSpec, Spec

\* DialsOwnEndpoint, strengthened: a round is at one peer at a time.
RoundInv == DialsOwnEndpoint /\ (turn = NoPeer \/ dialing = NoPeer)

\* Every step keeps RoundInv: the slot a round reads can only hold the endpoint of
\* the one live loop, and the loop stays in its round while a dial is under way
\* (src/replicator.rs, sync_with_peers; src/discovery.rs, connect_to_peer).
LEMMA RoundInvStep == LifeInv /\ RoundInv /\ [DialNext]_dialVars => RoundInv'
<1> SUFFICES ASSUME LifeInv, RoundInv, [DialNext]_dialVars PROVE RoundInv'
  OBVIOUS
<1>1. ASSUME NEW g \in Starts, NEW p \in Peers, DialRead(g, p) PROVE RoundInv'
  <2>1. Live(g) /\ g = bound
    BY <1>1 DEF DialRead, Live, LifeInv, RunningIsHeld
  <2>2. /\ UNCHANGED <<loop, dialing>> /\ dialing = NoPeer /\ turn = NoPeer /\ loop[g] = "syncing"
        /\ \/ endpoint = NoEndpoint /\ UNCHANGED turn
           \/ endpoint # NoEndpoint /\ through' = endpoint
    BY <1>1 DEF DialRead, vars, tasks
  <2>3. endpoint # NoEndpoint => endpoint = g
    BY <2>1 DEF LifeInv, SlotIsNewest
  <2> QED BY <2>2, <2>3 DEF RoundInv, DialsOwnEndpoint
<1>2. ASSUME NEW g \in Starts, DialBegin(g) PROVE RoundInv'
  BY <1>2 DEF DialBegin, RoundInv, DialsOwnEndpoint, vars, tasks
<1>3. ASSUME NEW g \in Starts, DialConnected(g) \/ DialFailed(g) PROVE RoundInv'
  BY <1>3 DEF DialConnected, DialFailed, RoundInv, DialsOwnEndpoint
<1>4. ASSUME NEW g \in Starts, DialEnd(g) PROVE RoundInv'
  BY <1>4 DEF DialEnd, peerVars, RoundInv, DialsOwnEndpoint
<1>5. ASSUME UNCHANGED <<turn, dialing, through>>, UNCHANGED loop PROVE RoundInv'
  BY <1>5 DEF RoundInv, DialsOwnEndpoint
<1>6. ASSUME NEW g \in Starts, DialLoop(g) PROVE RoundInv'
  <2>1. ASSUME DialTick(g) \/ LoopSubscribe(g) \/ LoopSignal(g) \/ LoopTake(g)
               \/ LoopClose(g) \/ LoopClear(g)
        PROVE  \A h \in Starts : loop[h] = "syncing" => loop'[h] = "syncing"
    BY <2>1 DEF LifeInv, TypeOK, DialTick, LoopTick, LoopSubscribe, LoopSignal, LoopTake,
                LoopClose, LoopClear
  <2>2. ASSUME DialTick(g) \/ UNCHANGED peerVars PROVE UNCHANGED <<turn, dialing, through>>
    BY <2>2 DEF DialTick, peerVars
  <2>3. CASE \/ DialTick(g)
             \/ /\ LoopSubscribe(g) \/ LoopSignal(g) \/ LoopTake(g) \/ LoopClose(g) \/ LoopClear(g)
                /\ UNCHANGED peerVars
    BY <2>1, <2>2, <2>3 DEF RoundInv, DialsOwnEndpoint
  <2> QED BY <1>1, <1>2, <1>3, <1>4, <1>6, <2>3 DEF DialLoop
<1>7. ASSUME NEW c \in Callers, CallerStep(c), UNCHANGED peerVars PROVE RoundInv'
  <2>1. \A g \in Starts : loop[g] = "syncing" => loop'[g] = "syncing"
    <3> SUFFICES ASSUME NEW g \in Starts, loop[g] = "syncing" PROVE loop'[g] = "syncing"
      OBVIOUS
    <3>1. CASE StartLoop(c)
      <4>1. loop[hand[c]] = "none"
        BY <3>1 DEF StartLoop, LifeInv, RunningIsHeld, Spawning
      <4> QED BY <3>1, <4>1 DEF StartLoop, LifeInv, TypeOK
    <3>2. CASE ~StartLoop(c)
      BY <1>7, <3>2 DEF CallerStep, StartSwap, StartBind, StartFails, StartAccept, ShutdownCheck,
                        ShutdownSend, ShutdownTake, ShutdownClose, tasks
    <3> QED BY <3>1, <3>2
  <2> QED BY <1>7, <2>1 DEF peerVars, RoundInv, DialsOwnEndpoint
<1>8. ASSUME NEW p \in Peers, SessionAccepted(p) \/ SessionServed(p) PROVE RoundInv'
  BY <1>5, <1>8 DEF SessionAccepted, SessionServed, vars, tasks
<1>9. ASSUME NEW k \in Connectors, ConnectStep(k) PROVE RoundInv'
  BY <1>5, <1>9 DEF ConnectStep, ConnectTicket, ConnectEndpoint, ConnectReaches, ConnectOk,
                     ConnectFails, vars, tasks
<1>10. CASE UNCHANGED dialVars
  BY <1>5, <1>10 DEF dialVars, peerVars, vars, tasks
<1>11. ASSUME UNCHANGED peerVars, Drop \/ \E g \in Starts : AcceptEnds(g) PROVE RoundInv'
  BY <1>5, <1>11 DEF peerVars, Drop, AcceptEnds
<1> QED BY <1>6, <1>7, <1>8, <1>9, <1>10, <1>11, Zenon DEF DialNext

\* A round of sync_with_peers only ever uses the endpoint of its own start, and no
\* dial is under way once the loop is out of its round, however shutdowns and
\* starts overtake it (src/replicator.rs:344-360).
THEOREM DialsThroughOwnEndpoint == DialSpec => []DialsOwnEndpoint
<1>1. DialInit => RoundInv
  BY DEF DialInit, RoundInv, DialsOwnEndpoint
<1>2. DialSpec => []LifeInv
  BY LifeInvHolds, DialingKeepsLifeCycle, PTL
<1>3. RoundInv => DialsOwnEndpoint
  BY DEF RoundInv
<1> QED BY <1>1, <1>2, <1>3, RoundInvStep, PTL DEF DialSpec
=============================================================================
