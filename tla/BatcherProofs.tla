---------------------------- MODULE BatcherProofs ----------------------------
(***************************************************************************)
(* Proofs about BatcherTask and, with it, Batcher: for every finite set of *)
(* adders, background tasks and owners, every batch size and channel.      *)
(***************************************************************************)
EXTENDS BatcherTask, FiniteSetTheorems, SequenceTheorems, TLAPS

USE BatcherAssumption

(* ------------------------- the inductive invariants ---------------------- *)

AdderSteps == {"idle", "push", "check", "lock", "take", "number", "send"}
BgSteps == {"none", "idle", "count", "lock", "take", "number", "send", "clear", "done"}
Batch == [changes : Seq(Nat), sequence : Nat]

TaskType ==
  /\ added \in Nat /\ sequence \in Nat
  /\ pending \in Seq(Nat) /\ held \in [Tasks -> Seq(Nat)] /\ number \in [Tasks -> Nat]
  /\ channel \in Seq(Batch) /\ received \in SUBSET Batch /\ dropped \in SUBSET Batch
  /\ pc \in [Tasks -> AdderSteps \cup BgSteps]
  /\ \A t \in Adders : pc[t] \in AdderSteps
  /\ \A b \in BgTasks : pc[b] \in BgSteps

\* An owner that starts a task has one that never ran to itself; a handle, and a
\* task an owner has spawned or waits for, did run.
OwnersInStep ==
  /\ opc \in [Owners -> {"idle", "setTx", "spawn", "store", "take", "join"}]
  /\ mine \in [Owners -> BgTasks \cup {None}]
  /\ handle \in BgTasks \cup {None} /\ (handle # None => pc[handle] # "none")
  /\ \A o \in Owners : opc[o] \in {"setTx", "spawn"} =>
       /\ mine[o] \in BgTasks /\ pc[mine[o]] = "none"
       /\ \A q \in Owners : q # o => mine[q] # mine[o]
  /\ \A o \in Owners : opc[o] \in {"store", "join"} => mine[o] \in BgTasks /\ pc[mine[o]] # "none"

\* A task holds changes from its mark to its push and from its take to its send;
\* it holds a number when it sends.
Holding == {"push", "number", "send"}
HandsInStep ==
  \A t \in Tasks :
    /\ pc[t] \notin Holding => held[t] = <<>>
    /\ pc[t] = "push" => Len(held[t]) = 1
    /\ number[t] # 0 <=> pc[t] = "send"

\* No change is unknown, and none is lost.
ChangesKnown ==
  /\ \A i \in DOMAIN pending : pending[i] \in 1..added
  /\ \A t \in Tasks : \A i \in DOMAIN held[t] : held[t][i] \in 1..added
  /\ \A b \in Batches : \A i \in DOMAIN b.changes : b.changes[i] \in 1..added
ChangesKept ==
  \A c \in 1..added :
    \/ c \in Range(pending)
    \/ \E t \in Tasks : c \in Range(held[t])
    \/ \E b \in Batches : c \in Range(b.changes)

\* No change is in two places.
ChangesApart ==
  /\ IsInjective(pending)
  /\ \A t \in Tasks : IsInjective(held[t]) /\ Range(pending) \cap Range(held[t]) = {}
  /\ \A t, v \in Tasks : t # v => Range(held[t]) \cap Range(held[v]) = {}
  /\ \A b \in Batches :
       /\ IsInjective(b.changes) /\ Range(pending) \cap Range(b.changes) = {}
       /\ \A t \in Tasks : Range(held[t]) \cap Range(b.changes) = {}
  /\ \A b, c \in Batches : b # c => Range(b.changes) \cap Range(c.changes) = {}

\* No number is given twice.
NumbersApart ==
  /\ \A t \in Tasks : number[t] \in 0..sequence
  /\ \A b \in Batches : b.sequence \in 1..sequence /\ \A t \in Tasks : number[t] # b.sequence
  /\ \A t, v \in Tasks : t # v /\ number[t] # 0 => number[t] # number[v]
  /\ \A b, c \in Batches : b.sequence = c.sequence => b = c

\* The bound of BatchNearlyBounded, also for what the tasks hold.
Busy == {t \in Adders : pc[t] \in {"check", "lock", "take"}}
Limit == MaxBatchSize - 1 + Cardinality(Adders)
HeldBounded == \A t \in Tasks : Len(held[t]) <= Limit

Contents == ChangesKnown /\ ChangesKept /\ ChangesApart /\ NumbersApart
ContentInv == TaskType /\ HandsInStep /\ Contents /\ BatchNearlyBounded /\ HeldBounded

\* With one owner: at most one task runs, the one whose sender shutdown_tx holds,
\* and the owner's step tells whether it was told to stop.
NoneRuns == \A b \in BgTasks : ~Running(b)
Served == /\ shutdownTx \in BgTasks /\ shutdownTx \notin told
          /\ Running(shutdownTx) /\ pc[shutdownTx] # "clear"
OwnerKnows(o) ==
  /\ opc[o] # "spawn" /\ shutdownTx # None => pc[shutdownTx] # "none"
  /\ opc[o] = "idle" => \/ handle = None /\ NoneRuns /\ returned[o] # "start"
                        \/ handle = shutdownTx /\ Served /\ returned[o] = "start"
  /\ opc[o] = "setTx" => handle = None /\ NoneRuns
  /\ opc[o] = "spawn" => handle = None /\ NoneRuns /\ shutdownTx = mine[o]
  /\ opc[o] = "store" => handle = None /\ Served /\ shutdownTx = mine[o]
  /\ opc[o] = "take" => IF handle = None THEN NoneRuns ELSE handle = shutdownTx
  /\ opc[o] = "join" => handle = None /\ mine[o] = shutdownTx
OneTask ==
  /\ returned \in [Owners -> {"none", "start", "shutdown"}]
  /\ shutdownTx \in BgTasks \cup {None} /\ told \subseteq {b \in BgTasks : pc[b] # "none"}
  /\ \A b \in BgTasks : Running(b) => b = shutdownTx
  /\ \A o \in Owners : OwnerKnows(o)

\* Nothing is pending, under way or sent when the batcher is made (ChangeBatcher::new).
LEMMA ContentInit == TaskInit => ContentInv
<1> SUFFICES ASSUME TaskInit PROVE ContentInv
  OBVIOUS
<1>1. /\ pending = <<>> /\ channel = <<>> /\ received = {} /\ dropped = {} /\ added = 0 /\ sequence = 0
      /\ held = [t \in Tasks |-> <<>>] /\ number = [t \in Tasks |-> 0]
      /\ pc = [t \in Tasks |-> IF t \in Adders THEN "idle" ELSE "none"]
  BY DEF TaskInit, BatchInit
<1>2. Batches = {}
  BY <1>1 DEF Batches, Range
<1>3. TaskType
  BY <1>1 DEF TaskType, AdderSteps, BgSteps, Tasks
<1>4. HandsInStep
  BY <1>1 DEF HandsInStep
<1>5. Contents
  BY <1>1, <1>2 DEF Contents, ChangesKnown, ChangesKept, ChangesApart, NumbersApart, Range, IsInjective
<1>6. Cardinality(Busy) \in Nat /\ Cardinality(Adders) \in Nat
  <2>1. IsFiniteSet(Busy)
    BY FS_Subset DEF Busy
  <2> QED BY <2>1, FS_CardinalityType
<1>7. BatchNearlyBounded /\ HeldBounded
  BY <1>1, <1>6 DEF BatchNearlyBounded, HeldBounded, Busy, Limit
<1> QED BY <1>3, <1>4, <1>5, <1>7 DEF ContentInv

\* The adders at work when one task takes a step.
LEMMA BusyStep ==
  ASSUME TaskType, NEW t \in Tasks, NEW s, pc' = [pc EXCEPT ![t] = s]
  PROVE  /\ Cardinality(Busy) \in Nat /\ Cardinality(Busy') \in Nat
         /\ Cardinality(Adders) \in Nat /\ Cardinality(Busy) <= Cardinality(Adders)
         /\ t \notin Adders => Busy' = Busy
         /\ pc[t] \notin {"check", "lock", "take"} /\ s \notin {"check", "lock", "take"} => Busy' = Busy
         /\ s \in {"check", "lock", "take"} => Cardinality(Busy') >= Cardinality(Busy)
         /\ t \in Adders /\ pc[t] = "push" /\ s = "check" => Cardinality(Busy') = Cardinality(Busy) + 1
<1>1. IsFiniteSet(Busy) /\ Cardinality(Busy) <= Cardinality(Adders)
  BY FS_Subset DEF Busy
<1>2. IsFiniteSet(Busy')
  BY FS_Subset DEF Busy
<1>3. Cardinality(Busy) \in Nat /\ Cardinality(Busy') \in Nat /\ Cardinality(Adders) \in Nat
  BY <1>1, <1>2, FS_CardinalityType
<1>4. \A v \in Tasks : pc'[v] = IF v = t THEN s ELSE pc[v]
  BY DEF TaskType
<1>5. t \notin Adders => Busy' = Busy
  BY <1>4 DEF Busy, Tasks
<1>6. pc[t] \notin {"check", "lock", "take"} /\ s \notin {"check", "lock", "take"} => Busy' = Busy
  BY <1>4 DEF Busy, Tasks
<1>7. s \in {"check", "lock", "take"} => Cardinality(Busy') >= Cardinality(Busy)
  <2>1. s \in {"check", "lock", "take"} => Busy \subseteq Busy'
    BY <1>4 DEF Busy, Tasks
  <2> QED BY <1>2, <1>3, <2>1, FS_Subset
<1>8. t \in Adders /\ pc[t] = "push" /\ s = "check" => Cardinality(Busy') = Cardinality(Busy) + 1
  <2> SUFFICES ASSUME t \in Adders, pc[t] = "push", s = "check"
               PROVE  Cardinality(Busy') = Cardinality(Busy) + 1
    OBVIOUS
  <2>1. Busy' = Busy \cup {t} /\ t \notin Busy
    BY <1>4 DEF Busy, Tasks
  <2> QED BY <1>1, <2>1, FS_AddElement
<1> QED BY <1>1, <1>3, <1>5, <1>6, <1>7, <1>8

contentVars == <<pending, held, number, channel, received, dropped, added, sequence>>

\* The changes are nobody's business but of the steps that move them.
LEMMA ContentsFrame ==
  ASSUME Contents, UNCHANGED contentVars PROVE Contents' /\ Batches' = Batches
<1>1. Batches' = Batches
  BY DEF contentVars, Batches
<1>2. ChangesKnown' /\ NumbersApart'
  BY <1>1 DEF Contents, ChangesKnown, NumbersApart, contentVars
<1>3. ChangesKept'
  BY <1>1 DEF Contents, ChangesKept, contentVars
<1>4. ChangesApart'
  BY <1>1 DEF Contents, ChangesApart, contentVars
<1> QED BY <1>1, <1>2, <1>3, <1>4 DEF Contents

\* A step of one task that moves no change, between steps in which it holds none.
LEMMA MoveKeeps ==
  ASSUME ContentInv, NEW t \in Tasks, NEW s, pc' = [pc EXCEPT ![t] = s], UNCHANGED contentVars,
         pc[t] \notin Holding, s \notin Holding,
         t \in Adders => s \in AdderSteps,
         t \in BgTasks => s \in BgSteps,
         t \in Adders => (s \in {"check", "lock", "take"} \/ Len(pending) < MaxBatchSize)
  PROVE  ContentInv'
<1>1. TaskType /\ HandsInStep /\ Contents /\ BatchNearlyBounded /\ HeldBounded
  BY DEF ContentInv
<1>2. \A v \in Tasks : pc'[v] = IF v = t THEN s ELSE pc[v]
  BY <1>1 DEF TaskType
<1>3. TaskType'
  <2>1. s \in AdderSteps \cup BgSteps
    BY DEF Tasks
  <2>2. \A v \in Adders : pc'[v] \in AdderSteps
    BY <1>1, <1>2 DEF TaskType, Tasks
  <2>3. \A b \in BgTasks : pc'[b] \in BgSteps
    BY <1>1, <1>2 DEF TaskType, Tasks
  <2>4. pc' \in [Tasks -> AdderSteps \cup BgSteps]
    BY <1>1, <2>1 DEF TaskType
  <2> QED BY <1>1, <2>2, <2>3, <2>4 DEF TaskType, contentVars
<1>4. HandsInStep'
  <2>1. "send" \in Holding /\ "push" \in Holding
    BY DEF Holding
  <2>2. held' = held /\ number' = number
    BY DEF contentVars
  <2> QED BY <1>1, <1>2, <2>1, <2>2 DEF HandsInStep
<1>5. Contents'
  BY <1>1, ContentsFrame
<1>6. HeldBounded'
  BY <1>1 DEF HeldBounded, contentVars, Limit
<1>7. BatchNearlyBounded'
  <2>1. /\ Cardinality(Busy) \in Nat /\ Cardinality(Busy') \in Nat
        /\ t \notin Adders => Busy' = Busy
        /\ s \in {"check", "lock", "take"} => Cardinality(Busy') >= Cardinality(Busy)
    BY <1>1, BusyStep
  <2>2. Len(pending) <= MaxBatchSize - 1 + Cardinality(Busy) /\ Len(pending) \in Nat
    BY <1>1 DEF BatchNearlyBounded, Busy, TaskType
  <2>3. Len(pending) <= MaxBatchSize - 1 + Cardinality(Busy')
    BY <2>1, <2>2
  <2>4. pending' = pending /\ channel' = channel
    BY DEF contentVars
  <2> QED BY <1>1, <2>3, <2>4 DEF BatchNearlyBounded, Busy
<1> QED BY <1>3, <1>4, <1>5, <1>6, <1>7 DEF ContentInv

(* -------------------------------- the adds ------------------------------- *)

\* What a single change does: its sequence, its range.
LEMMA OneChange ==
  ASSUME NEW c \in Nat
  PROVE  /\ <<c>> \in Seq(Nat) /\ Len(<<c>>) = 1 /\ DOMAIN <<c>> = {1} /\ <<c>>[1] = c
         /\ Range(<<c>>) = {c} /\ IsInjective(<<c>>)
BY DEF Range, IsInjective

\* There is an adder, so the limit leaves room for a change.
LEMMA LimitAtLeastOne ==
  ASSUME NEW t \in Adders PROVE Limit \in Nat /\ 1 <= Limit
<1>1. Cardinality(Adders) \in Nat /\ Cardinality(Adders) # 0
  BY FS_CardinalityType, FS_EmptySet
<1> QED BY <1>1 DEF Limit

\* A new change in the hands of a task that held none, numbered or not.
LEMMA NewChangeKeeps ==
  ASSUME ContentInv, NEW t \in Adders, pc[t] = "idle", NEW s \in {"push", "send"},
         pc' = [pc EXCEPT ![t] = s], added' = added + 1,
         held' = [held EXCEPT ![t] = <<added + 1>>],
         pending' = pending, channel' = channel, received' = received, dropped' = dropped,
         IF s = "push" THEN sequence' = sequence /\ number' = number
         ELSE sequence' = sequence + 1 /\ number' = [number EXCEPT ![t] = sequence + 1]
  PROVE  ContentInv'
<1> DEFINE new == <<added + 1>>
<1>1. TaskType /\ HandsInStep /\ Contents /\ BatchNearlyBounded /\ HeldBounded /\ t \in Tasks
  BY DEF ContentInv, Tasks
<1>2. added \in Nat /\ sequence \in Nat
  BY <1>1 DEF TaskType
<1>3. /\ new \in Seq(Nat) /\ Len(new) = 1 /\ DOMAIN new = {1} /\ new[1] = added + 1
      /\ Range(new) = {added + 1} /\ IsInjective(new)
  BY <1>2, OneChange
<1>4. Batches' = Batches
  BY DEF Batches
<1>5. /\ \A v \in Tasks : pc'[v] = IF v = t THEN s ELSE pc[v]
      /\ \A v \in Tasks : held'[v] = IF v = t THEN new ELSE held[v]
      /\ held[t] = <<>> /\ number[t] = 0
  BY <1>1 DEF TaskType, HandsInStep, Holding
<1>6. \A v \in Tasks : number'[v] = IF v = t /\ s = "send" THEN sequence + 1 ELSE number[v]
  BY <1>1 DEF TaskType
<1> HIDE DEF new
<1>7. TaskType'
  <2>1. held' \in [Tasks -> Seq(Nat)]
    BY <1>1, <1>3 DEF TaskType, new
  <2>5. number' \in [Tasks -> Nat]
    BY <1>1, <1>2 DEF TaskType
  <2>2. pc' \in [Tasks -> AdderSteps \cup BgSteps]
    BY <1>1 DEF TaskType, AdderSteps
  <2>3. \A v \in Adders : pc'[v] \in AdderSteps
    BY <1>1, <1>5 DEF TaskType, Tasks, AdderSteps
  <2>4. \A b \in BgTasks : pc'[b] \in BgSteps
    BY <1>1, <1>5 DEF TaskType, Tasks
  <2> QED BY <1>1, <1>2, <2>1, <2>2, <2>3, <2>4, <2>5 DEF TaskType
<1>8. HandsInStep'
  BY <1>1, <1>2, <1>3, <1>5, <1>6 DEF HandsInStep, Holding
<1>9. ChangesKnown'
  <2>1. \A x \in 1..added : x \in 1..added'
    BY <1>2
  <2>2. \A v \in Tasks : \A i \in DOMAIN held'[v] : held'[v][i] \in 1..added'
    BY <1>1, <1>2, <1>3, <1>5, <2>1 DEF Contents, ChangesKnown
  <2> QED BY <1>1, <1>4, <2>1, <2>2 DEF Contents, ChangesKnown
<1>10. ChangesKept'
  <2> SUFFICES ASSUME NEW c \in 1..added'
               PROVE  \/ c \in Range(pending)
                      \/ \E v \in Tasks : c \in Range(held'[v])
                      \/ \E b \in Batches : c \in Range(b.changes)
    BY <1>4 DEF ChangesKept
  <2>1. CASE c = added + 1
    BY <1>1, <1>3, <1>5, <2>1
  <2>2. CASE c # added + 1
    <3>1. c \in 1..added
      BY <1>2, <2>2
    <3>2. Range(held[t]) = {}
      BY <1>5 DEF Range
    <3> QED BY <1>1, <1>5, <3>1, <3>2 DEF Contents, ChangesKept
  <2> QED BY <2>1, <2>2
<1>11. ChangesApart'
  <2>1. added + 1 \notin Range(pending)
    BY <1>1, <1>2 DEF Contents, ChangesKnown, Range
  <2>2. \A v \in Tasks : added + 1 \notin Range(held[v])
    BY <1>1, <1>2 DEF Contents, ChangesKnown, Range
  <2>3. \A b \in Batches : added + 1 \notin Range(b.changes)
    BY <1>1, <1>2 DEF Contents, ChangesKnown, Range
  <2>4. \A v \in Tasks : IsInjective(held'[v]) /\ Range(pending) \cap Range(held'[v]) = {}
    BY <1>1, <1>3, <1>5, <2>1 DEF Contents, ChangesApart
  <2>5. \A v, w \in Tasks : v # w => Range(held'[v]) \cap Range(held'[w]) = {}
    BY <1>1, <1>3, <1>5, <2>2 DEF Contents, ChangesApart
  <2>6. \A b \in Batches : \A v \in Tasks : Range(held'[v]) \cap Range(b.changes) = {}
    BY <1>1, <1>3, <1>5, <2>3 DEF Contents, ChangesApart
  <2> QED BY <1>1, <1>4, <2>4, <2>5, <2>6 DEF Contents, ChangesApart
<1>12. NumbersApart'
  BY <1>1, <1>2, <1>4, <1>6 DEF Contents, NumbersApart
<1>13. BatchNearlyBounded'
  <2>1. Busy' = Busy
    BY <1>1, BusyStep
  <2> QED BY <1>1, <2>1 DEF BatchNearlyBounded, Busy
<1>14. HeldBounded'
  BY <1>1, <1>3, <1>5, LimitAtLeastOne DEF HeldBounded, Limit
<1> QED BY <1>7, <1>8, <1>9, <1>10, <1>11, <1>12, <1>13, <1>14 DEF ContentInv, Contents

\* The push moves the one change a task holds to the end of pending.
LEMMA PushKeeps ==
  ASSUME ContentInv, NEW t \in Adders, AddPush(t)
  PROVE  ContentInv'
<1>1. TaskType /\ HandsInStep /\ Contents /\ BatchNearlyBounded /\ HeldBounded /\ t \in Tasks
  BY DEF ContentInv, Tasks
<1>2. /\ pc[t] = "push" /\ pending' = pending \o held[t] /\ held' = [held EXCEPT ![t] = <<>>]
      /\ pc' = [pc EXCEPT ![t] = "check"] /\ number' = number /\ channel' = channel
      /\ received' = received /\ dropped' = dropped /\ added' = added /\ sequence' = sequence
  BY DEF AddPush, outside
<1>3. Batches' = Batches
  BY <1>2 DEF Batches
<1>4. /\ \A v \in Tasks : pc'[v] = IF v = t THEN "check" ELSE pc[v]
      /\ \A v \in Tasks : held'[v] = IF v = t THEN <<>> ELSE held[v]
  BY <1>1, <1>2 DEF TaskType
<1>5. /\ pending \in Seq(Nat) /\ held[t] \in Seq(Nat) /\ Len(held[t]) = 1
      /\ Len(pending) \in Nat /\ DOMAIN pending = 1..Len(pending) /\ DOMAIN held[t] = {1}
  BY <1>1, <1>2 DEF TaskType, HandsInStep
<1>6. /\ pending' \in Seq(Nat) /\ Len(pending') = Len(pending) + 1
      /\ DOMAIN pending' = 1..(Len(pending) + 1)
      /\ \A i \in DOMAIN pending : pending'[i] = pending[i]
      /\ pending'[Len(pending) + 1] = held[t][1]
  BY <1>2, <1>5, SMTT(40)
<1>7. Range(pending') = Range(pending) \cup Range(held[t]) /\ Range(held[t]) = {held[t][1]}
  <2>1. Range(pending') = Range(pending) \cup Range(held[t])
    BY <1>2, <1>5, RangeConcatenation
  <2> QED BY <1>5, <2>1 DEF Range
<1>8. Range(<<>>) = {} /\ IsInjective(<<>>) /\ Len(<<>>) = 0 /\ <<>> \in Seq(Nat)
  BY DEF Range, IsInjective
<1>9. TaskType'
  <2>1. held' \in [Tasks -> Seq(Nat)]
    BY <1>1, <1>2, <1>8 DEF TaskType
  <2>2. pc' \in [Tasks -> AdderSteps \cup BgSteps]
    BY <1>1, <1>2 DEF TaskType, AdderSteps
  <2>3. \A v \in Adders : pc'[v] \in AdderSteps
    BY <1>1, <1>4 DEF TaskType, Tasks, AdderSteps
  <2>4. \A b \in BgTasks : pc'[b] \in BgSteps
    BY <1>1, <1>4 DEF TaskType, Tasks
  <2> QED BY <1>1, <1>2, <1>6, <2>1, <2>2, <2>3, <2>4 DEF TaskType
<1>10. HandsInStep'
  BY <1>1, <1>2, <1>4 DEF HandsInStep
<1>11. ChangesKnown'
  <2>1. held[t][1] \in 1..added
    BY <1>1, <1>5 DEF Contents, ChangesKnown
  <2>2. \A i \in DOMAIN pending' : pending'[i] \in 1..added
    <3>1. \A i \in DOMAIN pending : pending'[i] \in 1..added
      BY <1>1, <1>6 DEF Contents, ChangesKnown
    <3>2. \A i \in DOMAIN pending' : i \in DOMAIN pending \/ i = Len(pending) + 1
      BY <1>5, <1>6
    <3> QED BY <1>6, <2>1, <3>1, <3>2
  <2>3. \A v \in Tasks : \A i \in DOMAIN held'[v] : held'[v][i] \in 1..added
    BY <1>1, <1>4 DEF Contents, ChangesKnown
  <2> QED BY <1>1, <1>2, <1>3, <2>2, <2>3 DEF Contents, ChangesKnown
<1>12. ChangesKept'
  BY <1>1, <1>2, <1>3, <1>4, <1>7 DEF Contents, ChangesKept
<1>13. ChangesApart'
  <2>1. held[t][1] \notin Range(pending)
    BY <1>1, <1>7 DEF Contents, ChangesApart
  <2>2. IsInjective(pending')
    <3>1. \A i \in DOMAIN pending : pending[i] # held[t][1]
      BY <2>1 DEF Range
    <3>2. \A i \in DOMAIN pending' : i \in DOMAIN pending \/ i = Len(pending) + 1
      BY <1>5, <1>6
    <3>3. \A i, j \in DOMAIN pending : pending[i] = pending[j] => i = j
      BY <1>1 DEF Contents, ChangesApart, IsInjective
    <3>4. \A i, j \in DOMAIN pending' : pending'[i] = pending'[j] => i = j
      BY <1>6, <3>1, <3>2, <3>3
    <3> QED BY <3>4 DEF IsInjective
  <2>3. \A v \in Tasks : IsInjective(held'[v]) /\ Range(pending') \cap Range(held'[v]) = {}
    BY <1>1, <1>4, <1>7, <1>8 DEF Contents, ChangesApart
  <2>4. \A v, w \in Tasks : v # w => Range(held'[v]) \cap Range(held'[w]) = {}
    BY <1>1, <1>4, <1>8 DEF Contents, ChangesApart
  <2>5. \A b \in Batches : /\ Range(pending') \cap Range(b.changes) = {}
                           /\ \A v \in Tasks : Range(held'[v]) \cap Range(b.changes) = {}
    BY <1>1, <1>4, <1>7, <1>8 DEF Contents, ChangesApart
  <2> QED BY <1>1, <1>3, <2>2, <2>3, <2>4, <2>5 DEF Contents, ChangesApart
<1>14. NumbersApart'
  BY <1>1, <1>2, <1>3 DEF Contents, NumbersApart
<1>15. BatchNearlyBounded'
  <2>1. Cardinality(Busy') = Cardinality(Busy) + 1 /\ Cardinality(Busy) \in Nat
    BY <1>1, <1>2, BusyStep
  <2>2. Len(pending) <= MaxBatchSize - 1 + Cardinality(Busy)
    BY <1>1 DEF BatchNearlyBounded, Busy
  <2>3. Len(pending') <= MaxBatchSize - 1 + Cardinality(Busy')
    BY <1>5, <1>6, <2>1, <2>2
  <2> QED BY <1>1, <1>2, <2>3 DEF BatchNearlyBounded, Busy
<1>16. HeldBounded'
  BY <1>1, <1>4, <1>8, LimitAtLeastOne DEF HeldBounded, Limit
<1> QED BY <1>9, <1>10, <1>11, <1>12, <1>13, <1>14, <1>15, <1>16 DEF ContentInv, Contents

(* ------------------------------- the flushes ----------------------------- *)

\* The flush moves all of pending into the hands of a task that held nothing.
LEMMA TakeKeeps ==
  ASSUME ContentInv, NEW t \in Tasks, FlushTake(t)
  PROVE  ContentInv'
<1>1. TaskType /\ HandsInStep /\ Contents /\ BatchNearlyBounded /\ HeldBounded
  BY DEF ContentInv
<1>2. /\ pc[t] = "take" /\ pending' = <<>> /\ held' = [held EXCEPT ![t] = pending]
      /\ pc' = [pc EXCEPT ![t] = "number"] /\ number' = number /\ channel' = channel
      /\ received' = received /\ dropped' = dropped /\ added' = added /\ sequence' = sequence
  BY DEF FlushTake, outside
<1>3. Batches' = Batches
  BY <1>2 DEF Batches
<1>4. /\ \A v \in Tasks : pc'[v] = IF v = t THEN "number" ELSE pc[v]
      /\ \A v \in Tasks : held'[v] = IF v = t THEN pending ELSE held[v]
      /\ held[t] = <<>> /\ pending \in Seq(Nat)
  BY <1>1, <1>2 DEF TaskType, HandsInStep, Holding
<1>5. Range(<<>>) = {} /\ IsInjective(<<>>) /\ Len(<<>>) = 0 /\ <<>> \in Seq(Nat) /\ DOMAIN <<>> = {}
  BY DEF Range, IsInjective
<1>6. TaskType'
  <2>1. held' \in [Tasks -> Seq(Nat)]
    BY <1>1, <1>2 DEF TaskType
  <2>2. pc' \in [Tasks -> AdderSteps \cup BgSteps]
    BY <1>1, <1>2 DEF TaskType, AdderSteps
  <2>3. \A v \in Adders : pc'[v] \in AdderSteps
    BY <1>1, <1>4 DEF TaskType, Tasks, AdderSteps
  <2>4. \A b \in BgTasks : pc'[b] \in BgSteps
    BY <1>1, <1>4 DEF TaskType, Tasks, BgSteps
  <2> QED BY <1>1, <1>2, <1>5, <2>1, <2>2, <2>3, <2>4 DEF TaskType
<1>7. HandsInStep'
  BY <1>1, <1>2, <1>4 DEF HandsInStep, Holding
<1>8. ChangesKnown'
  BY <1>1, <1>2, <1>3, <1>4, <1>5 DEF Contents, ChangesKnown
<1>9. ChangesKept'
  <2> SUFFICES ASSUME NEW c \in 1..added
               PROVE  \/ \E v \in Tasks : c \in Range(held'[v])
                      \/ \E b \in Batches : c \in Range(b.changes)
    BY <1>2, <1>3 DEF ChangesKept
  <2>1. CASE c \in Range(pending)
    BY <1>4, <2>1
  <2>2. CASE \E v \in Tasks : c \in Range(held[v])
    BY <1>4, <1>5, <2>2
  <2> QED BY <1>1, <2>1, <2>2 DEF Contents, ChangesKept
<1>10. ChangesApart'
  <2>1. IsInjective(pending') /\ Range(pending') = {}
    BY <1>2, <1>5
  <2>2. \A v \in Tasks : IsInjective(held'[v])
    BY <1>1, <1>4 DEF Contents, ChangesApart
  <2>3. \A v, w \in Tasks : v # w => Range(held'[v]) \cap Range(held'[w]) = {}
    BY <1>1, <1>4 DEF Contents, ChangesApart
  <2>4. \A b \in Batches : \A v \in Tasks : Range(held'[v]) \cap Range(b.changes) = {}
    BY <1>1, <1>4 DEF Contents, ChangesApart
  <2> QED BY <1>1, <1>3, <2>1, <2>2, <2>3, <2>4 DEF Contents, ChangesApart
<1>11. NumbersApart'
  BY <1>1, <1>2, <1>3 DEF Contents, NumbersApart
<1>12. /\ Cardinality(Busy) \in Nat /\ Cardinality(Busy') \in Nat
       /\ Cardinality(Adders) \in Nat /\ Cardinality(Busy) <= Cardinality(Adders)
  BY <1>1, <1>2, BusyStep
<1>13. BatchNearlyBounded'
  <2>1. Len(pending') <= MaxBatchSize - 1 + Cardinality(Busy')
    BY <1>2, <1>5, <1>12
  <2> QED BY <1>1, <1>2, <2>1 DEF BatchNearlyBounded, Busy
<1>14. HeldBounded'
  <2>1. Len(pending) <= Limit
    <3>1. Len(pending) <= MaxBatchSize - 1 + Cardinality(Busy) /\ Len(pending) \in Nat
      BY <1>1, <1>4 DEF BatchNearlyBounded, Busy
    <3> QED BY <1>12, <3>1 DEF Limit
  <2> QED BY <1>1, <1>4, <2>1 DEF HeldBounded, Limit
<1> QED BY <1>6, <1>7, <1>8, <1>9, <1>10, <1>11, <1>13, <1>14 DEF ContentInv, Contents

\* The number is new.
LEMMA NumberKeeps ==
  ASSUME ContentInv, NEW t \in Tasks, FlushNumber(t)
  PROVE  ContentInv'
<1>1. TaskType /\ HandsInStep /\ Contents /\ BatchNearlyBounded /\ HeldBounded
  BY DEF ContentInv
<1>2. /\ pc[t] = "number" /\ sequence' = sequence + 1 /\ number' = [number EXCEPT ![t] = sequence + 1]
      /\ pc' = [pc EXCEPT ![t] = "send"] /\ pending' = pending /\ held' = held /\ channel' = channel
      /\ received' = received /\ dropped' = dropped /\ added' = added
  BY DEF FlushNumber, outside
<1>3. Batches' = Batches /\ sequence \in Nat
  BY <1>1, <1>2 DEF Batches, TaskType
<1>4. /\ \A v \in Tasks : pc'[v] = IF v = t THEN "send" ELSE pc[v]
      /\ \A v \in Tasks : number'[v] = IF v = t THEN sequence + 1 ELSE number[v]
  BY <1>1, <1>2 DEF TaskType
<1>5. TaskType'
  <2>1. number' \in [Tasks -> Nat]
    BY <1>1, <1>2, <1>3 DEF TaskType
  <2>2. pc' \in [Tasks -> AdderSteps \cup BgSteps]
    BY <1>1, <1>2 DEF TaskType, AdderSteps
  <2>3. \A v \in Adders : pc'[v] \in AdderSteps
    BY <1>1, <1>4 DEF TaskType, Tasks, AdderSteps
  <2>4. \A b \in BgTasks : pc'[b] \in BgSteps
    BY <1>1, <1>4 DEF TaskType, Tasks, BgSteps
  <2> QED BY <1>1, <1>2, <1>3, <2>1, <2>2, <2>3, <2>4 DEF TaskType
<1>6. HandsInStep'
  BY <1>1, <1>2, <1>3, <1>4 DEF HandsInStep, Holding
<1>7. ChangesKnown' /\ ChangesKept'
  BY <1>1, <1>2, <1>3 DEF Contents, ChangesKnown, ChangesKept
<1>8. ChangesApart'
  BY <1>1, <1>2, <1>3 DEF Contents, ChangesApart
<1>9. NumbersApart'
  BY <1>1, <1>2, <1>3, <1>4 DEF Contents, NumbersApart
<1>10. BatchNearlyBounded'
  <2>1. Busy' = Busy
    BY <1>1, <1>2, BusyStep
  <2> QED BY <1>1, <1>2, <2>1 DEF BatchNearlyBounded, Busy
<1>11. HeldBounded'
  BY <1>1, <1>2 DEF HeldBounded, Limit
<1> QED BY <1>5, <1>6, <1>7, <1>8, <1>9, <1>10, <1>11 DEF ContentInv, Contents

\* What a batch more, and a batch less, make of the batches in the channel.
LEMMA AppendRange ==
  ASSUME NEW S, NEW q \in Seq(S), NEW e \in S
  PROVE  Range(Append(q, e)) = Range(q) \cup {e}
<1> DEFINE one == <<e>>
<1>1. Append(q, e) = q \o one /\ one \in Seq(S)
  BY AppendIsConcat
<1>2. Range(one) = {e}
  BY DEF Range
<1> HIDE DEF one
<1>3. Range(q \o one) = Range(q) \cup Range(one)
  BY <1>1, RangeConcatenation
<1> QED BY <1>1, <1>2, <1>3

\* What recv takes from the channel and what it leaves there.
LEMMA HeadTailRange ==
  ASSUME NEW S, NEW q \in Seq(S), q # <<>>
  PROVE  /\ Range(q) = {Head(q)} \cup Range(Tail(q))
         /\ \A i \in DOMAIN Tail(q) : \E j \in DOMAIN q : Tail(q)[i] = q[j]
<1> DEFINE one == <<Head(q)>>
           rest == Tail(q)
<1>1. Head(q) \in S /\ rest \in Seq(S) /\ q = one \o rest
  OBVIOUS
<1>2. Range(one) = {Head(q)} /\ one \in Seq(S)
  BY <1>1 DEF Range
<1> HIDE DEF one, rest
<1>3. Range(q) = {Head(q)} \cup Range(rest)
  <2>1. Range(one \o rest) = Range(one) \cup Range(rest)
    BY <1>1, <1>2, RangeConcatenation
  <2> QED BY <1>1, <1>2, <2>1
<1>4. \A i \in DOMAIN rest : rest[i] \in Range(q)
  BY <1>3 DEF Range
<1> QED BY <1>3, <1>4 DEF Range, rest

\* try_send makes a batch of what the task holds, accepted or refused.
LEMMA SendKeeps ==
  ASSUME ContentInv, NEW t \in Tasks, Send(t)
  PROVE  ContentInv'
<1> DEFINE new == [changes |-> held[t], sequence |-> number[t]]
<1>1. TaskType /\ HandsInStep /\ Contents /\ BatchNearlyBounded /\ HeldBounded
  BY DEF ContentInv
<1>2. /\ pc[t] = "send" /\ held' = [held EXCEPT ![t] = <<>>] /\ number' = [number EXCEPT ![t] = 0]
      /\ pc' = [pc EXCEPT ![t] = "idle"] /\ pending' = pending
      /\ received' = received /\ sequence' = sequence /\ added' = added
      /\ \/ channel' = Append(channel, new) /\ dropped' = dropped
         \/ dropped' = dropped \cup {new} /\ channel' = channel
  BY DEF Send, outside
<1>3. /\ new \in Batch /\ new.changes = held[t] /\ new.sequence = number[t] /\ number[t] # 0
      /\ channel \in Seq(Batch)
  BY <1>1, <1>2 DEF TaskType, Batch, HandsInStep
<1>4. /\ \A v \in Tasks : pc'[v] = IF v = t THEN "idle" ELSE pc[v]
      /\ \A v \in Tasks : held'[v] = IF v = t THEN <<>> ELSE held[v]
      /\ \A v \in Tasks : number'[v] = IF v = t THEN 0 ELSE number[v]
  BY <1>1, <1>2 DEF TaskType
<1> HIDE DEF new
<1>5. Batches' = Batches \cup {new}
  <2>1. channel' = Append(channel, new) => Range(channel') = Range(channel) \cup {new}
    BY <1>3, AppendRange
  <2> QED BY <1>2, <2>1 DEF Batches
<1>6. Range(<<>>) = {} /\ IsInjective(<<>>) /\ Len(<<>>) = 0 /\ <<>> \in Seq(Nat) /\ DOMAIN <<>> = {}
  BY DEF Range, IsInjective
<1>7. TaskType'
  <2>1. held' \in [Tasks -> Seq(Nat)]
    BY <1>1, <1>2, <1>6 DEF TaskType
  <2>2. number' \in [Tasks -> Nat]
    BY <1>1, <1>2 DEF TaskType
  <2>3. pc' \in [Tasks -> AdderSteps \cup BgSteps]
    BY <1>1, <1>2 DEF TaskType, AdderSteps
  <2>4. \A v \in Adders : pc'[v] \in AdderSteps
    BY <1>1, <1>4 DEF TaskType, Tasks, AdderSteps
  <2>5. \A b \in BgTasks : pc'[b] \in BgSteps
    BY <1>1, <1>4 DEF TaskType, Tasks, BgSteps
  <2>6. channel' \in Seq(Batch) /\ dropped' \in SUBSET Batch
    <3>1. Append(channel, new) \in Seq(Batch)
      BY <1>3, AppendProperties
    <3>2. dropped \in SUBSET Batch /\ dropped \cup {new} \in SUBSET Batch
      BY <1>1, <1>3 DEF TaskType
    <3> QED BY <1>2, <1>3, <3>1, <3>2
  <2> QED BY <1>1, <1>2, <2>1, <2>2, <2>3, <2>4, <2>5, <2>6 DEF TaskType
<1>8. HandsInStep'
  BY <1>1, <1>4 DEF HandsInStep, Holding
<1>9. ChangesKnown'
  <2>1. \A v \in Tasks : \A i \in DOMAIN held'[v] : held'[v][i] \in 1..added
    BY <1>1, <1>4, <1>6 DEF Contents, ChangesKnown
  <2>2. \A b \in Batches \cup {new} : \A i \in DOMAIN b.changes : b.changes[i] \in 1..added
    BY <1>1, <1>3 DEF Contents, ChangesKnown
  <2> QED BY <1>1, <1>2, <1>5, <2>1, <2>2 DEF Contents, ChangesKnown
<1>10. ChangesKept'
  <2> SUFFICES ASSUME NEW c \in 1..added
               PROVE  \/ c \in Range(pending)
                      \/ \E v \in Tasks : c \in Range(held'[v])
                      \/ \E b \in Batches \cup {new} : c \in Range(b.changes)
    BY <1>2, <1>5 DEF ChangesKept
  <2>1. CASE \E v \in Tasks : c \in Range(held[v])
    BY <1>3, <1>4, <2>1
  <2> QED BY <1>1, <2>1 DEF Contents, ChangesKept
<1>11. ChangesApart'
  <2>1. \A v \in Tasks : IsInjective(held'[v]) /\ Range(pending) \cap Range(held'[v]) = {}
    BY <1>1, <1>4, <1>6 DEF Contents, ChangesApart
  <2>2. \A v, w \in Tasks : v # w => Range(held'[v]) \cap Range(held'[w]) = {}
    BY <1>1, <1>4, <1>6 DEF Contents, ChangesApart
  <2>3. \A b \in Batches \cup {new} : IsInjective(b.changes) /\ Range(pending) \cap Range(b.changes) = {}
    BY <1>1, <1>3 DEF Contents, ChangesApart
  <2>4. \A b \in Batches : \A v \in Tasks : Range(held'[v]) \cap Range(b.changes) = {}
    BY <1>1, <1>4, <1>6 DEF Contents, ChangesApart
  <2>5. \A v \in Tasks : Range(held'[v]) \cap Range(new.changes) = {}
    BY <1>1, <1>3, <1>4, <1>6 DEF Contents, ChangesApart
  <2>6. \A b, c \in Batches \cup {new} : b # c => Range(b.changes) \cap Range(c.changes) = {}
    BY <1>1, <1>3 DEF Contents, ChangesApart
  <2> QED BY <1>1, <1>2, <1>5, <2>1, <2>2, <2>3, <2>4, <2>5, <2>6 DEF Contents, ChangesApart
<1>12. NumbersApart'
  <2>1. \A v \in Tasks : number'[v] \in 0..sequence
    <3>1. sequence \in Nat /\ \A v \in Tasks : number[v] \in 0..sequence
      BY <1>1 DEF Contents, NumbersApart, TaskType
    <3> QED BY <1>4, <3>1
  <2>2. \A b \in Batches \cup {new} : b.sequence \in 1..sequence
    BY <1>1, <1>3 DEF Contents, NumbersApart
  <2>3. \A b \in Batches \cup {new} : \A v \in Tasks : number'[v] # b.sequence
    BY <1>1, <1>3, <1>4 DEF Contents, NumbersApart
  <2>4. \A v, w \in Tasks : v # w /\ number'[v] # 0 => number'[v] # number'[w]
    BY <1>1, <1>4 DEF Contents, NumbersApart
  <2>5. \A b, c \in Batches \cup {new} : b.sequence = c.sequence => b = c
    BY <1>1, <1>3 DEF Contents, NumbersApart
  <2> QED BY <1>2, <1>5, <2>1, <2>2, <2>3, <2>4, <2>5 DEF NumbersApart
<1>13. BatchNearlyBounded'
  <2>1. Busy' = Busy
    BY <1>1, <1>2, BusyStep
  <2>2. \A b \in Range(channel') : b \in Range(channel) \/ b = new
    <3>1. Range(Append(channel, new)) = Range(channel) \cup {new}
      BY <1>3, AppendRange
    <3> QED BY <1>2, <3>1
  <2>3. \A b \in Range(channel') : Len(b.changes) <= Limit
    BY <1>1, <1>3, <2>2 DEF BatchNearlyBounded, HeldBounded, Limit, Range
  <2>4. \A i \in DOMAIN channel' : Len(channel'[i].changes) <= MaxBatchSize - 1 + Cardinality(Adders)
    BY <2>3 DEF Range, Limit
  <2> QED BY <1>1, <1>2, <2>1, <2>4 DEF BatchNearlyBounded, Busy
<1>14. HeldBounded'
  <2>1. 0 <= Limit
    BY FS_CardinalityType DEF Limit
  <2> QED BY <1>1, <1>4, <1>6, <2>1 DEF HeldBounded, Limit
<1> QED BY <1>7, <1>8, <1>9, <1>10, <1>11, <1>12, <1>13, <1>14 DEF ContentInv, Contents

\* Receiving moves a batch and changes no other fact.
LEMMA ReceiveKeeps ==
  ASSUME ContentInv, Receive
  PROVE  ContentInv'
<1>1. TaskType /\ HandsInStep /\ Contents /\ BatchNearlyBounded /\ HeldBounded
  BY DEF ContentInv
<1>2. /\ channel # <<>> /\ received' = received \cup {Head(channel)} /\ channel' = Tail(channel)
      /\ pending' = pending /\ held' = held /\ number' = number /\ pc' = pc
      /\ dropped' = dropped /\ added' = added /\ sequence' = sequence
  BY DEF Receive
<1>3. channel \in Seq(Batch)
  BY <1>1 DEF TaskType
<1>4. /\ Range(channel) = {Head(channel)} \cup Range(Tail(channel))
      /\ \A i \in DOMAIN Tail(channel) : \E j \in DOMAIN channel : Tail(channel)[i] = channel[j]
  BY <1>2, <1>3, HeadTailRange
<1>5. Batches' = Batches
  BY <1>2, <1>4 DEF Batches
<1>6. TaskType'
  <2>1. channel' \in Seq(Batch) /\ received' \in SUBSET Batch
    BY <1>1, <1>2, <1>3 DEF TaskType
  <2> QED BY <1>1, <1>2, <2>1 DEF TaskType
<1>7. HandsInStep' /\ HeldBounded'
  BY <1>1, <1>2 DEF HandsInStep, HeldBounded, Limit
<1>8. ChangesKnown' /\ NumbersApart'
  BY <1>1, <1>2, <1>5 DEF Contents, ChangesKnown, NumbersApart
<1>9. ChangesKept'
  BY <1>1, <1>2, <1>5 DEF Contents, ChangesKept
<1>10. ChangesApart'
  BY <1>1, <1>2, <1>5 DEF Contents, ChangesApart
<1>11. BatchNearlyBounded'
  BY <1>1, <1>2, <1>4 DEF BatchNearlyBounded
<1> QED BY <1>6, <1>7, <1>8, <1>9, <1>10, <1>11 DEF ContentInv, Contents

(* ---------------------------- tasks and owners --------------------------- *)

\* Every step of the batcher itself.
LEMMA BatchNextKeeps ==
  ASSUME ContentInv, BatchNext
  PROVE  ContentInv'
<1> USE DEF contentVars, outside
<1>1. TaskType /\ Adders \subseteq Tasks /\ BgTasks \subseteq Tasks /\ Len(pending) \in Nat
  BY DEF ContentInv, TaskType, Tasks
<1>2. \A t \in Adders : t \notin BgTasks
  OBVIOUS
<1>3. ASSUME NEW t \in Adders, AddMark(t) PROVE ContentInv'
  BY <1>3, NewChangeKeeps DEF AddMark
<1>4. ASSUME NEW t \in Adders, AddSingle(t) PROVE ContentInv'
  BY <1>4, NewChangeKeeps DEF AddSingle
<1>5. ASSUME NEW t \in Adders, ForceFlush(t) PROVE ContentInv'
  <2>1. /\ pc' = [pc EXCEPT ![t] = "lock"] /\ UNCHANGED contentVars /\ pc[t] \notin Holding
        /\ "lock" \notin Holding /\ "lock" \in AdderSteps
    BY <1>5 DEF ForceFlush, Holding, AdderSteps
  <2> QED BY <1>1, <1>2, <2>1, MoveKeeps
<1>6. ASSUME NEW t \in Adders, AddPush(t) PROVE ContentInv'
  BY <1>6, PushKeeps
<1>7. ASSUME NEW t \in Adders, CheckFlush(t) PROVE ContentInv'
  <2> DEFINE s == IF Len(pending) >= MaxBatchSize THEN "lock" ELSE "idle"
  <2>1. pc' = [pc EXCEPT ![t] = s] /\ UNCHANGED contentVars /\ pc[t] \notin Holding
    BY <1>7 DEF CheckFlush, Holding
  <2>2. s \in {"lock", "idle"} /\ (s = "lock" \/ Len(pending) < MaxBatchSize)
    BY <1>1
  <2> HIDE DEF s
  <2>3. s \notin Holding /\ s \in AdderSteps
    BY <2>2 DEF Holding, AdderSteps
  <2> QED BY <1>1, <1>2, <2>1, <2>2, <2>3, MoveKeeps
<1>8. ASSUME NEW t \in Tasks, FlushLock(t) PROVE ContentInv'
  <2> DEFINE s == IF pending = <<>> THEN "idle" ELSE "take"
  <2>1. pc' = [pc EXCEPT ![t] = s] /\ UNCHANGED contentVars /\ pc[t] \notin Holding
    BY <1>8 DEF FlushLock, Holding
  <2>2. s \in {"take", "idle"} /\ (s = "take" \/ Len(pending) < MaxBatchSize)
    OBVIOUS
  <2> HIDE DEF s
  <2>3. s \notin Holding /\ s \in AdderSteps /\ s \in BgSteps
    BY <2>2 DEF Holding, AdderSteps, BgSteps
  <2> QED BY <1>1, <2>1, <2>2, <2>3, MoveKeeps
<1>9. ASSUME NEW t \in Tasks, FlushStep(t) PROVE ContentInv'
  BY <1>8, <1>9, TakeKeeps, NumberKeeps, SendKeeps DEF FlushStep
<1>10. ASSUME NEW b \in BgTasks, BgTick(b) \/ BgCount(b) PROVE ContentInv'
  <2>1. PICK s \in {"count", "lock", "idle"} :
          pc' = [pc EXCEPT ![b] = s] /\ UNCHANGED contentVars /\ pc[b] \notin Holding
    BY <1>10 DEF BgTick, BgCount, Holding
  <2>2. s \notin Holding /\ s \in BgSteps
    BY <2>1 DEF Holding, BgSteps
  <2> QED BY <1>1, <1>2, <2>1, <2>2, MoveKeeps
<1>11. ASSUME Age PROVE ContentInv'
  <2>1. UNCHANGED contentVars /\ pc' = pc
    BY <1>11 DEF Age
  <2>2. Contents'
    BY <2>1, ContentsFrame DEF ContentInv
  <2> QED BY <2>1, <2>2 DEF ContentInv, TaskType, HandsInStep, BatchNearlyBounded, HeldBounded, Limit
<1>12. ASSUME Receive PROVE ContentInv'
  BY <1>12, ReceiveKeeps
<1> QED
  BY <1>1, <1>3, <1>4, <1>5, <1>6, <1>7, <1>9, <1>10, <1>11, <1>12 DEF BatchNext, AdderStep, BgStep

\* No step of the batcher spawns a task.
LEMMA BatchNextSpawnsNone ==
  ASSUME TaskType, BatchNext, NEW b \in BgTasks
  PROVE  (pc'[b] = "none") = (pc[b] = "none")
<1> USE DEF TaskType, Tasks
<1>1. CASE \E t \in Adders : AddMark(t) \/ AddSingle(t) \/ ForceFlush(t) \/ AddPush(t) \/ CheckFlush(t)
  BY <1>1 DEF AddMark, AddSingle, ForceFlush, AddPush, CheckFlush
<1>2. ASSUME NEW t \in Tasks, FlushStep(t) PROVE (pc'[b] = "none") = (pc[b] = "none")
  BY <1>2 DEF FlushStep, FlushLock, FlushTake, FlushNumber, Send
<1>3. CASE \E t \in BgTasks : BgTick(t) \/ BgCount(t)
  BY <1>3 DEF BgTick, BgCount
<1>4. CASE Age \/ Receive
  BY <1>4 DEF Age, Receive
<1> QED BY <1>1, <1>2, <1>3, <1>4 DEF BatchNext, AdderStep, BgStep

\* A step of an owner, or of a task at its end, moves no change.
LEMMA OwnersMoveNothing ==
  ASSUME ContentInv, OwnersInStep, TaskNext, ~(BatchNext /\ UNCHANGED taskVars)
  PROVE  ContentInv'
<1> USE DEF contentVars
<1>1. TaskType /\ BgTasks \subseteq Tasks /\ BgTasks \cap Adders = {}
  BY DEF ContentInv, Tasks
<1>2. ASSUME UNCHANGED vars PROVE ContentInv'
  <2>1. UNCHANGED contentVars /\ pc' = pc
    BY <1>2 DEF vars
  <2>2. Contents'
    BY <2>1, ContentsFrame DEF ContentInv
  <2> QED BY <2>1, <2>2 DEF ContentInv, TaskType, HandsInStep, BatchNearlyBounded, HeldBounded, Limit
<1>3. ASSUME NEW b \in BgTasks, NEW s \in {"idle", "clear", "done"}, pc[b] \notin Holding,
             pc' = [pc EXCEPT ![b] = s], UNCHANGED batching
      PROVE  ContentInv'
  <2>1. UNCHANGED contentVars
    BY <1>3 DEF batching
  <2>2. s \notin Holding /\ s \in BgSteps
    BY DEF Holding, BgSteps
  <2> QED BY <1>1, <1>3, <2>1, <2>2, MoveKeeps
<1>4. ASSUME NEW o \in Owners, StartSpawn(o) PROVE ContentInv'
  <2>1. mine[o] \in BgTasks /\ pc[mine[o]] \notin Holding
    BY <1>4 DEF StartSpawn, OwnersInStep, Holding
  <2> QED BY <1>3, <1>4, <2>1 DEF StartSpawn
<1>5. ASSUME NEW b \in BgTasks, TaskSignal(b) PROVE ContentInv'
  BY <1>3, <1>5 DEF TaskSignal, Holding
<1>6. ASSUME NEW b \in BgTasks, TaskClear(b) PROVE ContentInv'
  BY <1>3, <1>6 DEF TaskClear, Holding
<1>7. ASSUME NEW o \in Owners, StartRefused(o) \/ StartChecked(o) \/ ShutdownSend(o) \/ StartSetTx(o)
                               \/ StartStore(o) \/ ShutdownTake(o) \/ ShutdownJoin(o)
      PROVE  ContentInv'
  BY <1>2, <1>7 DEF StartRefused, StartChecked, ShutdownSend, StartSetTx, StartStore, ShutdownTake, ShutdownJoin
<1> QED BY <1>4, <1>5, <1>6, <1>7 DEF TaskNext, OwnerStep

\* Owners, handles and tasks stay in step.
LEMMA OwnersKept ==
  ASSUME TaskType, OwnersInStep, [TaskNext]_allVars
  PROVE  OwnersInStep'
<1> USE DEF OwnersInStep, TaskType, Tasks
<1>1. CASE BatchNext /\ UNCHANGED taskVars
  <2>1. \A b \in BgTasks : (pc'[b] = "none") = (pc[b] = "none")
    BY <1>1, BatchNextSpawnsNone
  <2> QED BY <1>1, <2>1 DEF taskVars
<1>2. ASSUME NEW o \in Owners, StartRefused(o) \/ ShutdownSend(o) \/ StartSetTx(o) PROVE OwnersInStep'
  BY <1>2, ZenonT(40) DEF StartRefused, ShutdownSend, StartSetTx, vars
<1>3. ASSUME NEW o \in Owners, StartChecked(o) PROVE OwnersInStep'
  <2> DEFINE b == CHOOSE b \in Unused : TRUE
  <2>1. b \in Unused
    BY <1>3 DEF StartChecked
  <2>2. b \in BgTasks /\ pc[b] = "none" /\ \A q \in Owners : mine[q] # b
    BY <2>1 DEF Unused
  <2> HIDE DEF b
  <2>3. mine' = [mine EXCEPT ![o] = b] /\ opc' = [opc EXCEPT ![o] = "setTx"] /\ UNCHANGED <<vars, handle>>
    BY <1>3 DEF StartChecked, b
  <2> QED BY <2>2, <2>3 DEF vars
<1>4. ASSUME NEW o \in Owners, StartSpawn(o) PROVE OwnersInStep'
  BY <1>4 DEF StartSpawn
<1>5. ASSUME NEW o \in Owners, StartStore(o) PROVE OwnersInStep'
  BY <1>5 DEF StartStore, vars
<1>6. ASSUME NEW o \in Owners, ShutdownTake(o) PROVE OwnersInStep'
  BY <1>6 DEF ShutdownTake, vars
<1>7. ASSUME NEW o \in Owners, ShutdownJoin(o) PROVE OwnersInStep'
  BY <1>7 DEF ShutdownJoin, vars
<1>8. ASSUME NEW b \in BgTasks, TaskSignal(b) \/ TaskClear(b) PROVE OwnersInStep'
  BY <1>8 DEF TaskSignal, TaskClear, taskVars
<1>9. CASE UNCHANGED allVars
  BY <1>9 DEF allVars, vars, taskVars
<1> QED BY <1>1, <1>2, <1>3, <1>4, <1>5, <1>6, <1>7, <1>8, <1>9 DEF TaskNext, OwnerStep

(* ------------------------------- the theorems ---------------------------- *)

\* No owner is in a call when the batcher is made.
LEMMA OwnersInit == TaskInit => OwnersInStep
BY DEF TaskInit, OwnersInStep

\* Tasks, owners, locks and buffers stay in step under every interleaving.
THEOREM BatcherInvariant == TaskSpec => [](ContentInv /\ OwnersInStep)
<1>1. TaskInit => ContentInv /\ OwnersInStep
  BY ContentInit, OwnersInit
<1>2. ContentInv /\ OwnersInStep /\ [TaskNext]_allVars => (ContentInv /\ OwnersInStep)'
  <2> SUFFICES ASSUME ContentInv, OwnersInStep, [TaskNext]_allVars
               PROVE  ContentInv' /\ OwnersInStep'
    OBVIOUS
  <2>1. OwnersInStep'
    BY OwnersKept DEF ContentInv
  <2>2. CASE BatchNext /\ UNCHANGED taskVars
    BY <2>1, <2>2, BatchNextKeeps
  <2>3. CASE TaskNext /\ ~(BatchNext /\ UNCHANGED taskVars)
    BY <2>1, <2>3, OwnersMoveNothing
  <2>4. CASE UNCHANGED allVars
    <3>1. UNCHANGED contentVars /\ pc' = pc
      BY <2>4 DEF allVars, vars, contentVars
    <3>2. Contents'
      BY <3>1, ContentsFrame DEF ContentInv
    <3>3. ContentInv'
      BY <3>1, <3>2 DEF ContentInv, TaskType, HandsInStep, BatchNearlyBounded, HeldBounded, Limit, contentVars
    <3> QED BY <2>1, <3>3
  <2> QED BY <2>2, <2>3, <2>4
<1> QED BY <1>1, <1>2, PTL DEF TaskSpec

\* A change that is in one buffer has one spot.
LEMMA OneSpot ==
  ASSUME ContentInv, NEW c \in 1..added
  PROVE  \E x : Spots(c) = {x}
<1> DEFINE P == {<<"pending", None, i>> : i \in Positions(c, pending)}
           inHand(t) == {<<"held", t, i>> : i \in Positions(c, held[t])}
           H == UNION {inHand(t) : t \in Tasks}
           inBatch(b) == {<<"batch", b, i>> : i \in Positions(c, b.changes)}
           B == UNION {inBatch(b) : b \in Batches}
<1>0. Spots(c) = P \cup H \cup B
  BY Zenon DEF Spots
<1>1. Contents
  BY DEF ContentInv
<1>2. /\ \A i \in Positions(c, pending) : c \in Range(pending) /\ \A j \in Positions(c, pending) : i = j
      /\ \A t \in Tasks : \A i \in Positions(c, held[t]) :
           c \in Range(held[t]) /\ \A j \in Positions(c, held[t]) : i = j
      /\ \A b \in Batches : \A i \in Positions(c, b.changes) :
           c \in Range(b.changes) /\ \A j \in Positions(c, b.changes) : i = j
  BY <1>1 DEF Contents, ChangesApart, IsInjective, Positions, Range
<1>3. CASE c \in Range(pending)
  <2>1. PICK i : i \in Positions(c, pending)
    BY <1>3 DEF Range, Positions
  <2>2. \A t \in Tasks : Positions(c, held[t]) = {}
    BY <1>1, <1>2, <1>3 DEF Contents, ChangesApart
  <2>3. \A b \in Batches : Positions(c, b.changes) = {}
    BY <1>1, <1>2, <1>3 DEF Contents, ChangesApart
  <2>4. Positions(c, pending) = {i}
    BY <1>2, <2>1
  <2>5. P = {<<"pending", None, i>>}
    BY <2>4
  <2>6. H = {} /\ B = {}
    BY <2>2, <2>3
  <2> QED BY <1>0, <2>5, <2>6
<1>4. ASSUME NEW t \in Tasks, c \in Range(held[t]) PROVE \E x : Spots(c) = {x}
  <2>1. PICK i : i \in Positions(c, held[t])
    BY <1>4 DEF Range, Positions
  <2>2. Positions(c, pending) = {}
    BY <1>1, <1>2, <1>4 DEF Contents, ChangesApart
  <2>3. \A v \in Tasks : v # t => Positions(c, held[v]) = {}
    BY <1>1, <1>2, <1>4 DEF Contents, ChangesApart
  <2>4. \A b \in Batches : Positions(c, b.changes) = {}
    BY <1>1, <1>2, <1>4 DEF Contents, ChangesApart
  <2>5. Positions(c, held[t]) = {i}
    BY <1>2, <2>1
  <2>6. P = {} /\ B = {}
    BY <2>2, <2>4
  <2>7. inHand(t) = {<<"held", t, i>>} /\ \A v \in Tasks : v # t => inHand(v) = {}
    BY <2>3, <2>5
  <2> HIDE DEF inHand
  <2>8. H = {<<"held", t, i>>}
    BY <2>7
  <2> QED BY <1>0, <2>6, <2>8
<1>5. ASSUME NEW b \in Batches, c \in Range(b.changes) PROVE \E x : Spots(c) = {x}
  <2>1. PICK i : i \in Positions(c, b.changes)
    BY <1>5 DEF Range, Positions
  <2>2. Positions(c, pending) = {}
    BY <1>1, <1>2, <1>5 DEF Contents, ChangesApart
  <2>3. \A t \in Tasks : Positions(c, held[t]) = {}
    BY <1>1, <1>2, <1>5 DEF Contents, ChangesApart
  <2>4. \A d \in Batches : d # b => Positions(c, d.changes) = {}
    BY <1>1, <1>2, <1>5 DEF Contents, ChangesApart
  <2>5. Positions(c, b.changes) = {i}
    BY <1>2, <2>1
  <2>6. P = {} /\ H = {}
    BY <2>2, <2>3
  <2>7. inBatch(b) = {<<"batch", b, i>>} /\ \A d \in Batches : d # b => inBatch(d) = {}
    BY <2>4, <2>5
  <2> HIDE DEF inBatch
  <2>8. B = {<<"batch", b, i>>}
    BY <2>7
  <2> QED BY <1>0, <2>6, <2>8
<1> QED BY <1>1, <1>3, <1>4, <1>5 DEF Contents, ChangesKept

\* Adds, flushes by size, by hand and by age, sends and receipts, in whatever
\* order: no change is lost or duplicated, and no number is given twice.
THEOREM ChangesOnce == TaskSpec => []EveryChangeOnce
<1>1. ASSUME ContentInv PROVE EveryChangeOnce
  <2>1. \A c \in 1..added : Cardinality(Spots(c)) = 1
    BY <1>1, OneSpot, FS_Singleton
  <2> QED BY <1>1, <2>1 DEF EveryChangeOnce, ContentInv, Contents, NumbersApart
<1> QED BY <1>1, BatcherInvariant, PTL

\* src/batch.rs:23, for any number of adders: a batch exceeds max_batch_size by
\* less than their number.
THEOREM BatchesNearlyBounded == TaskSpec => []BatchNearlyBounded
<1>1. ContentInv => BatchNearlyBounded
  BY DEF ContentInv
<1> QED BY <1>1, BatcherInvariant, PTL

(* ------------------------------- one owner ------------------------------- *)

\* No task has been started when the batcher is made.
LEMMA OneTaskInit == TaskInit => OneTask
BY DEF TaskInit, OneTask, OwnerKnows, NoneRuns, Running, Tasks

\* No step of the batcher ends a task.
LEMMA BatchNextEndsNone ==
  ASSUME TaskType, BatchNext, NEW b \in BgTasks
  PROVE  Running(b)' = Running(b) /\ (pc'[b] = "clear") = (pc[b] = "clear")
<1> USE DEF TaskType, Tasks, Running
<1>1. CASE \E t \in Adders : AddMark(t) \/ AddSingle(t) \/ ForceFlush(t) \/ AddPush(t) \/ CheckFlush(t)
  BY <1>1 DEF AddMark, AddSingle, ForceFlush, AddPush, CheckFlush
<1>2. ASSUME NEW t \in Tasks, FlushStep(t) PROVE Running(b)' = Running(b) /\ (pc'[b] = "clear") = (pc[b] = "clear")
  BY <1>2 DEF FlushStep, FlushLock, FlushTake, FlushNumber, Send
<1>3. CASE \E t \in BgTasks : BgTick(t) \/ BgCount(t)
  BY <1>3 DEF BgTick, BgCount
<1>4. CASE Age \/ Receive
  BY <1>4 DEF Age, Receive
<1> QED BY <1>1, <1>2, <1>3, <1>4 DEF BatchNext, AdderStep, BgStep

\* With one owner every step of a task, an adder or the owner keeps OneTask.
LEMMA OneTaskKept ==
  ASSUME \A o, q \in Owners : o = q, TaskType, OwnersInStep, OneTask, [TaskNext]_allVars
  PROVE  OneTask'
<1> USE DEF OwnerKnows, NoneRuns, Served
<1>1. CASE BatchNext /\ UNCHANGED taskVars
  <2>1. \A b \in BgTasks : /\ Running(b)' = Running(b) /\ (pc'[b] = "none") = (pc[b] = "none")
                           /\ (pc'[b] = "clear") = (pc[b] = "clear")
    BY <1>1, BatchNextEndsNone, BatchNextSpawnsNone
  <2> QED BY <1>1, <2>1 DEF OneTask, taskVars
<1>2. ASSUME NEW o \in Owners, StartRefused(o) PROVE OneTask'
  <2>1. OwnerKnows(o)'
    BY <1>2 DEF OneTask, StartRefused, vars, Running, OwnersInStep
  <2>2. /\ returned' \in [Owners -> {"none", "start", "shutdown"}]
        /\ shutdownTx' \in BgTasks \cup {None} /\ told' \subseteq {b \in BgTasks : pc'[b] # "none"}
        /\ \A b \in BgTasks : Running(b)' => b = shutdownTx'
    BY <1>2 DEF OneTask, StartRefused, vars, Running, OwnersInStep
  <2> QED BY <2>1, <2>2 DEF OneTask
<1>3. ASSUME NEW o \in Owners, StartChecked(o) PROVE OneTask'
  <2>1. OwnerKnows(o)'
    BY <1>3 DEF OneTask, StartChecked, vars, Running, OwnersInStep
  <2>2. /\ returned' \in [Owners -> {"none", "start", "shutdown"}]
        /\ shutdownTx' \in BgTasks \cup {None} /\ told' \subseteq {b \in BgTasks : pc'[b] # "none"}
        /\ \A b \in BgTasks : Running(b)' => b = shutdownTx'
    BY <1>3 DEF OneTask, StartChecked, vars, Running, OwnersInStep
  <2> QED BY <2>1, <2>2 DEF OneTask
<1>4. ASSUME NEW o \in Owners, StartSetTx(o) PROVE OneTask'
  <2>1. OwnerKnows(o)'
    BY <1>4 DEF OneTask, StartSetTx, vars, Running, OwnersInStep
  <2>2. /\ returned' \in [Owners -> {"none", "start", "shutdown"}]
        /\ shutdownTx' \in BgTasks \cup {None} /\ told' \subseteq {b \in BgTasks : pc'[b] # "none"}
        /\ \A b \in BgTasks : Running(b)' => b = shutdownTx'
    BY <1>4 DEF OneTask, StartSetTx, vars, Running, OwnersInStep
  <2> QED BY <2>1, <2>2 DEF OneTask
<1>5. ASSUME NEW o \in Owners, StartSpawn(o) PROVE OneTask'
  <2>1. OwnerKnows(o)'
    BY <1>5 DEF OneTask, StartSpawn, Running, OwnersInStep, TaskType, Tasks
  <2>2. /\ returned' \in [Owners -> {"none", "start", "shutdown"}]
        /\ shutdownTx' \in BgTasks \cup {None} /\ told' \subseteq {b \in BgTasks : pc'[b] # "none"}
        /\ \A b \in BgTasks : Running(b)' => b = shutdownTx'
    BY <1>5 DEF OneTask, StartSpawn, Running, OwnersInStep, TaskType, Tasks
  <2> QED BY <2>1, <2>2 DEF OneTask
<1>6. ASSUME NEW o \in Owners, StartStore(o) PROVE OneTask'
  <2>1. OwnerKnows(o)'
    BY <1>6 DEF OneTask, StartStore, vars, Running, OwnersInStep
  <2>2. /\ returned' \in [Owners -> {"none", "start", "shutdown"}]
        /\ shutdownTx' \in BgTasks \cup {None} /\ told' \subseteq {b \in BgTasks : pc'[b] # "none"}
        /\ \A b \in BgTasks : Running(b)' => b = shutdownTx'
    BY <1>6 DEF OneTask, StartStore, vars, Running, OwnersInStep
  <2> QED BY <2>1, <2>2 DEF OneTask
<1>7. ASSUME NEW o \in Owners, ShutdownSend(o) PROVE OneTask'
  <2>1. OwnerKnows(o)'
    BY <1>7 DEF OneTask, ShutdownSend, vars, Running, OwnersInStep
  <2>2. /\ returned' \in [Owners -> {"none", "start", "shutdown"}]
        /\ shutdownTx' \in BgTasks \cup {None} /\ told' \subseteq {b \in BgTasks : pc'[b] # "none"}
        /\ \A b \in BgTasks : Running(b)' => b = shutdownTx'
    BY <1>7 DEF OneTask, ShutdownSend, vars, Running, OwnersInStep
  <2> QED BY <2>1, <2>2 DEF OneTask
<1>8. ASSUME NEW o \in Owners, ShutdownTake(o) PROVE OneTask'
  <2>1. OwnerKnows(o)'
    BY <1>8 DEF OneTask, ShutdownTake, vars, Running, OwnersInStep
  <2>2. /\ returned' \in [Owners -> {"none", "start", "shutdown"}]
        /\ shutdownTx' \in BgTasks \cup {None} /\ told' \subseteq {b \in BgTasks : pc'[b] # "none"}
        /\ \A b \in BgTasks : Running(b)' => b = shutdownTx'
    BY <1>8 DEF OneTask, ShutdownTake, vars, Running, OwnersInStep
  <2> QED BY <2>1, <2>2 DEF OneTask
<1>9. ASSUME NEW o \in Owners, ShutdownJoin(o) PROVE OneTask'
  <2>1. OwnerKnows(o)'
    BY <1>9 DEF OneTask, ShutdownJoin, vars, Running, OwnersInStep
  <2>2. /\ returned' \in [Owners -> {"none", "start", "shutdown"}]
        /\ shutdownTx' \in BgTasks \cup {None} /\ told' \subseteq {b \in BgTasks : pc'[b] # "none"}
        /\ \A b \in BgTasks : Running(b)' => b = shutdownTx'
    BY <1>9 DEF OneTask, ShutdownJoin, vars, Running, OwnersInStep
  <2> QED BY <2>1, <2>2 DEF OneTask
<1>10. ASSUME NEW b \in BgTasks, TaskSignal(b) PROVE OneTask'
  <2>1. /\ returned' \in [Owners -> {"none", "start", "shutdown"}]
        /\ shutdownTx' \in BgTasks \cup {None} /\ told' \subseteq {t \in BgTasks : pc'[t] # "none"}
        /\ \A t \in BgTasks : Running(t)' => t = shutdownTx'
    BY <1>10 DEF OneTask, TaskSignal, Signalled, taskVars, Running, TaskType, Tasks
  <2>2. ASSUME NEW o \in Owners PROVE OwnerKnows(o)'
    BY <1>10 DEF OneTask, TaskSignal, Signalled, taskVars, Running, OwnersInStep, TaskType, Tasks
  <2> QED BY <2>1, <2>2 DEF OneTask
<1>11. ASSUME NEW b \in BgTasks, TaskClear(b) PROVE OneTask'
  <2>1. /\ returned' \in [Owners -> {"none", "start", "shutdown"}]
        /\ shutdownTx' \in BgTasks \cup {None} /\ told' \subseteq {t \in BgTasks : pc'[t] # "none"}
        /\ \A t \in BgTasks : Running(t)' => t = shutdownTx'
    BY <1>11 DEF OneTask, TaskClear, taskVars, Running, TaskType, Tasks
  <2>2. ASSUME NEW o \in Owners PROVE OwnerKnows(o)'
    BY <1>11 DEF OneTask, TaskClear, taskVars, Running, OwnersInStep, TaskType, Tasks
  <2> QED BY <2>1, <2>2 DEF OneTask
<1>12. CASE UNCHANGED allVars
  BY <1>12 DEF OneTask, allVars, vars, taskVars, Running
<1> QED
  BY <1>1, <1>2, <1>3, <1>4, <1>5, <1>6, <1>7, <1>8, <1>9, <1>10, <1>11, <1>12 DEF TaskNext, OwnerStep

\* src/batch.rs:141 and :228, for one owner: once start has returned a task
\* serves that nobody told to stop, and once shutdown has returned none runs.
THEOREM OneOwnersCallsTakeEffect ==
  ASSUME \A o, q \in Owners : o = q
  PROVE  TaskSpec => []CallsTakeEffect
<1>1. TaskInit => OneTask
  BY OneTaskInit
<1>2. ContentInv /\ OwnersInStep /\ OneTask /\ [TaskNext]_allVars => OneTask'
  BY OneTaskKept DEF ContentInv
<1>3. OneTask => CallsTakeEffect
  BY DEF OneTask, OwnerKnows, CallsTakeEffect, NoneRuns, Served, Serving, Signalled
<1> QED BY <1>1, <1>2, <1>3, BatcherInvariant, PTL DEF TaskSpec
=============================================================================
