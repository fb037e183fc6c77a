---------------------- MODULE MemoryAndSnapshotProofs ----------------------
(***************************************************************************)
(* Proofs about the two parts that keep changes in memory and hand them    *)
(* on.  The in-memory store implements the append-only log, and the offset *)
(* its append returns finds the change, for any number of threads and      *)
(* appends.  Snapshot transfer exports every change once and in order,     *)
(* reads a complete transfer as exactly what was exported, and never takes *)
(* an incomplete one for a snapshot, for any changes, exports and tasks    *)
(* and every chunk size.                                                   *)
(***************************************************************************)
EXTENDS MemoryChangeStore, SnapshotTransfer, FiniteSetTheorems, SequenceTheorems,
        NaturalsInduction, WellFoundedInduction, TLAPS

(* --------------------------- MemoryChangeStore -------------------------- *)

\* What both results rest on: threads hold different changes, none of them in
\* the vector; a length that was read is no longer than the vector now; a
\* change lies at or behind the offset its append returned.
StoreInv ==
  /\ begun \in 0..MaxAppends
  /\ changes \in Seq(1..begun)
  /\ hand \in [Threads -> 0..begun]
  /\ offset \in [Threads -> Nat]
  /\ returned \in [1..MaxAppends -> Nat]
  /\ \A t, u \in Threads : hand[t] # 0 /\ hand[t] = hand[u] => t = u
  /\ \A t \in Threads : \A i \in DOMAIN changes : changes[i] # hand[t]
  /\ \A t \in Threads : offset[t] <= Len(changes)
  /\ \A i \in DOMAIN changes : returned[changes[i]] < i

\* An empty vector, and no append under way.
LEMMA StoreInvInit == StoreInit => StoreInv
<1> SUFFICES ASSUME StoreInit PROVE StoreInv
    OBVIOUS
<1>1. changes = <<>> /\ begun = 0
    BY DEF StoreInit
<1>2. changes \in Seq(1..begun) /\ DOMAIN changes = {} /\ Len(changes) = 0
    BY <1>1
<1> QED
    BY <1>1, <1>2, MemoryAssumption DEF StoreInit, StoreInv

\* An append that begins takes a change no thread holds and no place has.
LEMMA BeginKeepsInv ==
  ASSUME StoreInv, NEW t \in Threads, AppendLen(t)
  PROVE  StoreInv'
<1>1. begun' \in 0..MaxAppends /\ begun' = begun + 1 /\ changes' = changes /\ returned' = returned
    BY MemoryAssumption DEF StoreInv, AppendLen
<1>2. hand' = [hand EXCEPT ![t] = begun + 1] /\ offset' = [offset EXCEPT ![t] = Len(changes)]
    BY DEF AppendLen
<1>3. changes' \in Seq(1..begun')
  <2>1. \A i \in DOMAIN changes : changes[i] \in 1..begun
      BY DEF StoreInv
  <2>2. 1..begun \subseteq 1..(begun + 1)
      BY DEF StoreInv
  <2> QED
      BY <1>1, <2>1, <2>2 DEF StoreInv
<1>4. hand' \in [Threads -> 0..begun'] /\ offset' \in [Threads -> Nat]
    BY <1>1, <1>2 DEF StoreInv
<1>5. \A u, v \in Threads : hand'[u] # 0 /\ hand'[u] = hand'[v] => u = v
    BY <1>2 DEF StoreInv
<1>6. \A u \in Threads : \A i \in DOMAIN changes' : changes'[i] # hand'[u]
  <2>1. \A i \in DOMAIN changes : changes[i] \in 1..begun
      BY DEF StoreInv
  <2> QED
      BY <1>1, <1>2, <2>1 DEF StoreInv
<1>7. \A u \in Threads : offset'[u] <= Len(changes')
    BY <1>1, <1>2 DEF StoreInv
<1>8. returned' \in [1..MaxAppends -> Nat] /\ \A i \in DOMAIN changes' : returned'[changes'[i]] < i
    BY <1>1 DEF StoreInv
<1> QED
    BY <1>1, <1>3, <1>4, <1>5, <1>6, <1>7, <1>8 DEF StoreInv

\* What a push does to the vector.
LEMMA PushExtends ==
  ASSUME StoreInv, NEW t \in Threads, AppendPush(t)
  PROVE  /\ hand[t] \in 1..begun /\ hand[t] \in 1..MaxAppends
         /\ changes' \in Seq(1..begun)
         /\ Len(changes') = Len(changes) + 1
         /\ DOMAIN changes = 1..Len(changes) /\ DOMAIN changes' = 1..(Len(changes) + 1)
         /\ \A i \in 1..Len(changes) : changes'[i] = changes[i]
         /\ changes'[Len(changes) + 1] = hand[t]
<1>1. hand[t] \in 1..begun /\ hand[t] \in 1..MaxAppends
    BY MemoryAssumption DEF StoreInv, AppendPush
<1>2. changes' = Append(changes, hand[t]) /\ changes \in Seq(1..begun)
    BY DEF AppendPush, StoreInv
<1> QED
    BY <1>1, <1>2

\* A push puts the thread's change behind the vector and empties its hand.
LEMMA PushKeepsInv ==
  ASSUME StoreInv, NEW t \in Threads, AppendPush(t)
  PROVE  StoreInv'
<1>1. begun' = begun /\ offset' = offset /\ hand' = [hand EXCEPT ![t] = 0]
      /\ returned' = [returned EXCEPT ![hand[t]] = offset[t]]
    BY DEF AppendPush
<1>2. /\ hand[t] \in 1..begun /\ hand[t] \in 1..MaxAppends
      /\ changes' \in Seq(1..begun) /\ Len(changes') = Len(changes) + 1
      /\ DOMAIN changes = 1..Len(changes) /\ DOMAIN changes' = 1..(Len(changes) + 1)
      /\ \A i \in 1..Len(changes) : changes'[i] = changes[i]
      /\ changes'[Len(changes) + 1] = hand[t]
    BY PushExtends
<1>3. Len(changes) \in Nat
    BY DEF StoreInv
<1>4. hand' \in [Threads -> 0..begun'] /\ offset' \in [Threads -> Nat]
      /\ returned' \in [1..MaxAppends -> Nat]
    BY <1>1, <1>2 DEF StoreInv
<1>5. \A u, v \in Threads : hand'[u] # 0 /\ hand'[u] = hand'[v] => u = v
    BY <1>1 DEF StoreInv
<1>6. \A i \in DOMAIN changes : changes[i] \in 1..begun /\ changes[i] # hand[t]
    BY DEF StoreInv
<1>7. \A u \in Threads : \A i \in DOMAIN changes' : changes'[i] # hand'[u]
  <2> SUFFICES ASSUME NEW u \in Threads, NEW i \in DOMAIN changes'
               PROVE  changes'[i] # hand'[u]
      OBVIOUS
  <2>1. CASE i \in 1..Len(changes)
      BY <2>1, <1>1, <1>2, <1>6 DEF StoreInv
  <2>2. CASE i = Len(changes) + 1
      BY <2>2, <1>1, <1>2 DEF StoreInv
  <2> QED
      BY <2>1, <2>2, <1>2, <1>3
<1>8. \A u \in Threads : offset'[u] <= Len(changes')
    BY <1>1, <1>2, <1>3 DEF StoreInv
<1>9. \A i \in DOMAIN changes' : returned'[changes'[i]] < i
  <2> SUFFICES ASSUME NEW i \in DOMAIN changes'
               PROVE  returned'[changes'[i]] < i
      OBVIOUS
  <2>0. begun \in 0..MaxAppends
      BY DEF StoreInv
  <2>1. CASE i \in 1..Len(changes)
    <3>1. changes'[i] = changes[i] /\ changes[i] # hand[t] /\ changes[i] \in 1..MaxAppends
        BY <2>0, <2>1, <1>2, <1>6, MemoryAssumption
    <3>2. returned'[changes[i]] = returned[changes[i]]
        BY <3>1, <1>1 DEF StoreInv
    <3> QED
        BY <2>1, <3>1, <3>2, <1>2 DEF StoreInv
  <2>2. CASE i = Len(changes) + 1
    <3>1. returned'[changes'[i]] = offset[t]
        BY <2>2, <1>1, <1>2 DEF StoreInv
    <3>2. offset[t] \in Nat /\ offset[t] <= Len(changes)
        BY DEF StoreInv
    <3> QED
        BY <2>2, <3>1, <3>2, <1>3
  <2> QED
      BY <2>1, <2>2, <1>2, <1>3
<1> QED
    BY <1>1, <1>2, <1>4, <1>5, <1>7, <1>8, <1>9 DEF StoreInv

\* Both halves of append keep the invariant.
LEMMA StoreInvStep == StoreInv /\ [StoreNext]_storeVars => StoreInv'
<1> SUFFICES ASSUME StoreInv, [StoreNext]_storeVars PROVE StoreInv'
    OBVIOUS
<1>1. CASE StoreNext
    BY <1>1, BeginKeepsInv, PushKeepsInv DEF StoreNext
<1>2. CASE UNCHANGED storeVars
    BY <1>2 DEF StoreInv, storeVars
<1> QED
    BY <1>1, <1>2

\* The invariant holds in every reachable state.
LEMMA StoreInvHolds == StoreSpec => []StoreInv
    BY StoreInvInit, StoreInvStep, PTL DEF StoreSpec

\* Whoever reads from the offset append returned gets the change
\* (MemoryChangeStore::append and get_since), whatever other appends come
\* between its two locks.
THEOREM OffsetsFindChanges == StoreSpec => []OffsetFindsChange
<1>1. StoreInv => OffsetFindsChange
  <2> SUFFICES ASSUME StoreInv, NEW i \in DOMAIN changes
               PROVE  \E j \in DOMAIN GetSince(returned[changes[i]]) :
                         GetSince(returned[changes[i]])[j] = changes[i]
      BY DEF OffsetFindsChange
  <2> DEFINE o == returned[changes[i]]
  <2>1. changes \in Seq(1..begun) /\ i \in 1..Len(changes) /\ Len(changes) \in Nat
      BY DEF StoreInv
  <2>2. changes[i] \in 1..MaxAppends
      BY <2>1, MemoryAssumption DEF StoreInv
  <2>3. o \in Nat /\ o < i
      BY <2>2 DEF StoreInv
  <2> HIDE DEF o
  <2>4. i - o \in 1..(Len(changes) - (o + 1) + 1)
      BY <2>1, <2>3
  <2>5. /\ DOMAIN SubSeq(changes, o + 1, Len(changes)) = 1..(Len(changes) - (o + 1) + 1)
        /\ SubSeq(changes, o + 1, Len(changes))[i - o] = changes[(i - o) + (o + 1) - 1]
      BY <2>1, <2>3, <2>4
  <2>6. (i - o) + (o + 1) - 1 = i
      BY <2>1, <2>3
  <2>7. i - o \in DOMAIN GetSince(o) /\ GetSince(o)[i - o] = changes[i]
      BY <2>4, <2>5, <2>6 DEF GetSince
  <2> QED
      BY <2>7 DEF o
<1> QED
    BY <1>1, StoreInvHolds, PTL

----------------------------------------------------------------------------
(* Refinement: the vector is the log, the changes in hand are waiting.     *)

\* The empty vector is the empty log.
LEMMA InitMapsToInit == StoreInit => Log!LogInit
<1> SUFFICES ASSUME StoreInit PROVE Log!LogInit
    OBVIOUS
<1>1. begun = 0 /\ changes = <<>> /\ \A t \in Threads : hand[t] = 0
    BY DEF StoreInit
<1>2. 1..begun = {} /\ {hand[t] : t \in Threads} \ {0} = {}
    BY <1>1
<1> QED
    BY <1>1, <1>2 DEF Log!LogInit

\* The first half of append accepts a change.
LEMMA BeginMapsToAccept ==
  ASSUME StoreInv, NEW t \in Threads, AppendLen(t)
  PROVE  Log!Accept(begun + 1)
<1>1. begun \in 0..MaxAppends /\ begun < MaxAppends /\ begun' = begun + 1 /\ changes' = changes
    BY DEF StoreInv, AppendLen
<1>2. begun + 1 \in (1..MaxAppends) \ (1..begun) /\ 1..begun' = (1..begun) \cup {begun + 1}
    BY <1>1, MemoryAssumption
<1>3. hand \in [Threads -> 0..begun] /\ hand[t] = 0 /\ hand' = [hand EXCEPT ![t] = begun + 1]
    BY DEF StoreInv, AppendLen
<1>4. {hand'[u] : u \in Threads} \ {0} = ({hand[u] : u \in Threads} \ {0}) \cup {begun + 1}
  <2>1. ASSUME NEW x, x \in {hand'[u] : u \in Threads} \ {0}
        PROVE  x \in ({hand[u] : u \in Threads} \ {0}) \cup {begun + 1}
      BY <2>1, <1>3
  <2>2. ASSUME NEW x \in {hand[u] : u \in Threads} \ {0}
        PROVE  x \in {hand'[u] : u \in Threads} \ {0}
    <3>1. PICK u \in Threads : x = hand[u]
        OBVIOUS
    <3>2. u # t
        BY <3>1, <1>3
    <3> QED
        BY <3>1, <3>2, <1>3
  <2>3. begun + 1 \in {hand'[u] : u \in Threads} \ {0}
      BY <1>1, <1>3
  <2> QED
      BY <2>1, <2>2, <2>3
<1> QED
    BY <1>1, <1>2, <1>4 DEF Log!Accept

\* A sequence over a set is one over every larger set.
LEMMA SequenceWidens ==
  ASSUME NEW S, NEW T, S \subseteq T, NEW s \in Seq(S)
  PROVE  s \in Seq(T)
    OBVIOUS

\* The second half of append writes the change it holds.
LEMMA PushMapsToWrite ==
  ASSUME StoreInv, NEW t \in Threads, AppendPush(t)
  PROVE  Log!Write
<1>1. /\ hand[t] \in 1..begun /\ hand[t] \in 1..MaxAppends
      /\ changes' \in Seq(1..begun) /\ Len(changes') = Len(changes) + 1
      /\ DOMAIN changes = 1..Len(changes) /\ DOMAIN changes' = 1..(Len(changes) + 1)
      /\ \A i \in 1..Len(changes) : changes'[i] = changes[i]
      /\ changes'[Len(changes) + 1] = hand[t]
    BY PushExtends
<1>2. Len(changes) \in Nat /\ begun \in 0..MaxAppends
    BY DEF StoreInv
<1>3. changes' \in Seq(1..MaxAppends)
  <2>1. 1..begun \subseteq 1..MaxAppends
      BY <1>2, MemoryAssumption
  <2> QED
      BY <1>1, <2>1, SequenceWidens
<1>4. (Len(changes) + 1)..Len(changes') = {Len(changes) + 1}
    BY <1>1, <1>2
<1>5. hand[t] \in {hand[u] : u \in Threads} \ {0}
    BY <1>1
<1>6. {hand'[u] : u \in Threads} \ {0} \subseteq ({hand[u] : u \in Threads} \ {0}) \ {hand[t]}
  <2> SUFFICES ASSUME NEW u \in Threads, hand'[u] # 0
               PROVE  hand'[u] \in {hand[v] : v \in Threads} /\ hand'[u] # hand[t]
      OBVIOUS
  <2>1. hand' = [hand EXCEPT ![t] = 0] /\ hand \in [Threads -> 0..begun] /\ hand[t] # 0
      BY DEF AppendPush, StoreInv
  <2>2. u # t /\ hand'[u] = hand[u]
      BY <2>1
  <2>3. hand[u] # hand[t]
      BY <2>1, <2>2 DEF StoreInv
  <2> QED
      BY <2>2, <2>3
<1> DEFINE new == (Len(changes) + 1)..Len(changes')
<1>7. Len(changes') >= Len(changes) /\ \A i \in 1..Len(changes) : changes'[i] = changes[i]
    BY <1>1, <1>2
<1>8. /\ \A i \in new : changes'[i] \in {hand[u] : u \in Threads} \ {0}
      /\ \A i, j \in new : changes'[i] = changes'[j] => i = j
    BY <1>1, <1>4, <1>5
<1>9. {changes'[i] : i \in new} = {hand[t]}
    BY <1>1, <1>4
<1>10. {hand'[u] : u \in Threads} \ {0}
         \subseteq ({hand[u] : u \in Threads} \ {0}) \ {changes'[i] : i \in new}
    BY <1>6, <1>9
<1>11. UNCHANGED <<1..begun, 0>>
    BY DEF AppendPush
<1> QED
    BY <1>3, <1>7, <1>8, <1>10, <1>11 DEF Log!Write

\* Every step of append is a step of the log.
LEMMA StepMapsToStep == StoreInv /\ [StoreNext]_storeVars => [Log!LogNext]_(Log!logVars)
<1> SUFFICES ASSUME StoreInv, [StoreNext]_storeVars
             PROVE  Log!LogNext \/ UNCHANGED Log!logVars
    OBVIOUS
<1>1. ASSUME NEW t \in Threads, AppendLen(t)
      PROVE  Log!LogNext
  <2>1. begun + 1 \in 1..MaxAppends
      BY <1>1, MemoryAssumption DEF StoreInv, AppendLen
  <2>2. Log!Accept(begun + 1)
      BY <1>1, BeginMapsToAccept
  <2>3. \E c \in 1..MaxAppends : Log!Accept(c)
      BY <2>1, <2>2 DEF Log!Accept
  <2> QED
      BY <2>3 DEF Log!LogNext
<1>2. ASSUME NEW t \in Threads, AppendPush(t)
      PROVE  Log!LogNext
    BY <1>2, PushMapsToWrite DEF Log!LogNext
<1>3. CASE UNCHANGED storeVars
    BY <1>3 DEF storeVars, Log!logVars
<1> QED
    BY <1>1, <1>2, <1>3 DEF StoreNext

\* The in-memory store implements the abstract log of the trait ChangeStore, for
\* any number of threads and appends: the steps of append map to Accept and
\* Write, and nothing else changes what a reader sees.
THEOREM MemoryImplementsLog == StoreSpec => ImplementsAppendLog
    BY InitMapsToInit, StepMapsToStep, StoreInvHolds, PTL
    DEF StoreSpec, ImplementsAppendLog, Log!LogSpec

(* ---------------------------- SnapshotTransfer -------------------------- *)

(* ------------------------ flattening a sequence ------------------------- *)

\* Induction on a set of numbers.
LEMMA SetInduction ==
  ASSUME NEW T, NEW m \in Nat, 0 \in T, \A i \in 0..(m - 1) : i \in T => i + 1 \in T
  PROVE  m \in T
<1> DEFINE B == {i \in 0..m : i \notin T}
           R == {ss \in Nat \X Nat : ss[1] < ss[2]}
<1>1. SUFFICES ASSUME m \notin T PROVE FALSE
  OBVIOUS
<1>2. IsWellFoundedOn(R, Nat)
  BY NatLessThanWellFounded DEF OpToRel
<1>3. \A x, y \in Nat : ~ (<<y, x>> \in R) => x <= y
  OBVIOUS
<1>4. B \subseteq Nat /\ B # {}
  BY <1>1
<1> HIDE DEF R
<1>5. PICK x \in B : \A y \in B : ~ (<<y, x>> \in R)
  BY <1>2, <1>4, WFMin
<1>6. x \in 1..m /\ x \notin T /\ x - 1 \in 0..(m - 1)
  BY <1>5
<1>7. x - 1 \notin B
  <2>1. x \in Nat /\ x - 1 \in Nat /\ ~(x <= x - 1)
    BY <1>6
  <2>2. <<x - 1, x>> \in R
    BY <2>1, <1>3
  <2> QED BY <2>2, <1>5
<1>8. x - 1 \in T
  BY <1>6, <1>7
<1>9. (x - 1) + 1 \in T
  BY <1>6, <1>8
<1> QED BY <1>6, <1>9

\* What FlattenSeq has put together after each member of s.
Flattening(s, n, f) == f = [i \in 1..n |-> IF i = 1 THEN s[i] ELSE f[i - 1] \o s[i]]

\* There is such a function: the recursion of FlattenSeq is well founded.
LEMMA FlatteningExists ==
  ASSUME NEW S, NEW s \in Seq(Seq(S)), NEW m \in 0..Len(s)
  PROVE  \E f \in [1..m -> Seq(S)] : Flattening(s, m, f)
<1> DEFINE P(i) == \E f \in [1..i -> Seq(S)] : Flattening(s, i, f)
           T == {i \in 0..Len(s) : P(i)}
<1>1. Len(s) \in Nat /\ \A i \in 1..Len(s) : s[i] \in Seq(S)
  BY ElementOfSeq, LenProperties
<1>2. 0 \in T
  <2>1. 1..0 = {}
    OBVIOUS
  <2> DEFINE g == [i \in 1..0 |-> <<>>]
  <2>2. g \in [1..0 -> Seq(S)] /\ Flattening(s, 0, g)
    BY <2>1 DEF Flattening
  <2> HIDE DEF g
  <2>3. P(0)
    BY <2>2
  <2> HIDE DEF P
  <2> QED BY <1>1, <2>3
<1>3. ASSUME NEW i \in 0..(m - 1), i \in T PROVE i + 1 \in T
  <2>1. PICK f \in [1..i -> Seq(S)] : Flattening(s, i, f)
    BY <1>3
  <2>2. \A k \in 1..i : f[k] = IF k = 1 THEN s[k] ELSE f[k - 1] \o s[k]
    BY <2>1 DEF Flattening
  <2> DEFINE last == IF i + 1 = 1 THEN s[i + 1] ELSE f[i] \o s[i + 1]
             g == [k \in 1..(i + 1) |-> IF k = i + 1 THEN last ELSE f[k]]
  <2>3. i \in Nat /\ i + 1 \in 1..Len(s) /\ (i + 1 # 1 => i \in 1..i)
    BY <1>1
  <2>4. last \in Seq(S)
    <3>1. s[i + 1] \in Seq(S) /\ (i + 1 # 1 => f[i] \in Seq(S))
      BY <1>1, <2>1, <2>3
    <3> QED BY <3>1, ConcatProperties
  <2> HIDE DEF last
  <2>5. g \in [1..(i + 1) -> Seq(S)]
    BY <2>3, <2>4
  <2>6. ASSUME NEW k \in 1..(i + 1)
        PROVE  g[k] = IF k = 1 THEN s[k] ELSE g[k - 1] \o s[k]
    <3>1. CASE k = i + 1
      <4>1. g[k] = last /\ (k # 1 => g[k - 1] = f[i])
        BY <2>3, <3>1
      <4> QED BY <4>1, <3>1 DEF last
    <3>2. CASE k # i + 1
      <4>1. k \in 1..i /\ (k # 1 => k - 1 \in 1..i /\ k - 1 # i + 1)
        BY <2>3, <3>2
      <4>2. g[k] = f[k] /\ (k # 1 => g[k - 1] = f[k - 1])
        BY <4>1, <2>3
      <4> QED BY <4>1, <4>2, <2>2
    <3> QED BY <3>1, <3>2
  <2>7. Flattening(s, i + 1, g)
    <3> HIDE DEF g
    <3> QED BY <2>5, <2>6 DEF Flattening
  <2> QED BY <2>3, <2>5, <2>7
<1> HIDE DEF T
<1>4. m \in T
  BY <1>1, <1>2, <1>3, SetInduction
<1> QED BY <1>4 DEF T

\* FlattenSeq(s) is the last value of such a function.
LEMMA FlattenIs ==
  ASSUME NEW S, NEW s \in Seq(Seq(S)), s # <<>>
  PROVE  \E f \in [1..Len(s) -> Seq(S)] :
           /\ FlattenSeq(s) = f[Len(s)]
           /\ \A i \in 1..Len(s) : f[i] = IF i = 1 THEN s[i] ELSE f[i - 1] \o s[i]
<1>1. Len(s) \in Nat \ {0}
  BY LenProperties, EmptySeq
<1>2. PICK g \in [1..Len(s) -> Seq(S)] : Flattening(s, Len(s), g)
  <2>1. Len(s) \in 0..Len(s)
    BY <1>1
  <2>2. \A m \in 0..Len(s) : \E f \in [1..m -> Seq(S)] : Flattening(s, m, f)
    BY FlatteningExists
  <2> QED BY <2>1, <2>2
<1>3. PICK f : /\ f = [i \in 1..Len(s) |-> IF i = 1 THEN s[i] ELSE f[i - 1] \o s[i]]
               /\ FlattenSeq(s) = f[Len(s)]
  <2>1. g = [i \in 1..Len(s) |-> IF i = 1 THEN s[i] ELSE g[i - 1] \o s[i]]
    BY <1>2 DEF Flattening
  <2> QED BY <1>1, <2>1 DEF FlattenSeq
<1> DEFINE T == {i \in 0..Len(s) : i = 0 \/ f[i] \in Seq(S)}
<1>4. \A i \in 1..Len(s) : f[i] = IF i = 1 THEN s[i] ELSE f[i - 1] \o s[i]
  BY <1>3
<1>5. \A i \in 1..Len(s) : s[i] \in Seq(S)
  BY ElementOfSeq
<1>6. ASSUME NEW n \in 1..Len(s) PROVE f[n] \in Seq(S)
  <2>1. 0 \in T
    BY <1>1
  <2>2. ASSUME NEW i \in 0..(n - 1), i \in T PROVE i + 1 \in T
    <3>1. i + 1 \in 1..Len(s) /\ (i + 1 # 1 => i \in 1..Len(s) /\ (i + 1) - 1 = i)
      BY <1>1
    <3>2. f[i + 1] = IF i + 1 = 1 THEN s[i + 1] ELSE f[i] \o s[i + 1]
      BY <1>4, <3>1
    <3>3. f[i + 1] \in Seq(S)
      <4>1. s[i + 1] \in Seq(S) /\ (i + 1 # 1 => f[i] \in Seq(S))
        BY <1>5, <3>1, <2>2
      <4> QED BY <3>2, <4>1, ConcatProperties
    <3> QED BY <3>1, <3>3
  <2> HIDE DEF T
  <2>3. n \in T
    BY <2>1, <2>2, SetInduction, <1>1
  <2> QED BY <2>3, <1>1 DEF T
<1>7. f \in [1..Len(s) -> Seq(S)]
  BY <1>3, <1>6
<1> QED BY <1>3, <1>4, <1>7

\* Nothing flattens to nothing.
LEMMA FlattenEmpty == FlattenSeq(<<>>) = <<>>
BY DEF FlattenSeq

\* A sequence of sequences flattens to a sequence.
LEMMA FlattenType ==
  ASSUME NEW S, NEW s \in Seq(Seq(S))
  PROVE  FlattenSeq(s) \in Seq(S)
<1>1. CASE s = <<>>
  BY <1>1, FlattenEmpty, EmptySeq
<1>2. CASE s # <<>>
  <2>1. PICK f \in [1..Len(s) -> Seq(S)] : FlattenSeq(s) = f[Len(s)]
    BY <1>2, FlattenIs
  <2>2. Len(s) \in 1..Len(s)
    BY <1>2, LenProperties, EmptySeq
  <2> QED BY <2>1, <2>2
<1> QED BY <1>1, <1>2

\* One more member is appended to what the others flatten to.
LEMMA FlattenAppend ==
  ASSUME NEW S, NEW s \in Seq(Seq(S)), NEW x \in Seq(S)
  PROVE  /\ Append(s, x) \in Seq(Seq(S))
         /\ FlattenSeq(Append(s, x)) = FlattenSeq(s) \o x
<1> DEFINE n == Len(s)
           r == Append(s, x)
<1>1. /\ n \in Nat /\ r \in Seq(Seq(S)) /\ r # <<>> /\ Len(r) = n + 1
      /\ \A i \in 1..n : r[i] = s[i]
      /\ r[n + 1] = x
  BY AppendProperties, LenProperties
<1> HIDE DEF n, r
<1>2. PICK g \in [1..(n + 1) -> Seq(S)] :
        /\ FlattenSeq(r) = g[n + 1]
        /\ \A i \in 1..(n + 1) : g[i] = IF i = 1 THEN r[i] ELSE g[i - 1] \o r[i]
  <2>1. \E g \in [1..Len(r) -> Seq(S)] :
          /\ FlattenSeq(r) = g[Len(r)]
          /\ \A i \in 1..Len(r) : g[i] = IF i = 1 THEN r[i] ELSE g[i - 1] \o r[i]
    BY <1>1, FlattenIs, ZenonT(60)
  <2>2. Len(r) = n + 1
    BY <1>1
  <2> QED BY <2>1, <2>2
<1>3. CASE s = <<>>
  <2>1. n = 0
    BY <1>3 DEF n
  <2>2. g[1] = r[1] /\ r[1] = x
    BY <1>1, <1>2, <2>1
  <2>3. <<>> \o x = x
    BY ConcatEmptySeq
  <2> QED BY <1>1, <1>2, <1>3, <2>1, <2>2, <2>3, FlattenEmpty DEF r
<1>4. CASE s # <<>>
  <2>1. PICK f \in [1..n -> Seq(S)] :
          /\ FlattenSeq(s) = f[n]
          /\ \A i \in 1..n : f[i] = IF i = 1 THEN s[i] ELSE f[i - 1] \o s[i]
    BY <1>4, FlattenIs DEF n
  <2>2. n \in Nat \ {0}
    BY <1>4, LenProperties, EmptySeq DEF n
  <2> DEFINE T == {i \in 0..n : i = 0 \/ g[i] = f[i]}
  <2>3. 0 \in T
    BY <2>2
  <2>4. ASSUME NEW i \in 0..(n - 1), i \in T PROVE i + 1 \in T
    <3>1. i + 1 \in 1..n /\ i + 1 \in 1..(n + 1) /\ (i + 1) - 1 = i
      BY <2>2
    <3>2. f[i + 1] = IF i + 1 = 1 THEN s[i + 1] ELSE f[i] \o s[i + 1]
      BY <2>1, <3>1
    <3>3. g[i + 1] = IF i + 1 = 1 THEN r[i + 1] ELSE g[i] \o r[i + 1]
      BY <1>2, <3>1
    <3>4. r[i + 1] = s[i + 1] /\ (i + 1 # 1 => g[i] = f[i])
      BY <1>1, <2>4, <3>1
    <3> QED BY <3>1, <3>2, <3>3, <3>4
  <2> HIDE DEF T
  <2>5. n \in T
    BY <2>2, <2>3, <2>4, SetInduction
  <2>6. g[n] = f[n]
    BY <2>2, <2>5 DEF T
  <2>7. g[n + 1] = g[n] \o r[n + 1]
    <3>1. n + 1 \in 1..(n + 1) /\ n + 1 # 1 /\ (n + 1) - 1 = n
      BY <2>2
    <3> QED BY <1>2, <3>1
  <2> QED BY <1>1, <1>2, <2>1, <2>6, <2>7 DEF r
<1> QED BY <1>3, <1>4

\* The first m members, and one more of them.
LEMMA FlattenSub ==
  ASSUME NEW S, NEW s \in Seq(Seq(S)), NEW m \in 0..(Len(s) - 1)
  PROVE  /\ SubSeq(s, 1, m) \in Seq(Seq(S)) /\ SubSeq(s, 1, m + 1) \in Seq(Seq(S))
         /\ s[m + 1] \in Seq(S)
         /\ FlattenSeq(SubSeq(s, 1, m + 1)) = FlattenSeq(SubSeq(s, 1, m)) \o s[m + 1]
<1>1. Len(s) \in Nat /\ m \in Nat /\ m + 1 \in 1..Len(s)
  BY LenProperties
<1>2. SubSeq(s, 1, m) \in Seq(Seq(S)) /\ SubSeq(s, 1, m + 1) \in Seq(Seq(S))
  BY <1>1
<1>3. s[m + 1] \in Seq(S)
  BY <1>1, ElementOfSeq
<1>4. SubSeq(s, 1, m + 1) = Append(SubSeq(s, 1, m), s[m + 1])
  BY <1>1
<1> QED BY <1>2, <1>3, <1>4, FlattenAppend

\* All members are the first Len(s).
LEMMA FlattenFull ==
  ASSUME NEW S, NEW s \in Seq(Seq(S))
  PROVE  /\ SubSeq(s, 1, Len(s)) = s /\ SubSeq(s, 1, 0) = <<>> /\ Len(s) \in Nat
         /\ FlattenSeq(SubSeq(s, 1, 0)) = <<>>
<1>1. SubSeq(s, 1, Len(s)) = s /\ Len(s) \in Nat
  BY LenProperties, SubSeqFull
<1>2. SubSeq(s, 1, 0) = <<>>
  BY SubSeqEmpty
<1> QED BY <1>1, <1>2, FlattenEmpty

\* What the first m members flatten to, the whole begins with.
LEMMA FlattenPrefix ==
  ASSUME NEW S, NEW s \in Seq(Seq(S)), NEW m \in 0..Len(s)
  PROVE  \E t \in Seq(S) : FlattenSeq(s) = FlattenSeq(SubSeq(s, 1, m)) \o t
<1> DEFINE a == FlattenSeq(SubSeq(s, 1, m))
           P(k) == \E t \in Seq(S) : FlattenSeq(SubSeq(s, 1, m + k)) = a \o t
           T == {k \in 0..(Len(s) - m) : P(k)}
<1>1. Len(s) \in Nat /\ m \in Nat /\ Len(s) - m \in Nat
  BY LenProperties
<1>2. a \in Seq(S)
  <2>1. SubSeq(s, 1, m) \in Seq(Seq(S))
    BY <1>1
  <2> QED BY <2>1, FlattenType
<1>3. 0 \in T
  <2>1. m + 0 = m /\ a \o <<>> = a /\ <<>> \in Seq(S)
    BY <1>1, <1>2, ConcatEmptySeq, EmptySeq
  <2>2. P(0)
    BY <2>1
  <2> HIDE DEF P
  <2> QED BY <1>1, <2>2
<1>4. ASSUME NEW k \in 0..((Len(s) - m) - 1), k \in T PROVE k + 1 \in T
  <2>1. PICK t \in Seq(S) : FlattenSeq(SubSeq(s, 1, m + k)) = a \o t
    BY <1>4
  <2>2. m + k \in 0..(Len(s) - 1) /\ (m + k) + 1 = m + (k + 1) /\ k + 1 \in 0..(Len(s) - m)
    BY <1>1
  <2> DEFINE x == s[(m + k) + 1]
  <2>3. x \in Seq(S) /\ FlattenSeq(SubSeq(s, 1, (m + k) + 1)) = FlattenSeq(SubSeq(s, 1, m + k)) \o x
    BY <2>2, FlattenSub
  <2> HIDE DEF x, a
  <2>4. \E u \in Seq(S) : (a \o t) \o x = a \o u
    <3>1. a \in Seq(S) /\ x \in Seq(S) /\ t \in Seq(S)
      BY <1>2, <2>3
    <3>2. t \o x \in Seq(S)
      BY <3>1
    <3>3. (a \o t) \o x = a \o (t \o x)
      BY <3>1, SMTT(60)
    <3> QED BY <3>2, <3>3
  <2>5. P(k + 1)
    BY <2>1, <2>2, <2>3, <2>4
  <2> HIDE DEF P
  <2> QED BY <2>2, <2>5
<1> HIDE DEF T
<1>5. Len(s) - m \in T
  BY <1>1, <1>3, <1>4, SetInduction
<1>6. m + (Len(s) - m) = Len(s)
  BY <1>1
<1> HIDE DEF a
<1>7. \E t \in Seq(S) : FlattenSeq(SubSeq(s, 1, Len(s))) = a \o t
  BY <1>5, <1>6 DEF T
<1> QED BY <1>7, FlattenFull DEF a

\* A sequence of which only the k-th member may not be empty flattens to it.
LEMMA FlattenOne ==
  ASSUME NEW S, NEW s \in Seq(Seq(S)), NEW k \in 1..Len(s),
         \A i \in 1..Len(s) : i # k => s[i] = <<>>
  PROVE  FlattenSeq(s) = s[k]
<1> DEFINE T == {m \in 0..Len(s) : FlattenSeq(SubSeq(s, 1, m)) = IF m < k THEN <<>> ELSE s[k]}
<1>1. Len(s) \in Nat /\ s[k] \in Seq(S)
  BY LenProperties, ElementOfSeq
<1>2. 0 \in T
  BY <1>1, FlattenFull
<1>3. ASSUME NEW m \in 0..(Len(s) - 1), m \in T PROVE m + 1 \in T
  <2>1. /\ FlattenSeq(SubSeq(s, 1, m + 1)) = FlattenSeq(SubSeq(s, 1, m)) \o s[m + 1]
        /\ s[m + 1] \in Seq(S)
    BY <1>1, FlattenSub
  <2>2. FlattenSeq(SubSeq(s, 1, m)) = IF m < k THEN <<>> ELSE s[k]
    BY <1>3
  <2>3. m + 1 \in 1..Len(s) /\ m + 1 \in 0..Len(s)
    BY <1>1
  <2>4. <<>> \o s[k] = s[k] /\ s[k] \o <<>> = s[k] /\ <<>> \o <<>> = <<>>
    BY <1>1, ConcatEmptySeq, EmptySeq
  <2>5. CASE m + 1 < k
    <3>1. s[m + 1] = <<>> /\ m < k /\ m + 1 < k
      BY <2>3, <2>5
    <3> QED BY <2>1, <2>2, <2>3, <2>4, <3>1
  <2>6. CASE m + 1 = k
    <3>1. s[m + 1] = s[k] /\ m < k /\ ~(m + 1 < k)
      BY <2>3, <2>6
    <3> QED BY <2>1, <2>2, <2>3, <2>4, <3>1
  <2>7. CASE m + 1 > k
    <3>1. s[m + 1] = <<>> /\ ~(m < k) /\ ~(m + 1 < k)
      BY <2>3, <2>7
    <3> QED BY <2>1, <2>2, <2>3, <2>4, <3>1
  <2> QED BY <2>5, <2>6, <2>7, <1>1
<1> HIDE DEF T
<1>4. Len(s) \in T
  BY <1>1, <1>2, <1>3, SetInduction
<1>5. FlattenSeq(SubSeq(s, 1, Len(s))) = s[k]
  BY <1>1, <1>4 DEF T
<1> QED BY <1>5, FlattenFull

\* A sequence of empty sequences flattens to nothing.
LEMMA FlattenNone ==
  ASSUME NEW S, NEW s \in Seq(Seq(S)), \A i \in 1..Len(s) : s[i] = <<>>
  PROVE  FlattenSeq(s) = <<>>
<1>1. CASE s = <<>>
  BY <1>1, FlattenEmpty
<1>2. CASE s # <<>>
  <2>1. 1 \in 1..Len(s)
    BY <1>2, LenProperties, EmptySeq
  <2> QED BY <2>1, FlattenOne
<1> QED BY <1>1, <1>2

(* ------------------------------- the exporter ---------------------------- *)

\* What a change adds to the entries of database d of namespace n.
Entry(c, n, d) == IF Namespace[c] = n /\ Database[c] = d THEN <<c>> ELSE <<>>

\* The entries of a database are changes, in a sequence of one or none for each.
LEMMA EntriesAre ==
  ASSUME NEW s \in Seq(Changes), NEW n, NEW d
  PROVE  /\ [i \in DOMAIN s |-> Entry(s[i], n, d)] \in Seq(Seq(Changes))
         /\ Entries(s, n, d) = FlattenSeq([i \in DOMAIN s |-> Entry(s[i], n, d)])
         /\ Entries(s, n, d) \in Seq(Changes)
<1>1. Len(s) \in Nat /\ DOMAIN s = 1..Len(s) /\ \A i \in 1..Len(s) : s[i] \in Changes
  BY LenProperties, ElementOfSeq
<1>2. \A c \in Changes : Entry(c, n, d) \in Seq(Changes)
  BY DEF Entry
<1>3. [i \in DOMAIN s |-> Entry(s[i], n, d)] \in Seq(Seq(Changes))
  BY <1>1, <1>2, IsASeq
<1>4. Entries(s, n, d) = FlattenSeq([i \in DOMAIN s |-> Entry(s[i], n, d)])
  BY DEF Entries, Entry
<1> QED BY <1>3, <1>4, FlattenType

\* One more change comes last.
LEMMA EntriesAppend ==
  ASSUME NEW s \in Seq(Changes), NEW c \in Changes, NEW n, NEW d
  PROVE  Entries(Append(s, c), n, d) = Entries(s, n, d) \o Entry(c, n, d)
<1> DEFINE r == Append(s, c)
           f == [i \in DOMAIN s |-> Entry(s[i], n, d)]
           g == [i \in DOMAIN r |-> Entry(r[i], n, d)]
<1>1. /\ Len(s) \in Nat /\ DOMAIN s = 1..Len(s) /\ DOMAIN r = 1..(Len(s) + 1)
      /\ \A i \in 1..Len(s) : r[i] = s[i]
      /\ r[Len(s) + 1] = c /\ r \in Seq(Changes)
  BY LenProperties, AppendProperties
<1> HIDE DEF r
<1>2. f \in Seq(Seq(Changes)) /\ Entries(s, n, d) = FlattenSeq(f)
  BY EntriesAre
<1>3. g \in Seq(Seq(Changes)) /\ Entries(r, n, d) = FlattenSeq(g)
  BY <1>1, EntriesAre
<1>4. Entry(c, n, d) \in Seq(Changes)
  BY DEF Entry
<1>5. DOMAIN f = 1..Len(s) /\ Len(f) = Len(s) /\ DOMAIN g = 1..(Len(s) + 1)
  BY <1>1, <1>2
<1>6. g = Append(f, Entry(c, n, d))
  <2>1. \A i \in 1..Len(s) : g[i] = f[i]
    BY <1>1
  <2>2. g[Len(s) + 1] = Entry(c, n, d)
    BY <1>1
  <2>3. Len(g) = Len(s) + 1
    BY <1>5, <1>1, <1>3
  <2> HIDE DEF f, g
  <2> QED BY <1>1, <1>2, <1>3, <1>4, <1>5, <2>1, <2>2, <2>3
<1> HIDE DEF f, g
<1>7. FlattenSeq(g) = FlattenSeq(f) \o Entry(c, n, d)
  BY <1>2, <1>4, <1>6, FlattenAppend
<1> QED BY <1>2, <1>3, <1>7 DEF r

\* A database none of the changes belongs to has no entries.
LEMMA EntriesNone ==
  ASSUME NEW s \in Seq(Changes), NEW n, NEW d,
         \A c \in Range(s) : ~(Namespace[c] = n /\ Database[c] = d)
  PROVE  Entries(s, n, d) = <<>>
<1> DEFINE f == [i \in DOMAIN s |-> Entry(s[i], n, d)]
<1>1. f \in Seq(Seq(Changes)) /\ Entries(s, n, d) = FlattenSeq(f)
  BY EntriesAre
<1>2. \A i \in DOMAIN s : f[i] = <<>>
  BY DEF Entry, Range
<1>3. DOMAIN f = 1..Len(f) /\ DOMAIN f = DOMAIN s
  BY <1>1
<1> HIDE DEF f
<1> QED BY <1>1, <1>2, <1>3, FlattenNone

\* No changes, no entries.
LEMMA EntriesEmpty ==
  ASSUME NEW n, NEW d
  PROVE  Entries(<<>>, n, d) = <<>>
<1>1. Range(<<>>) = {}
  BY DEF Range
<1>2. <<>> \in Seq(Changes)
  OBVIOUS
<1> QED BY <1>1, <1>2, EntriesNone

\* The namespaces of some changes, and the databases of a namespace, are finitely
\* many.
LEMMA NamesFinite ==
  ASSUME NEW s \in Seq(Changes), NEW n
  PROVE  IsFiniteSet(NamespacesOf(s)) /\ IsFiniteSet(DatabasesOf(s, n))
<1>1. Range(s) \subseteq Changes
  BY DEF Range
<1>2. IsFiniteSet(Range(s))
  BY <1>1, FS_Subset, SnapshotAssumption
<1>3. IsFiniteSet(NamespacesOf(s))
  <2> DEFINE f == [c \in Range(s) |-> Namespace[c]]
  <2>1. f \in Surjection(Range(s), NamespacesOf(s))
    BY DEF Surjection, NamespacesOf
  <2> HIDE DEF f
  <2> QED BY <1>2, <2>1, FS_Surjection
<1>4. IsFiniteSet(DatabasesOf(s, n))
  <2> DEFINE X == {x \in Range(s) : Namespace[x] = n}
             f == [c \in X |-> Database[c]]
  <2>1. f \in Surjection(X, DatabasesOf(s, n))
    BY DEF Surjection, DatabasesOf
  <2>2. IsFiniteSet(X)
    BY <1>2, FS_Subset
  <2> HIDE DEF f, X
  <2> QED BY <2>1, <2>2, FS_Surjection
<1> QED BY <1>3, <1>4

\* An order of a finite set has every member in one place.
LEMMA OrderIs ==
  ASSUME NEW S, IsFiniteSet(S), NEW f \in SetToSeqs(S)
  PROVE  /\ f \in Seq(S) /\ DOMAIN f = 1..Len(f) /\ Len(f) \in Nat
         /\ \A i \in DOMAIN f : f[i] \in S
         /\ \A i, j \in DOMAIN f : f[i] = f[j] => i = j
         /\ \A x \in S : \E i \in DOMAIN f : f[i] = x
<1> DEFINE n == Cardinality(S)
<1>1. n \in Nat
  BY FS_CardinalityType
<1> HIDE DEF n
<1>2. f \in [1..n -> S] /\ \A i, j \in 1..n : i # j => f[i] # f[j]
  BY DEF SetToSeqs, n
<1>3. f \in Seq(S) /\ DOMAIN f = 1..Len(f) /\ Len(f) = n /\ DOMAIN f = 1..n
  BY <1>1, <1>2
<1>4. f \in Injection(1..n, S)
  BY <1>2 DEF Injection, IsInjective
<1>5. IsFiniteSet(1..n) /\ Cardinality(1..n) = n
  BY <1>1, FS_Interval
<1>6. f \in Surjection(1..n, S)
  BY <1>4, <1>5, FS_Injection DEF n
<1>7. \A x \in S : \E i \in 1..n : f[i] = x
  BY <1>6 DEF Surjection
<1> QED BY <1>1, <1>2, <1>3, <1>7

\* The databases of a namespace in a snapshot: each once, with its entries.
LEMMA GroupIs ==
  ASSUME NEW s \in Seq(Changes), NEW n, NEW g \in Groups(s, n)
  PROVE  \E ds \in SetToSeqs(DatabasesOf(s, n)) :
           /\ g.name = n /\ DOMAIN g.databases = DOMAIN ds
           /\ \A j \in DOMAIN ds : /\ g.databases[j].name = ds[j]
                                   /\ g.databases[j].entries = Entries(s, n, ds[j])
BY DEF Groups

\* The namespaces of a snapshot: each once, with its databases.
LEMMA SnapshotIs ==
  ASSUME NEW s \in Seq(Changes), NEW x \in Snapshots(s)
  PROVE  /\ x.checksum = Checksum(x.namespaces)
         /\ \E ns \in SetToSeqs(NamespacesOf(s)) :
              /\ DOMAIN x.namespaces = DOMAIN ns
              /\ \A i \in DOMAIN ns : x.namespaces[i] \in Groups(s, ns[i])
<1> DEFINE Lists(ns) == {l \in [DOMAIN ns -> UNION {Groups(s, n) : n \in Range(ns)}] :
                           \A i \in DOMAIN ns : l[i] \in Groups(s, ns[i])}
<1>1. PICK l \in UNION {Lists(ns) : ns \in SetToSeqs(NamespacesOf(s))} :
        x = [namespaces |-> l, checksum |-> Checksum(l)]
  BY DEF Snapshots
<1>2. PICK ns \in SetToSeqs(NamespacesOf(s)) : l \in Lists(ns)
  BY <1>1
<1>3. x.namespaces = l /\ x.checksum = Checksum(l)
  BY <1>1
<1>4. DOMAIN l = DOMAIN ns /\ \A i \in DOMAIN ns : l[i] \in Groups(s, ns[i])
  BY <1>2
<1> QED BY <1>3, <1>4

\* A namespace of a snapshot has the entries of each of its databases.
LEMMA GroupHasEntries ==
  ASSUME NEW s \in Seq(Changes), NEW n, NEW g \in Groups(s, n), NEW d
  PROVE  FlattenSeq([j \in DOMAIN g.databases |->
           IF g.databases[j].name = d THEN g.databases[j].entries ELSE <<>>]) = Entries(s, n, d)
<1>1. PICK ds \in SetToSeqs(DatabasesOf(s, n)) :
        /\ DOMAIN g.databases = DOMAIN ds
        /\ \A j \in DOMAIN ds : /\ g.databases[j].name = ds[j]
                                /\ g.databases[j].entries = Entries(s, n, ds[j])
  BY GroupIs
<1> DEFINE f == [j \in DOMAIN g.databases |->
                   IF g.databases[j].name = d THEN g.databases[j].entries ELSE <<>>]
<1>2. /\ DOMAIN ds = 1..Len(ds) /\ Len(ds) \in Nat
      /\ \A i \in DOMAIN ds : ds[i] \in DatabasesOf(s, n)
      /\ \A i, j \in DOMAIN ds : ds[i] = ds[j] => i = j
      /\ \A x \in DatabasesOf(s, n) : \E i \in DOMAIN ds : ds[i] = x
  BY NamesFinite, OrderIs
<1>3. Entries(s, n, d) \in Seq(Changes) /\ <<>> \in Seq(Changes)
  <2>1. Entries(s, n, d) \in Seq(Changes)
    BY EntriesAre
  <2> QED BY <2>1
<1>4. \A j \in 1..Len(ds) : f[j] = IF ds[j] = d THEN Entries(s, n, d) ELSE <<>>
  BY <1>1, <1>2
<1>5. DOMAIN f = 1..Len(ds)
  BY <1>1, <1>2
<1>6. f = [j \in 1..Len(ds) |-> IF ds[j] = d THEN Entries(s, n, d) ELSE <<>>]
  BY <1>1, <1>2
<1> HIDE DEF f
<1>7. f \in Seq(Seq(Changes)) /\ Len(f) = Len(ds)
  <2>1. f \in [1..Len(ds) -> Seq(Changes)]
    BY <1>3, <1>6
  <2> QED BY <2>1, <1>2
<1>8. CASE d \in DatabasesOf(s, n)
  <2>1. PICK k \in 1..Len(ds) : ds[k] = d
    BY <1>2, <1>8
  <2>2. f[k] = Entries(s, n, d) /\ \A i \in 1..Len(f) : i # k => f[i] = <<>>
    BY <1>2, <1>4, <1>7, <2>1
  <2>3. FlattenSeq(f) = f[k]
    BY <1>7, <2>1, <2>2, FlattenOne
  <2> QED BY <2>2, <2>3 DEF f
<1>9. CASE d \notin DatabasesOf(s, n)
  <2>1. \A i \in 1..Len(f) : f[i] = <<>>
    BY <1>2, <1>4, <1>7, <1>9
  <2>2. FlattenSeq(f) = <<>>
    BY <1>7, <2>1, FlattenNone
  <2>3. Entries(s, n, d) = <<>>
    <3>1. \A c \in Range(s) : ~(Namespace[c] = n /\ Database[c] = d)
      BY <1>9 DEF DatabasesOf
    <3> QED BY <3>1, EntriesNone
  <2> QED BY <2>2, <2>3 DEF f
<1> QED BY <1>8, <1>9

\* A snapshot of some changes has, of every database, exactly their entries.
LEMMA SnapshotHasEntries ==
  ASSUME NEW s \in Seq(Changes), NEW x \in Snapshots(s), NEW n, NEW d
  PROVE  EntriesIn(x, n, d) = Entries(s, n, d)
<1>1. PICK ns \in SetToSeqs(NamespacesOf(s)) :
        /\ DOMAIN x.namespaces = DOMAIN ns
        /\ \A i \in DOMAIN ns : x.namespaces[i] \in Groups(s, ns[i])
  BY SnapshotIs
<1>2. /\ DOMAIN ns = 1..Len(ns) /\ Len(ns) \in Nat
      /\ \A i \in DOMAIN ns : ns[i] \in NamespacesOf(s)
      /\ \A i, j \in DOMAIN ns : ns[i] = ns[j] => i = j
      /\ \A y \in NamespacesOf(s) : \E i \in DOMAIN ns : ns[i] = y
  BY NamesFinite, OrderIs
<1> DEFINE In(g) == FlattenSeq([j \in DOMAIN g.databases |->
                      IF g.databases[j].name = d THEN g.databases[j].entries ELSE <<>>])
           f == [i \in DOMAIN x.namespaces |->
                   IF x.namespaces[i].name # n THEN <<>> ELSE In(x.namespaces[i])]
<1>3. EntriesIn(x, n, d) = FlattenSeq(f)
  BY DEF EntriesIn
<1>4. ASSUME NEW i \in DOMAIN ns
      PROVE  x.namespaces[i].name = ns[i] /\ In(x.namespaces[i]) = Entries(s, ns[i], d)
  <2> DEFINE g == x.namespaces[i]
  <2>1. g \in Groups(s, ns[i])
    BY <1>1
  <2> HIDE DEF g
  <2>2. g.name = ns[i] /\ In(g) = Entries(s, ns[i], d)
    BY <2>1, GroupIs, GroupHasEntries
  <2> QED BY <2>2 DEF g
<1> HIDE DEF In
<1>5. \A i \in 1..Len(ns) : f[i] = IF ns[i] = n THEN Entries(s, n, d) ELSE <<>>
  BY <1>1, <1>2, <1>4
<1>6. DOMAIN f = 1..Len(ns)
  BY <1>1, <1>2
<1>7. f = [i \in 1..Len(ns) |-> IF ns[i] = n THEN Entries(s, n, d) ELSE <<>>]
  BY <1>1, <1>2, <1>4
<1> HIDE DEF f
<1>8. Entries(s, n, d) \in Seq(Changes) /\ <<>> \in Seq(Changes)
  <2>1. Entries(s, n, d) \in Seq(Changes)
    BY EntriesAre
  <2> QED BY <2>1
<1>9. f \in Seq(Seq(Changes)) /\ Len(f) = Len(ns)
  <2>1. f \in [1..Len(ns) -> Seq(Changes)]
    BY <1>7, <1>8
  <2> QED BY <2>1, <1>2
<1>10. CASE n \in NamespacesOf(s)
  <2>1. PICK k \in 1..Len(ns) : ns[k] = n
    BY <1>2, <1>10
  <2>2. f[k] = Entries(s, n, d) /\ \A i \in 1..Len(f) : i # k => f[i] = <<>>
    BY <1>2, <1>5, <1>9, <2>1
  <2>3. FlattenSeq(f) = f[k]
    BY <1>9, <2>1, <2>2, FlattenOne
  <2> QED BY <1>3, <2>2, <2>3
<1>11. CASE n \notin NamespacesOf(s)
  <2>1. \A i \in 1..Len(f) : f[i] = <<>>
    BY <1>2, <1>5, <1>9, <1>11
  <2>2. FlattenSeq(f) = <<>>
    BY <1>9, <2>1, FlattenNone
  <2>3. \A c \in Range(s) : ~(Namespace[c] = n /\ Database[c] = d)
    BY <1>11 DEF NamespacesOf
  <2> QED BY <1>3, <2>2, <2>3, EntriesNone
<1> QED BY <1>10, <1>11

\* A snapshot takes at least two bytes, its version and its checksum.
LEMMA SizePositive ==
  ASSUME NEW s \in Seq(Changes), NEW x \in Snapshots(s)
  PROVE  Size(x) \in Nat \ {0}
<1>1. PICK ns \in SetToSeqs(NamespacesOf(s)) :
        /\ DOMAIN x.namespaces = DOMAIN ns
        /\ \A i \in DOMAIN ns : x.namespaces[i] \in Groups(s, ns[i])
  BY SnapshotIs
<1>2. DOMAIN ns = 1..Len(ns) /\ Len(ns) \in Nat /\ \A i \in DOMAIN ns : ns[i] \in NamespacesOf(s)
  BY NamesFinite, OrderIs
<1> DEFINE S == Changes \cup {Database[c] : c \in Changes} \cup {Namespace[c] : c \in Changes}
           Part(g) == <<g.name>> \o FlattenSeq([j \in DOMAIN g.databases |->
                        <<g.databases[j].name>> \o g.databases[j].entries])
           f == [i \in DOMAIN x.namespaces |-> Part(x.namespaces[i])]
<1>3. \A c \in Range(s) : c \in Changes
  BY DEF Range
<1>4. ASSUME NEW i \in DOMAIN ns PROVE Part(x.namespaces[i]) \in Seq(S)
  <2> DEFINE n == ns[i]
             g == x.namespaces[i]
  <2>1. g \in Groups(s, n) /\ n \in NamespacesOf(s)
    BY <1>1, <1>2
  <2>2. n \in S
    BY <1>3, <2>1 DEF NamespacesOf
  <2> HIDE DEF n, g
  <2>3. PICK ds \in SetToSeqs(DatabasesOf(s, n)) :
          /\ g.name = n /\ DOMAIN g.databases = DOMAIN ds
          /\ \A j \in DOMAIN ds : /\ g.databases[j].name = ds[j]
                                  /\ g.databases[j].entries = Entries(s, n, ds[j])
    BY <2>1, GroupIs
  <2>4. /\ DOMAIN ds = 1..Len(ds) /\ Len(ds) \in Nat
        /\ \A j \in DOMAIN ds : ds[j] \in DatabasesOf(s, n)
    BY NamesFinite, OrderIs
  <2>5. \A y \in DatabasesOf(s, n) : y \in S
    BY <1>3 DEF DatabasesOf
  <2>6. \A y : Entries(s, n, y) \in Seq(Changes)
    BY EntriesAre
  <2> HIDE DEF S
  <2>7. ASSUME NEW j \in DOMAIN ds
        PROVE  <<g.databases[j].name>> \o g.databases[j].entries \in Seq(S)
    <3>1. g.databases[j].name \in S
      BY <2>3, <2>4, <2>5
    <3>2. g.databases[j].entries \in Seq(S)
      <4>1. Changes \subseteq S
        BY DEF S
      <4>2. g.databases[j].entries \in Seq(Changes)
        BY <2>3, <2>6
      <4> QED BY <4>1, <4>2, SeqMonotonic
    <3> QED BY <3>1, <3>2
  <2> DEFINE h == [j \in DOMAIN g.databases |-> <<g.databases[j].name>> \o g.databases[j].entries]
  <2>8. h \in Seq(Seq(S))
    <3>1. h \in [1..Len(ds) -> Seq(S)]
      BY <2>3, <2>4, <2>7
    <3> HIDE DEF h
    <3> QED BY <2>4, <3>1
  <2>9. FlattenSeq(h) \in Seq(S)
    <3> HIDE DEF h
    <3> QED BY <2>8, FlattenType
  <2>10. Part(g) = <<n>> \o FlattenSeq(h)
    BY <2>3
  <2> HIDE DEF h, Part
  <2>11. Part(g) \in Seq(S)
    BY <2>2, <2>9, <2>10
  <2> QED BY <2>11 DEF g
<1>5. Size(x) = Len(<<"version">> \o FlattenSeq(f) \o <<x.checksum>>)
  BY DEF Size, Serialize
<1> HIDE DEF S, Part
<1>6. f \in Seq(Seq(S))
  <2>1. f \in [1..Len(ns) -> Seq(S)]
    BY <1>1, <1>2, <1>4
  <2> HIDE DEF f
  <2> QED BY <1>2, <2>1
<1> DEFINE a == FlattenSeq(f)
<1>7. a \in Seq(S)
  <2> HIDE DEF f
  <2> QED BY <1>6, FlattenType
<1> HIDE DEF f, a
<1>8. Len(a) \in Nat
  BY <1>7, LenProperties
<1> DEFINE U == S \cup {"version", x.checksum}
<1>9. a \in Seq(U) /\ <<"version">> \in Seq(U) /\ <<x.checksum>> \in Seq(U)
  <2>1. a \in Seq(U)
    <3> S \subseteq U
      OBVIOUS
    <3> HIDE DEF U
    <3> QED BY <1>7, SeqMonotonic
  <2> QED BY <2>1
<1>10. Len(<<"version">> \o a \o <<x.checksum>>) = 1 + Len(a) + 1
  <2>1. "version" \in U /\ x.checksum \in U
    OBVIOUS
  <2> HIDE DEF U
  <2> QED BY <1>8, <1>9, <2>1
<1> QED BY <1>5, <1>8, <1>10 DEF a

(* -------------------------------- the chunks ----------------------------- *)

\* The bytes of export e when it takes z of them, where its chunk n ends and
\* how many chunks there are.
Bytes(e, z) == [i \in 1..z |-> <<e, i>>]
Cut(n, z) == IF n * ChunkSize < z THEN n * ChunkSize ELSE z
Data(e, z, n) == SubSeq(Bytes(e, z), n * ChunkSize + 1, Cut(n + 1, z))
Count(z) == (z + ChunkSize - 1) \div ChunkSize

\* Division rounds down.
LEMMA DivRounds ==
  ASSUME NEW a \in Nat, NEW c \in Nat \ {0}
  PROVE  a \div c \in Nat /\ c * (a \div c) <= a /\ a < c * (a \div c) + c
<1>1. a \div c \in Nat
  OBVIOUS
<1>2. c * (a \div c) <= a
  OBVIOUS
<1>3. a < c * (a \div c) + c
  OBVIOUS
<1> QED BY <1>1, <1>2, <1>3

\* Products grow with their factors.
LEMMA TimesGrows ==
  ASSUME NEW c \in Nat \ {0}, NEW i \in Nat, NEW j \in Nat
  PROVE  /\ i * c \in Nat /\ (i + 1) * c = i * c + c /\ 0 * c = 0
         /\ i <= j => i * c <= j * c
         /\ i >= 1 => i * c >= c
<1>1. i * c \in Nat /\ (i + 1) * c = i * c + c /\ 0 * c = 0
  OBVIOUS
<1>2. ASSUME i <= j PROVE i * c <= j * c
  BY <1>2
<1>3. ASSUME i >= 1 PROVE i * c >= c
  BY <1>3
<1> QED BY <1>1, <1>2, <1>3

\* Where chunks end: in order, the last one at the end of the bytes.
LEMMA CutIs ==
  ASSUME NEW z \in Nat \ {0}, NEW n \in Nat
  PROVE  /\ Cut(n, z) \in 0..z /\ Cut(0, z) = 0 /\ (n >= 1 => Cut(n, z) >= 1)
         /\ Cut(n, z) <= Cut(n + 1, z) /\ Cut(n + 1, z) \in 1..z
         /\ n * ChunkSize \in Nat
         /\ (n * ChunkSize < z => Cut(n, z) = n * ChunkSize)
         /\ (~(n * ChunkSize < z) => Cut(n, z) = z /\ Cut(n + 1, z) = z)
<1> DEFINE c == ChunkSize
<1>1. c \in Nat \ {0}
  BY SnapshotAssumption
<1> HIDE DEF c
<1>2. n * c \in Nat /\ (n + 1) * c = n * c + c /\ 0 * c = 0 /\ (n >= 1 => n * c >= c)
  BY <1>1, TimesGrows
<1>3. Cut(n, z) = IF n * c < z THEN n * c ELSE z
  BY DEF Cut, c
<1>4. Cut(n + 1, z) = IF n * c + c < z THEN n * c + c ELSE z
  BY <1>2 DEF Cut, c
<1>5. Cut(0, z) = IF 0 < z THEN 0 ELSE z
  BY <1>2 DEF Cut, c
<1> QED BY <1>1, <1>2, <1>3, <1>4, <1>5 DEF c

\* How many chunks: every one begins before the end, and none is left out.
LEMMA CountIs ==
  ASSUME NEW z \in Nat \ {0}
  PROVE  /\ Count(z) \in Nat \ {0}
         /\ Cut(Count(z), z) = z
         /\ \A n \in Nat : n < Count(z) => n * ChunkSize < z
         /\ \A n \in Nat : n >= Count(z) => ~(n * ChunkSize < z)
<1> DEFINE c == ChunkSize
           k == Count(z)
<1>1. c \in Nat \ {0} /\ z + c - 1 \in Nat
  BY SnapshotAssumption
<1>2. k = (z + c - 1) \div c
  BY DEF Count
<1> HIDE DEF c, k
<1>3. k \in Nat /\ c * k <= z + c - 1 /\ z + c - 1 < c * k + c
  BY <1>1, <1>2, DivRounds
<1>4. c * k = k * c
  BY <1>1, <1>3
<1>5. k * c <= z + c - 1 /\ z <= k * c /\ k * c \in Nat
  BY <1>1, <1>3, <1>4
<1>6. k # 0
  <2>1. 0 * c = 0
    BY <1>1
  <2> QED BY <1>1, <1>5, <2>1
<1>7. ASSUME NEW n \in Nat, n < k PROVE n * c < z
  <2>1. n + 1 <= k /\ n + 1 \in Nat
    BY <1>3, <1>7
  <2>2. (n + 1) * c <= k * c /\ (n + 1) * c = n * c + c /\ n * c \in Nat
    BY <1>1, <1>3, <2>1, TimesGrows
  <2> QED BY <1>1, <1>5, <2>2
<1>8. ASSUME NEW n \in Nat, n >= k PROVE ~(n * c < z)
  <2>1. k * c <= n * c /\ n * c \in Nat
    BY <1>1, <1>3, <1>8, TimesGrows
  <2> QED BY <1>1, <1>5, <2>1
<1>9. Cut(k, z) = z
  BY <1>3, <1>8 DEF Cut, c
<1> QED BY <1>3, <1>6, <1>7, <1>8, <1>9 DEF k, c

\* What chunk n holds: nothing behind the end, else bytes of its export.
LEMMA DataIs ==
  ASSUME NEW e \in Nat, NEW z \in Nat \ {0}, NEW n \in Nat
  PROVE  /\ Data(e, z, n) \in Seq(Nat \X Nat)
         /\ n >= Count(z) => Data(e, z, n) = <<>>
         /\ n < Count(z) => Data(e, z, n) # <<>> /\ Data(e, z, n)[1] = <<e, n * ChunkSize + 1>>
<1> DEFINE b == Bytes(e, z)
           i == n * ChunkSize + 1
           j == Cut(n + 1, z)
<1>1. b \in Seq(Nat \X Nat) /\ Len(b) = z /\ \A x \in 1..z : b[x] = <<e, x>>
  <2>1. b \in [1..z -> Nat \X Nat]
    BY DEF Bytes
  <2> QED BY <2>1 DEF Bytes
<1>2. i \in Nat \ {0} /\ j \in 1..z /\ (i - 1 < z => j >= i) /\ (~(i - 1 < z) => i > j)
  <2>1. n * ChunkSize \in Nat /\ (n + 1) * ChunkSize = n * ChunkSize + ChunkSize /\ ChunkSize \in Nat \ {0}
    BY SnapshotAssumption, TimesGrows
  <2>2. j = IF n * ChunkSize + ChunkSize < z THEN n * ChunkSize + ChunkSize ELSE z
    BY <2>1 DEF Cut
  <2>3. j \in 1..z
    BY CutIs
  <2> QED BY <2>1, <2>2, <2>3
<1>3. Data(e, z, n) = SubSeq(b, i, j)
  BY DEF Data
<1>4. (n >= Count(z) => ~(i - 1 < z)) /\ (n < Count(z) => i - 1 < z)
  <2>1. (n >= Count(z) => ~(n * ChunkSize < z)) /\ (n < Count(z) => n * ChunkSize < z)
    BY CountIs
  <2>2. n * ChunkSize \in Nat
    BY SnapshotAssumption
  <2> QED BY <2>1, <2>2
<1> HIDE DEF b, i, j
<1>5. Data(e, z, n) \in Seq(Nat \X Nat)
  <2>1. \A x \in i..j : x \in 1..Len(b)
    BY <1>1, <1>2
  <2> QED BY <1>1, <1>2, <1>3, <2>1, SubSeqProperties
<1>6. ASSUME n >= Count(z) PROVE Data(e, z, n) = <<>>
  BY <1>1, <1>2, <1>3, <1>4, <1>6, SubSeqEmpty
<1>7. ASSUME n < Count(z) PROVE Data(e, z, n) # <<>> /\ Data(e, z, n)[1] = <<e, i>>
  <2>1. i <= j /\ i \in 1..z /\ b[i] = <<e, i>>
    BY <1>1, <1>2, <1>4, <1>7
  <2> DEFINE d == SubSeq(b, i, j)
  <2>2. Len(d) = j - i + 1 /\ d[1] = b[i]
    BY <1>1, <1>2, <2>1
  <2>3. Len(d) # 0
    BY <1>2, <2>1, <2>2
  <2> HIDE DEF d
  <2>4. d # <<>>
    BY <2>3
  <2> QED BY <1>3, <2>1, <2>2, <2>4 DEF d
<1> QED BY <1>5, <1>6, <1>7 DEF i

\* The first n chunks, one after another, are the bytes up to the n-th cut.
LEMMA ChunksJoin ==
  ASSUME NEW e \in Nat, NEW z \in Nat \ {0}, NEW n \in Nat
  PROVE  SubSeq(Bytes(e, z), 1, Cut(n, z)) \o Data(e, z, n) = SubSeq(Bytes(e, z), 1, Cut(n + 1, z))
<1> DEFINE b == Bytes(e, z)
<1>1. b \in Seq(Nat \X Nat) /\ Len(b) = z
  <2>1. b \in [1..z -> Nat \X Nat]
    BY DEF Bytes
  <2> QED BY <2>1
<1> DEFINE i == Cut(n, z)
           j == Cut(n + 1, z)
<1>2. i \in 0..z /\ j \in 1..z /\ i <= j
  BY CutIs
<1>3. SubSeq(b, 1, i) \in Seq(Nat \X Nat) /\ SubSeq(b, 1, i) \o <<>> = SubSeq(b, 1, i)
  <2> HIDE DEF b, i
  <2>1. SubSeq(b, 1, i) \in Seq(Nat \X Nat)
    BY <1>1, <1>2
  <2> QED BY <2>1, ConcatEmptySeq
<1>4. CASE n * ChunkSize < z
  <2>1. i = n * ChunkSize /\ Data(e, z, n) = SubSeq(b, i + 1, j)
    BY <1>4, CutIs DEF Data
  <2> HIDE DEF b, i, j
  <2>2. SubSeq(b, 1, i) \o SubSeq(b, i + 1, j) = SubSeq(b, 1, j)
    <3>1. 1 \in 1..(Len(b) + 1) /\ i \in (1 - 1)..Len(b) /\ j \in i..Len(b)
      BY <1>1, <1>2
    <3>2. \A m \in 1..(Len(b) + 1) : \A k \in (m - 1)..Len(b) : \A l \in k..Len(b) :
            SubSeq(b, m, k) \o SubSeq(b, k + 1, l) = SubSeq(b, m, l)
      BY <1>1, ConcatAdjacentSubSeq
    <3> QED BY <3>1, <3>2
  <2> QED BY <2>1, <2>2 DEF b, i, j
<1>5. CASE ~(n * ChunkSize < z)
  <2>1. i = z /\ j = z
    BY <1>5, CutIs
  <2>2. Data(e, z, n) = <<>>
    <3>1. ~(n < Count(z))
      BY <1>5, CountIs
    <3>2. n >= Count(z)
      BY <3>1, CountIs
    <3> QED BY <3>2, DataIs
  <2> QED BY <1>3, <2>1, <2>2
<1> QED BY <1>4, <1>5

\* Chunks 0 to m - 1 of an export, in their places, flatten to its bytes up to
\* the m-th cut.
LEMMA ChunksFlatten ==
  ASSUME NEW e \in Nat, NEW z \in Nat \ {0}, NEW r \in Seq(Seq(Nat \X Nat)), NEW m \in 0..Len(r),
         \A i \in 1..m : r[i] = Data(e, z, i - 1)
  PROVE  FlattenSeq(SubSeq(r, 1, m)) = SubSeq(Bytes(e, z), 1, Cut(m, z))
<1> DEFINE b == Bytes(e, z)
           T == {k \in 0..m : FlattenSeq(SubSeq(r, 1, k)) = SubSeq(b, 1, Cut(k, z))}
<1>1. Len(r) \in Nat /\ m \in Nat
  BY LenProperties
<1>2. 0 \in T
  <2>1. Cut(0, z) = 0 /\ SubSeq(b, 1, 0) = <<>>
    BY CutIs, SubSeqEmpty
  <2>2. FlattenSeq(SubSeq(r, 1, 0)) = <<>>
    BY FlattenFull
  <2> HIDE DEF b
  <2>3. FlattenSeq(SubSeq(r, 1, 0)) = SubSeq(b, 1, Cut(0, z))
    BY <2>1, <2>2, Zenon
  <2>4. 0 \in 0..m
    BY <1>1
  <2> QED BY <2>3, <2>4
<1>3. ASSUME NEW k \in 0..(m - 1), k \in T PROVE k + 1 \in T
  <2>1. k \in 0..(Len(r) - 1) /\ k \in Nat /\ k + 1 \in 1..m /\ (k + 1) - 1 = k /\ k + 1 \in 0..m
    BY <1>1
  <2>2. FlattenSeq(SubSeq(r, 1, k + 1)) = FlattenSeq(SubSeq(r, 1, k)) \o r[k + 1]
    BY <2>1, FlattenSub
  <2>3. r[k + 1] = Data(e, z, k)
    BY <2>1
  <2>4. SubSeq(b, 1, Cut(k, z)) \o Data(e, z, k) = SubSeq(b, 1, Cut(k + 1, z))
    BY <2>1, ChunksJoin
  <2> HIDE DEF b
  <2> QED BY <1>3, <2>1, <2>2, <2>3, <2>4
<1> HIDE DEF T
<1>4. m \in T
  BY <1>1, <1>2, <1>3, SetInduction
<1> QED BY <1>4 DEF T

(* -------------------------- the inductive invariant ---------------------- *)

\* The snapshots of any changes, and chunk n of each of some snapshots.
AnySnapshot == UNION {Snapshots(s) : s \in Seq(Changes)}
Made(snapshots, n) == {Data(e, Size(snapshots[e]), n) : e \in DOMAIN snapshots}

\* Exports are snapshots of changes; a task's chunk and the chunks received are
\* chunks of exports with their numbers, except places no chunk came for; and a
\* finalize that no import disturbed still has what its check saw.
TransferInv ==
  /\ pending \in Seq(Changes) /\ added \in Seq(Changes)
  /\ exports \in Seq(AnySnapshot)
  /\ total \in Nat
  /\ received \in Seq(Seq(Nat \X Nat))
  /\ \A i \in DOMAIN received : received[i] = NoChunk \/ received[i] \in Made(exports, i - 1)
  /\ pc \in [Tasks -> {"idle", "store"}] /\ DOMAIN chunk = Tasks
  /\ \A t \in Tasks : pc[t] = "store" =>
       chunk[t].sequence \in Nat /\ chunk[t].data \in Made(exports, chunk[t].sequence)
  /\ owner = "read" /\ ~raced => IsComplete

\* A snapshot has a size and the checksum of its contents.
LEMMA SnapshotFacts ==
  ASSUME NEW x \in AnySnapshot
  PROVE  Size(x) \in Nat \ {0} /\ Validate(x)
<1>1. PICK s \in Seq(Changes) : x \in Snapshots(s)
  BY DEF AnySnapshot
<1> QED BY <1>1, SizePositive, SnapshotIs DEF Validate

\* What an export is, in terms of its size.
LEMMA ExportFacts ==
  ASSUME exports \in Seq(AnySnapshot), NEW e \in DOMAIN exports
  PROVE  /\ e \in Nat \ {0} /\ Size(exports[e]) \in Nat \ {0} /\ Validate(exports[e])
         /\ Encoded(e) = Bytes(e, Size(exports[e]))
         /\ TotalChunks(e) = Count(Size(exports[e]))
         /\ \A n \in Nat : ChunkOf(e, n) = [sequence |-> n, total |-> Count(Size(exports[e])),
                                            data |-> Data(e, Size(exports[e]), n)]
<1>1. e \in Nat \ {0} /\ exports[e] \in AnySnapshot
  BY ElementOfSeq
<1>2. Size(exports[e]) \in Nat \ {0} /\ Validate(exports[e])
  BY <1>1, SnapshotFacts
<1>3. Encoded(e) = Bytes(e, Size(exports[e])) /\ TotalChunks(e) = Count(Size(exports[e]))
  BY DEF Encoded, Bytes, TotalChunks, Count
<1>4. \A n \in Nat : ChunkOf(e, n) = [sequence |-> n, total |-> Count(Size(exports[e])),
                                      data |-> Data(e, Size(exports[e]), n)]
  <2> TAKE n \in Nat
  <2>1. Cut(n + 1, Size(exports[e])) = IF (n + 1) * ChunkSize < Size(exports[e])
                                       THEN (n + 1) * ChunkSize ELSE Size(exports[e])
    BY DEF Cut
  <2> QED BY <1>3, <2>1 DEF ChunkOf, Data
<1> QED BY <1>1, <1>2, <1>3, <1>4

\* A chunk that was made is a sequence of bytes.
LEMMA MadeType ==
  ASSUME NEW x \in Seq(AnySnapshot), NEW n \in Nat, NEW d \in Made(x, n)
  PROVE  d \in Seq(Nat \X Nat)
<1>1. PICK e \in DOMAIN x : d = Data(e, Size(x[e]), n)
  BY DEF Made
<1>2. e \in Nat /\ x[e] \in AnySnapshot
  BY ElementOfSeq
<1>3. Size(x[e]) \in Nat \ {0}
  BY <1>2, SnapshotFacts
<1> QED BY <1>1, <1>2, <1>3, DataIs

\* More exports keep the chunks of the earlier ones.
LEMMA MadeGrows ==
  ASSUME NEW x \in Seq(AnySnapshot), NEW y \in AnySnapshot, NEW n
  PROVE  Made(x, n) \subseteq Made(Append(x, y), n)
<1> DEFINE z == Append(x, y)
<1>1. DOMAIN x \subseteq DOMAIN z /\ \A e \in DOMAIN x : z[e] = x[e]
  BY AppendProperties
<1> HIDE DEF z
<1>2. ASSUME NEW e \in DOMAIN x PROVE Data(e, Size(x[e]), n) \in Made(z, n)
  <2>1. z[e] = x[e] /\ e \in DOMAIN z
    BY <1>1
  <2>2. Data(e, Size(z[e]), n) \in Made(z, n)
    BY <2>1 DEF Made
  <2> QED BY <2>1, <2>2
<1> QED BY <1>2 DEF Made, z

\* Nothing added, exported or received.
LEMMA TransferInvInit == Init => TransferInv
<1> SUFFICES ASSUME Init PROVE TransferInv
  OBVIOUS
<1>1. pending \in Seq(Changes) /\ added \in Seq(Changes)
  BY DEF Init
<1>2. exports \in Seq(AnySnapshot) /\ received \in Seq(Seq(Nat \X Nat)) /\ DOMAIN received = {}
  BY DEF Init
<1>3. pc \in [Tasks -> {"idle", "store"}] /\ DOMAIN chunk = Tasks /\ \A t \in Tasks : pc[t] = "idle"
  BY DEF Init
<1>4. total \in Nat /\ owner # "read"
  BY DEF Init, NoTotal
<1> QED BY <1>1, <1>2, <1>3, <1>4 DEF TransferInv

\* An export is a snapshot of the changes that were pending; chunks of earlier
\* exports stay chunks.
LEMMA ExportKeepsInv ==
  ASSUME TransferInv, Export
  PROVE  TransferInv'
<1>1. PICK y \in Snapshots(pending) : exports' = Append(exports, y)
  BY DEF Export
<1>2. y \in AnySnapshot
  BY <1>1 DEF TransferInv, AnySnapshot
<1>3. exports \in Seq(AnySnapshot) /\ exports' \in Seq(AnySnapshot)
  BY <1>1, <1>2, AppendProperties DEF TransferInv
<1>4. \A n : Made(exports, n) \subseteq Made(exports', n)
  BY <1>1, <1>2, <1>3, MadeGrows
<1>5. pending' \in Seq(Changes) /\ added' \in Seq(Changes)
  <2>1. pending' = <<>> /\ added' = added
    BY DEF Export
  <2> QED BY <2>1 DEF TransferInv
<1>6. UNCHANGED <<received, total, pc, chunk, owner, raced>>
  BY DEF Export, importer
<1>7. \A i \in DOMAIN received' : received'[i] = NoChunk \/ received'[i] \in Made(exports', i - 1)
  BY <1>4, <1>6 DEF TransferInv
<1>8. \A t \in Tasks : pc'[t] = "store" =>
        chunk'[t].sequence \in Nat /\ chunk'[t].data \in Made(exports', chunk'[t].sequence)
  BY <1>4, <1>6 DEF TransferInv
<1>9. owner' = "read" /\ ~raced' => IsComplete'
  BY <1>6 DEF TransferInv, IsComplete
<1> QED BY <1>3, <1>5, <1>6, <1>7, <1>8, <1>9 DEF TransferInv

\* The first step of import_chunk takes a chunk of an export, and sets the number
\* of chunks only when there is none.
LEMMA ImportTotalKeepsInv ==
  ASSUME TransferInv, NEW t \in Tasks, ImportTotal(t)
  PROVE  TransferInv'
<1>1. UNCHANGED <<pending, added, exports, received, owner, raced>>
  BY DEF ImportTotal, exporter
<1>2. PICK c \in Sent :
        \/ UNCHANGED <<total, pc, chunk>>
        \/ /\ total' = IF total = NoTotal THEN c.total ELSE total
           /\ chunk' = [chunk EXCEPT ![t] = c]
           /\ pc' = [pc EXCEPT ![t] = "store"]
  BY DEF ImportTotal
<1>0. PICK e \in DOMAIN exports : \E n \in 0..(TotalChunks(e) - 1) : c = ChunkOf(e, n)
  BY <1>2 DEF Sent
<1>3. PICK n \in 0..(TotalChunks(e) - 1) : c = ChunkOf(e, n)
  BY <1>0
<1>4. /\ Size(exports[e]) \in Nat \ {0} /\ TotalChunks(e) = Count(Size(exports[e]))
      /\ \A k \in Nat : ChunkOf(e, k) = [sequence |-> k, total |-> Count(Size(exports[e])),
                                         data |-> Data(e, Size(exports[e]), k)]
  BY ExportFacts DEF TransferInv
<1>5. Count(Size(exports[e])) \in Nat \ {0}
  BY <1>4, CountIs
<1>6. n \in Nat
  BY <1>4, <1>5
<1>7. c.sequence = n /\ c.total \in Nat \ {0} /\ c.data = Data(e, Size(exports[e]), n)
  BY <1>3, <1>4, <1>5, <1>6
<1>8. c.data \in Made(exports, c.sequence)
  BY <1>7 DEF Made
<1>9. total' \in Nat /\ (total # NoTotal => total' = total)
  BY <1>2, <1>7 DEF TransferInv
<1>10. pc' \in [Tasks -> {"idle", "store"}] /\ DOMAIN chunk' = Tasks
  BY <1>2 DEF TransferInv
<1>11. \A u \in Tasks : pc'[u] = "store" =>
         chunk'[u].sequence \in Nat /\ chunk'[u].data \in Made(exports', chunk'[u].sequence)
  <2> TAKE u \in Tasks
  <2>1. chunk'[u] = c \/ (chunk'[u] = chunk[u] /\ pc'[u] = pc[u])
    BY <1>2 DEF TransferInv
  <2> QED BY <2>1, <1>1, <1>6, <1>7, <1>8 DEF TransferInv
<1>12. owner' = "read" /\ ~raced' => IsComplete'
  BY <1>1, <1>9 DEF TransferInv, IsComplete
<1> QED BY <1>1, <1>9, <1>10, <1>11, <1>12 DEF TransferInv

\* The second step puts the chunk into its place, and empty chunks into places
\* before it that did not exist.
LEMMA ImportStoreKeepsInv ==
  ASSUME TransferInv, NEW t \in Tasks, ImportStore(t)
  PROVE  TransferInv'
<1>1. UNCHANGED <<pending, added, exports, total, owner>> /\ raced' = TRUE
  BY DEF ImportStore, exporter
<1> DEFINE idx == chunk[t].sequence + 1
           len == IF idx > Len(received) THEN idx ELSE Len(received)
           d == chunk[t].data
<1>2. received' = [i \in 1..len |-> IF i = idx THEN d
                                    ELSE IF i <= Len(received) THEN received[i] ELSE NoChunk]
  BY DEF ImportStore
<1>3. chunk[t].sequence \in Nat /\ d \in Made(exports, chunk[t].sequence)
  BY DEF ImportStore, TransferInv
<1>4. d \in Seq(Nat \X Nat)
  BY <1>3, MadeType DEF TransferInv
<1>5. idx \in Nat \ {0} /\ idx - 1 = chunk[t].sequence
  BY <1>3
<1>6. Len(received) \in Nat /\ DOMAIN received = 1..Len(received)
      /\ \A i \in 1..Len(received) : received[i] \in Seq(Nat \X Nat)
  BY LenProperties, ElementOfSeq DEF TransferInv
<1>7. len \in Nat
  BY <1>5, <1>6
<1> HIDE DEF idx, len, d
<1>8. NoChunk \in Seq(Nat \X Nat)
  BY DEF NoChunk
<1>9. \A i \in 1..len : /\ received'[i] \in Seq(Nat \X Nat)
                        /\ received'[i] = NoChunk \/ received'[i] \in Made(exports, i - 1)
  <2> TAKE i \in 1..len
  <2>1. CASE i = idx
    <3>1. received'[i] = d /\ i - 1 = chunk[t].sequence
      BY <1>2, <1>5, <2>1
    <3> QED BY <3>1, <1>3, <1>4 DEF d
  <2>2. CASE i # idx /\ i <= Len(received)
    <3>1. received'[i] = received[i] /\ i \in 1..Len(received)
      BY <1>2, <1>6, <1>7, <2>2
    <3> QED BY <3>1, <1>6 DEF TransferInv
  <2>3. CASE i # idx /\ ~(i <= Len(received))
    <3>1. received'[i] = NoChunk
      BY <1>2, <2>3
    <3> QED BY <3>1, <1>8
  <2> QED BY <2>1, <2>2, <2>3
<1>10. DOMAIN received' = 1..len
  BY <1>2
<1>11. received' \in Seq(Seq(Nat \X Nat))
  <2>1. received' \in [1..len -> Seq(Nat \X Nat)]
    BY <1>2, <1>9
  <2> QED BY <1>7, <2>1
<1>12. \A i \in DOMAIN received' : received'[i] = NoChunk \/ received'[i] \in Made(exports', i - 1)
  BY <1>1, <1>9, <1>10
<1>13. pc' = [pc EXCEPT ![t] = "idle"] /\ chunk' = [chunk EXCEPT ![t] = NoChunk]
  BY DEF ImportStore
<1>14. pc' \in [Tasks -> {"idle", "store"}] /\ DOMAIN chunk' = Tasks
  BY <1>13 DEF TransferInv
<1>15. \A u \in Tasks : pc'[u] = "store" =>
         chunk'[u].sequence \in Nat /\ chunk'[u].data \in Made(exports', chunk'[u].sequence)
  <2> TAKE u \in Tasks
  <2>1. CASE u = t
    BY <2>1, <1>13 DEF TransferInv
  <2>2. CASE u # t
    <3>1. chunk'[u] = chunk[u] /\ pc'[u] = pc[u]
      BY <2>2, <1>13 DEF TransferInv
    <3> QED BY <3>1, <1>1 DEF TransferInv
  <2> QED BY <2>1, <2>2
<1> QED BY <1>1, <1>11, <1>12, <1>14, <1>15 DEF TransferInv

\* Every step keeps the invariant.
LEMMA TransferInvStep == TransferInv /\ [Next]_vars => TransferInv'
<1> SUFFICES ASSUME TransferInv, [Next]_vars PROVE TransferInv'
  OBVIOUS
<1>1. ASSUME NEW c \in Changes, AddChange(c) PROVE TransferInv'
  <2>1. pending' = Append(pending, c) /\ added' = Append(added, c)
    BY <1>1 DEF AddChange
  <2>2. pending' \in Seq(Changes) /\ added' \in Seq(Changes)
    BY <2>1, AppendProperties DEF TransferInv
  <2>3. UNCHANGED <<exports, received, total, pc, chunk, owner, raced>>
    BY <1>1 DEF AddChange, importer
  <2> QED BY <2>2, <2>3 DEF TransferInv, IsComplete
<1>2. CASE Export
  BY <1>2, ExportKeepsInv
<1>3. ASSUME NEW t \in Tasks, ImportTotal(t) PROVE TransferInv'
  BY <1>3, ImportTotalKeepsInv
<1>4. ASSUME NEW t \in Tasks, ImportStore(t) PROVE TransferInv'
  BY <1>4, ImportStoreKeepsInv
<1>5. CASE FinalizeCheck
  <2>1. UNCHANGED <<pending, added, exports, received, total, pc, chunk>> /\ (owner' = "read" => IsComplete)
    BY <1>5 DEF FinalizeCheck, exporter, importer
  <2> QED BY <2>1 DEF TransferInv, IsComplete
<1>6. CASE FinalizeRead
  <2>1. UNCHANGED <<pending, added, exports, received, total, pc, chunk>> /\ owner' # "read"
    BY <1>6 DEF FinalizeRead, exporter, importer
  <2> QED BY <2>1 DEF TransferInv
<1>7. CASE ResetChunks
  <2>1. UNCHANGED <<pending, added, exports, total, pc, chunk>> /\ owner' # "read" /\ received' = <<>>
    BY <1>7 DEF ResetChunks, exporter
  <2>2. received' \in Seq(Seq(Nat \X Nat)) /\ DOMAIN received' = {}
    BY <2>1
  <2> QED BY <2>1, <2>2 DEF TransferInv
<1>8. CASE ResetTotal
  <2>1. UNCHANGED <<pending, added, exports, received, pc, chunk>> /\ owner' # "read" /\ total' \in Nat
    BY <1>8 DEF ResetTotal, exporter, NoTotal
  <2> QED BY <2>1 DEF TransferInv
<1>9. CASE UNCHANGED vars
  <2>1. UNCHANGED <<pending, added, exports, received, total, pc, chunk, owner, raced>>
    BY <1>9 DEF vars, exporter, importer
  <2> QED BY <2>1 DEF TransferInv, IsComplete
<1> QED BY <1>1, <1>2, <1>3, <1>4, <1>5, <1>6, <1>7, <1>8, <1>9 DEF Next

\* The inductive invariant of src/snapshot.rs holds always.
THEOREM TransferInvHolds == Spec => []TransferInv
<1>1. Init => TransferInv
  BY TransferInvInit
<1>2. TransferInv /\ [Next]_vars => TransferInv'
  BY TransferInvStep
<1> QED BY <1>1, <1>2, PTL DEF Spec

(* ------------------------- reading what was received --------------------- *)

\* The bytes of an export.
LEMMA BytesAre ==
  ASSUME NEW e \in Nat, NEW z \in Nat \ {0}
  PROVE  /\ Bytes(e, z) \in Seq(Nat \X Nat) /\ Len(Bytes(e, z)) = z
         /\ \A i \in 1..z : Bytes(e, z)[i] = <<e, i>>
         /\ SubSeq(Bytes(e, z), 1, z) = Bytes(e, z)
<1> DEFINE b == Bytes(e, z)
<1>1. b \in [1..z -> Nat \X Nat] /\ \A i \in 1..z : b[i] = <<e, i>>
  BY DEF Bytes
<1> HIDE DEF b
<1>2. b \in Seq(Nat \X Nat) /\ Len(b) = z
  BY <1>1
<1>3. SubSeq(b, 1, z) = b
  BY <1>2, SubSeqFull
<1> QED BY <1>1, <1>2, <1>3 DEF b

\* Bytes that begin with the first byte of one export have no other in front.
LEMMA NoOtherExport ==
  ASSUME exports \in Seq(AnySnapshot), NEW e \in DOMAIN exports, NEW x \in DOMAIN exports,
         NEW data \in Seq(Nat \X Nat), data[1] = <<e, 1>>, IsPrefix(Encoded(x), data)
  PROVE  x = e
<1> DEFINE z == Size(exports[x])
           b == Encoded(x)
<1>1. x \in Nat /\ z \in Nat \ {0} /\ b = Bytes(x, z)
  BY ExportFacts
<1> HIDE DEF z
<1>2. b \in Seq(Nat \X Nat) /\ Len(b) = z /\ b[1] = <<x, 1>>
  <2> HIDE DEF b
  <2>1. b \in Seq(Nat \X Nat) /\ Len(b) = z /\ \A i \in 1..z : b[i] = <<x, i>>
    BY <1>1, BytesAre
  <2>2. 1 \in 1..z
    BY <1>1
  <2> QED BY <2>1, <2>2
<1>3. Len(b) <= Len(data) /\ SubSeq(b, 1, Len(b)) = SubSeq(data, 1, Len(b)) /\ Len(data) \in Nat
  BY DEF IsPrefix
<1> HIDE DEF b
<1>4. SubSeq(b, 1, Len(b))[1] = b[1] /\ SubSeq(data, 1, Len(b))[1] = data[1]
  BY <1>1, <1>2, <1>3, SMTT(30)
<1>5. <<x, 1>> = <<e, 1>>
  BY <1>2, <1>3, <1>4
<1> QED BY <1>5

\* All bytes of an export, whatever follows them, are read as that export.
LEMMA WholeIsRead ==
  ASSUME exports \in Seq(AnySnapshot), NEW e \in DOMAIN exports,
         NEW data \in Seq(Nat \X Nat), data[1] = <<e, 1>>, IsPrefix(Encoded(e), data)
  PROVE  Deserialize(data) = {Outcome("ok", e)}
<1> DEFINE whole == {x \in DOMAIN exports : IsPrefix(Encoded(x), data)}
<1>1. \A x \in whole : x = e
  BY NoOtherExport
<1>2. whole = {e}
  BY <1>1
<1>3. whole # {} /\ {Outcome("ok", x) : x \in whole} = {Outcome("ok", e)}
  BY <1>2
<1> QED BY <1>3 DEF Deserialize

\* Only some of the first bytes of an export are refused.
LEMMA CutIsRefused ==
  ASSUME exports \in Seq(AnySnapshot), NEW e \in DOMAIN exports,
         NEW c \in Nat \ {0}, c < Size(exports[e])
  PROVE  Deserialize(SubSeq(Encoded(e), 1, c)) = {Outcome("err", 0)}
<1> DEFINE z == Size(exports[e])
           b == Encoded(e)
           data == SubSeq(b, 1, c)
<1>1. e \in Nat /\ z \in Nat \ {0} /\ b = Bytes(e, z)
  BY ExportFacts
<1>2. c < z
  OBVIOUS
<1> HIDE DEF z
<1>3. b \in Seq(Nat \X Nat) /\ Len(b) = z /\ b[1] = <<e, 1>>
  <2> HIDE DEF b
  <2>1. b \in Seq(Nat \X Nat) /\ Len(b) = z /\ \A i \in 1..z : b[i] = <<e, i>>
    BY <1>1, BytesAre
  <2>2. 1 \in 1..z
    BY <1>1
  <2> QED BY <2>1, <2>2
<1> HIDE DEF b
<1>4. data \in Seq(Nat \X Nat) /\ Len(data) = c /\ data[1] = b[1]
  <2>1. c \in 1..Len(b)
    BY <1>1, <1>2, <1>3
  <2>2. data \in Seq(Nat \X Nat) /\ Len(data) = c
    BY <1>3, <2>1
  <2>3. data[1] = b[1]
    BY <1>3, <2>1
  <2> QED BY <2>2, <2>3
<1>5. SubSeq(data, 1, c) = data
  <2> HIDE DEF data
  <2> QED BY <1>4, SubSeqFull
<1>6. IsStrictPrefix(data, b)
  <2>1. Len(data) <= Len(b) /\ Len(data) # Len(b)
    BY <1>1, <1>2, <1>3, <1>4
  <2>2. SubSeq(data, 1, Len(data)) = SubSeq(b, 1, Len(data))
    BY <1>4, <1>5
  <2> HIDE DEF data
  <2>3. data # b
    BY <2>1
  <2> QED BY <2>1, <2>2, <2>3 DEF IsStrictPrefix, IsPrefix
<1>7. \A x \in DOMAIN exports : ~IsPrefix(Encoded(x), data)
  <2> SUFFICES ASSUME NEW x \in DOMAIN exports, IsPrefix(Encoded(x), data) PROVE FALSE
    OBVIOUS
  <2> HIDE DEF data
  <2>1. x = e
    BY <1>3, <1>4, NoOtherExport
  <2>2. Len(b) <= Len(data)
    BY <2>1 DEF IsPrefix, b
  <2> QED BY <2>2, <1>1, <1>2, <1>3, <1>4
<1>8. {x \in DOMAIN exports : IsPrefix(Encoded(x), data)} = {}
  BY <1>7
<1>9. \E x \in DOMAIN exports : IsStrictPrefix(data, Encoded(x))
  BY <1>6 DEF b
<1> HIDE DEF data
<1>10. Deserialize(data) = {Outcome("err", 0)}
  BY <1>8, <1>9 DEF Deserialize
<1> QED BY <1>10 DEF data, b

\* A chunk that is not empty names its export, which has at least as many chunks
\* as the place it is in.
LEMMA ChunkNamesExport ==
  ASSUME TransferInv, NEW i \in DOMAIN received, received[i] # NoChunk
  PROVE  LET x == received[i][1][1]
         IN  /\ x \in DOMAIN exports /\ received[i] = Data(x, Size(exports[x]), i - 1)
             /\ i <= TotalChunks(x)
<1>1. i \in Nat \ {0} /\ i - 1 \in Nat /\ received[i] \in Made(exports, i - 1)
  BY DEF TransferInv
<1>2. PICK x \in DOMAIN exports : received[i] = Data(x, Size(exports[x]), i - 1)
  BY <1>1 DEF Made
<1> DEFINE z == Size(exports[x])
<1>3. x \in Nat /\ z \in Nat \ {0} /\ TotalChunks(x) = Count(z)
  BY ExportFacts DEF TransferInv
<1> HIDE DEF z
<1>4. received[i] = Data(x, z, i - 1)
  BY <1>2 DEF z
<1>5. Count(z) \in Nat \ {0}
  BY <1>3, CountIs
<1>6. ~(i - 1 >= Count(z))
  <2> SUFFICES ASSUME i - 1 >= Count(z) PROVE FALSE
    OBVIOUS
  <2>1. Data(x, z, i - 1) = <<>>
    BY <1>1, <1>3, DataIs
  <2> QED BY <2>1, <1>4 DEF NoChunk
<1>7. i - 1 < Count(z) /\ i <= Count(z)
  BY <1>1, <1>5, <1>6
<1>8. received[i][1] = <<x, (i - 1) * ChunkSize + 1>>
  BY <1>1, <1>3, <1>4, <1>7, DataIs
<1>9. received[i][1][1] = x
  BY <1>8
<1> QED BY <1>2, <1>3, <1>7, <1>9

\* An importer that is complete as far as its chunks go, with the chunks and the
\* number of one export, reads that export or refuses what it reads.
LEMMA OneExportIsRead ==
  ASSUME TransferInv, IsComplete, NEW e \in DOMAIN exports, ExportsIn = {e}, total = TotalChunks(e)
  PROVE  Deserialize(FlattenSeq(received)) \subseteq {Outcome("ok", e), Outcome("err", 0)}
<1> DEFINE z == Size(exports[e])
           n == Len(received)
           f == FlattenSeq(received)
           c == Cut(n, z)
<1>1. /\ e \in Nat /\ z \in Nat \ {0} /\ TotalChunks(e) = Count(z) /\ Encoded(e) = Bytes(e, z)
      /\ exports \in Seq(AnySnapshot)
  BY ExportFacts DEF TransferInv
<1>2. n \in Nat /\ DOMAIN received = 1..n /\ received \in Seq(Seq(Nat \X Nat))
  BY LenProperties DEF TransferInv
<1>3. n # 0
  <2>1. PICK i \in DOMAIN received : received[i] # NoChunk
    BY DEF ExportsIn
  <2> QED BY <2>1, <1>2
<1>4. ASSUME NEW i \in 1..n PROVE received[i] = Data(e, z, i - 1)
  <2>1. CASE received[i] = NoChunk
    <3>1. ~(i <= Count(z))
      BY <1>1, <1>2, <2>1 DEF IsComplete
    <3>2. i - 1 \in Nat /\ i - 1 >= Count(z)
      BY <1>1, <3>1, CountIs, SMTT(30)
    <3>3. Data(e, z, i - 1) = <<>>
      BY <1>1, <3>2, DataIs
    <3> QED BY <3>3, <2>1 DEF NoChunk
  <2>2. CASE received[i] # NoChunk
    <3>1. received[i][1][1] = e
      BY <1>2, <2>2 DEF ExportsIn
    <3> QED BY <1>2, <2>2, <3>1, ChunkNamesExport
  <2> QED BY <2>1, <2>2
<1> HIDE DEF z, n
<1>5. f = SubSeq(Bytes(e, z), 1, c)
  <2>1. n \in 0..Len(received) /\ SubSeq(received, 1, n) = received
    BY <1>2, FlattenFull DEF n
  <2>2. FlattenSeq(SubSeq(received, 1, n)) = SubSeq(Bytes(e, z), 1, Cut(n, z))
    BY <1>1, <1>2, <1>4, <2>1, ChunksFlatten
  <2> QED BY <2>1, <2>2
<1>6. c \in 1..z
  <2>1. c \in 0..z /\ c >= 1
    BY <1>1, <1>2, <1>3, CutIs
  <2> QED BY <2>1, <1>1
<1> HIDE DEF f, c
<1>7. CASE c < z
  <2>1. Deserialize(SubSeq(Encoded(e), 1, c)) = {Outcome("err", 0)}
    BY <1>1, <1>6, <1>7, CutIsRefused DEF z
  <2> QED BY <1>1, <1>5, <2>1 DEF f
<1>8. CASE c = z
  <2>1. /\ Bytes(e, z) \in Seq(Nat \X Nat) /\ Len(Bytes(e, z)) = z
        /\ \A i \in 1..z : Bytes(e, z)[i] = <<e, i>>
        /\ SubSeq(Bytes(e, z), 1, z) = Bytes(e, z)
    BY <1>1, BytesAre
  <2>2. f = Bytes(e, z) /\ f[1] = <<e, 1>>
    BY <1>1, <1>5, <1>8, <2>1
  <2>3. IsPrefix(Encoded(e), f)
    BY <1>1, <2>1, <2>2 DEF IsPrefix
  <2>4. Deserialize(f) = {Outcome("ok", e)}
    BY <1>1, <2>1, <2>2, <2>3, WholeIsRead
  <2> QED BY <2>4 DEF f
<1> QED BY <1>1, <1>6, <1>7, <1>8

\* finalize (src/snapshot.rs:321) never takes an incomplete transfer for a
\* snapshot, for any number of tasks, exports and changes and every chunk size.
THEOREM FinalizeIsExact == Spec => FinalizeExactOrFails
<1>1. ASSUME TransferInv, [Next]_vars, NEW e \in DOMAIN exports,
             owner = "read", owner' = "idle", ~raced, ExportsIn = {e}, total = TotalChunks(e)
      PROVE  result' \in {Outcome("ok", e), Outcome("err", 0)}
  <2>1. FinalizeRead
    BY <1>1 DEF Next, vars, AddChange, Export, ImportTotal, ImportStore, FinalizeCheck,
               ResetChunks, ResetTotal
  <2>2. result' \in Deserialize(FlattenSeq(received))
    BY <2>1 DEF FinalizeRead
  <2>3. IsComplete
    BY <1>1 DEF TransferInv
  <2>4. Deserialize(FlattenSeq(received)) \subseteq {Outcome("ok", e), Outcome("err", 0)}
    BY <1>1, <2>3, OneExportIsRead
  <2> QED BY <2>2, <2>4
<1>2. TransferInv /\ [Next]_vars =>
        [\A e \in DOMAIN exports :
           (owner = "read" /\ owner' = "idle" /\ ~raced /\ ExportsIn = {e} /\ total = TotalChunks(e))
             => result' \in {Outcome("ok", e), Outcome("err", 0)}]_vars
  BY <1>1
<1> QED BY <1>2, TransferInvHolds, PTL DEF Spec, FinalizeExactOrFails

\* Every chunk of an export in its place, with no chunk of another one among them,
\* is complete and reads as that export.
LEMMA AllChunksAreRead ==
  ASSUME TransferInv, NEW e \in DOMAIN exports, total = TotalChunks(e),
         {b \in Range(FlattenSeq(received)) : b[1] = e} = Range(Encoded(e)),
         \A i \in DOMAIN received : i <= total => received[i] # NoChunk /\ received[i][1][1] = e
  PROVE  IsComplete /\ Deserialize(FlattenSeq(received)) = {Outcome("ok", e)} /\ Validate(exports[e])
<1> DEFINE z == Size(exports[e])
           n == Len(received)
           k == Count(z)
           f == FlattenSeq(received)
           b == Bytes(e, z)
<1>1. /\ e \in Nat /\ z \in Nat \ {0} /\ TotalChunks(e) = k /\ Encoded(e) = b
      /\ exports \in Seq(AnySnapshot) /\ Validate(exports[e])
  BY ExportFacts DEF TransferInv
<1>2. n \in Nat /\ DOMAIN received = 1..n /\ received \in Seq(Seq(Nat \X Nat))
  BY LenProperties DEF TransferInv
<1> HIDE DEF z
<1>3. k \in Nat \ {0} /\ Cut(k, z) = z /\ \A m \in Nat : m < k => m * ChunkSize < z
  BY <1>1, CountIs
<1>4. ASSUME NEW i \in 1..n, i <= k PROVE received[i] = Data(e, z, i - 1)
  <2>1. received[i] # NoChunk /\ received[i][1][1] = e
    BY <1>1, <1>2, <1>4
  <2> QED BY <1>2, <2>1, ChunkNamesExport DEF z
<1>5. b \in Seq(Nat \X Nat) /\ Len(b) = z /\ SubSeq(b, 1, z) = b
      /\ \A i \in 1..z : b[i] = <<e, i>>
  BY <1>1, BytesAre
<1>6. f \in Seq(Nat \X Nat)
  BY <1>2, FlattenType
<1> HIDE DEF n, k, f, b
<1>7. n >= k
  <2> SUFFICES ASSUME n < k PROVE FALSE
    BY <1>2, <1>3
  <2>1. n \in 0..Len(received) /\ SubSeq(received, 1, n) = received
    BY <1>2, FlattenFull DEF n
  <2>2. \A i \in 1..n : received[i] = Data(e, z, i - 1)
    BY <1>2, <1>3, <1>4
  <2>3. f = SubSeq(b, 1, Cut(n, z))
    <3>1. FlattenSeq(SubSeq(received, 1, n)) = SubSeq(Bytes(e, z), 1, Cut(n, z))
      BY <1>1, <1>2, <2>1, <2>2, ChunksFlatten
    <3> QED BY <2>1, <3>1 DEF f, b
  <2>4. Cut(n, z) \in 0..z /\ Cut(n, z) < z
    <3>1. n * ChunkSize < z /\ Cut(n, z) \in 0..z /\ n * ChunkSize \in Nat
      BY <1>1, <1>2, <1>3, CutIs
    <3> QED BY <3>1 DEF Cut
  <2>5. <<e, z>> \in Range(f)
    <3>1. z \in DOMAIN b /\ b[z] = <<e, z>>
      BY <1>1, <1>5
    <3>2. <<e, z>> \in Range(b)
      BY <3>1 DEF Range
    <3>3. {y \in Range(f) : y[1] = e} = Range(b)
      BY <1>1 DEF f
    <3> QED BY <3>2, <3>3
  <2>6. PICK j \in DOMAIN f : f[j] = <<e, z>>
    BY <2>5 DEF Range
  <2> DEFINE c == Cut(n, z)
  <2>7. j \in 1..c /\ f[j] = b[j]
    <3> HIDE DEF c
    <3>1. c \in 0..Len(b) /\ f = SubSeq(b, 1, c)
      BY <1>5, <2>3, <2>4 DEF c
    <3>2. DOMAIN SubSeq(b, 1, c) = 1..c /\ \A i \in 1..c : SubSeq(b, 1, c)[i] = b[i]
      BY <1>5, <3>1
    <3> QED BY <2>6, <3>1, <3>2
  <2>8. j \in 1..z /\ j # z
    BY <1>1, <2>4, <2>7
  <2>9. <<e, j>> = <<e, z>>
    BY <1>5, <2>6, <2>7, <2>8
  <2> QED BY <2>8, <2>9
<1>8. FlattenSeq(SubSeq(received, 1, k)) = b
  <2>1. k \in 0..Len(received) /\ \A i \in 1..k : received[i] = Data(e, z, i - 1)
    BY <1>2, <1>3, <1>4, <1>7 DEF n
  <2>2. FlattenSeq(SubSeq(received, 1, k)) = SubSeq(b, 1, Cut(k, z))
    BY <1>1, <1>2, <2>1, ChunksFlatten, ZenonT(40) DEF b
  <2> QED BY <1>3, <1>5, <2>2
<1>9. PICK t \in Seq(Nat \X Nat) : f = b \o t
  <2>1. k \in 0..Len(received)
    BY <1>2, <1>3, <1>7 DEF n
  <2>2. \E t \in Seq(Nat \X Nat) : f = FlattenSeq(SubSeq(received, 1, k)) \o t
    BY <1>2, <2>1, FlattenPrefix DEF f
  <2> QED BY <1>8, <2>2
<1>10. Len(b) <= Len(f) /\ SubSeq(f, 1, Len(b)) = b /\ f[1] = b[1]
  <2>1. Len(f) = Len(b) + Len(t) /\ Len(t) \in Nat /\ \A i \in 1..Len(b) : f[i] = b[i]
    BY <1>5, <1>9, ConcatProperties
  <2>2. Len(b) <= Len(f) /\ 1 \in 1..Len(b)
    BY <1>1, <1>5, <2>1
  <2>3. SubSeq(f, 1, Len(b)) = b
    BY <1>5, <1>9, SubSeqOfConcat1
  <2> QED BY <2>1, <2>2, <2>3
<1>11. IsPrefix(Encoded(e), f) /\ f[1] = <<e, 1>>
  <2>1. IsPrefix(b, f)
    BY <1>5, <1>10 DEF IsPrefix
  <2>2. b[1] = <<e, 1>>
    BY <1>1, <1>5
  <2> QED BY <1>1, <1>10, <2>1, <2>2
<1>12. Deserialize(f) = {Outcome("ok", e)}
  BY <1>1, <1>6, <1>11, WholeIsRead
<1>13. IsComplete
  BY <1>1, <1>3 DEF IsComplete, NoTotal
<1> QED BY <1>1, <1>12, <1>13 DEF f

\* All chunks of an export suffice (src/snapshot.rs:313 and 321), in whatever
\* order they came, for every chunk size and any number of exports.
THEOREM AllChunksAlwaysSuffice == Spec => []AllChunksSuffice
<1>1. TransferInv => AllChunksSuffice
  <2> SUFFICES ASSUME TransferInv, NEW e \in DOMAIN exports,
                 total = TotalChunks(e),
                 {b \in Range(FlattenSeq(received)) : b[1] = e} = Range(Encoded(e)),
                 \A i \in DOMAIN received : i <= total => received[i] # NoChunk /\ received[i][1][1] = e
               PROVE  IsComplete /\ Deserialize(FlattenSeq(received)) = {Outcome("ok", e)} /\ Validate(exports[e])
    BY DEF AllChunksSuffice
  <2> QED BY AllChunksAreRead
<1> QED BY <1>1, TransferInvHolds, PTL

(* ------------------------ every change, once, in order ------------------- *)

\* What the exports have of a database, one after another, is a sequence.
LEMMA InExports ==
  ASSUME NEW x \in Seq(AnySnapshot), NEW n, NEW d
  PROVE  [e \in DOMAIN x |-> EntriesIn(x[e], n, d)] \in Seq(Seq(Changes))
<1>1. \A y \in AnySnapshot : EntriesIn(y, n, d) \in Seq(Changes)
  <2> TAKE y \in AnySnapshot
  <2>1. PICK s \in Seq(Changes) : y \in Snapshots(s)
    BY DEF AnySnapshot
  <2>2. EntriesIn(y, n, d) = Entries(s, n, d)
    BY <2>1, SnapshotHasEntries
  <2>3. Entries(s, n, d) \in Seq(Changes)
    BY EntriesAre
  <2> QED BY <2>2, <2>3
<1>2. Len(x) \in Nat /\ DOMAIN x = 1..Len(x) /\ \A e \in 1..Len(x) : x[e] \in AnySnapshot
  BY LenProperties, ElementOfSeq
<1>3. [e \in DOMAIN x |-> EntriesIn(x[e], n, d)] \in [1..Len(x) -> Seq(Changes)]
  BY <1>1, <1>2
<1> QED BY <1>2, <1>3, IsASeq

\* The entries of a database in some exports.
Exported(x, n, d) == FlattenSeq([e \in DOMAIN x |-> EntriesIn(x[e], n, d)])

\* An export of pending changes adds their entries, and no others.
LEMMA ExportAddsEntries ==
  ASSUME NEW x \in Seq(AnySnapshot), NEW s \in Seq(Changes), NEW y \in Snapshots(s), NEW n, NEW d
  PROVE  Exported(Append(x, y), n, d) = Exported(x, n, d) \o Entries(s, n, d)
<1> DEFINE w == Append(x, y)
           f == [e \in DOMAIN x |-> EntriesIn(x[e], n, d)]
           g == [e \in DOMAIN w |-> EntriesIn(w[e], n, d)]
           v == Entries(s, n, d)
<1>1. y \in AnySnapshot
  BY DEF AnySnapshot
<1>2. /\ Len(x) \in Nat /\ DOMAIN x = 1..Len(x) /\ DOMAIN w = 1..(Len(x) + 1)
      /\ \A i \in 1..Len(x) : w[i] = x[i]
      /\ w[Len(x) + 1] = y /\ w \in Seq(AnySnapshot)
  BY <1>1, LenProperties, AppendProperties
<1> HIDE DEF w
<1>3. f \in Seq(Seq(Changes)) /\ g \in Seq(Seq(Changes))
  BY <1>2, InExports
<1>4. v \in Seq(Changes)
  BY EntriesAre
<1>5. EntriesIn(y, n, d) = v
  BY SnapshotHasEntries
<1> HIDE DEF v
<1>6. DOMAIN f = 1..Len(x) /\ Len(f) = Len(x) /\ DOMAIN g = 1..(Len(x) + 1) /\ Len(g) = Len(x) + 1
  BY <1>2, <1>3
<1>7. g = Append(f, v)
  <2>1. \A i \in 1..Len(x) : g[i] = f[i]
    BY <1>2
  <2>2. g[Len(x) + 1] = v
    BY <1>2, <1>5
  <2> HIDE DEF f, g
  <2> QED BY <1>2, <1>3, <1>4, <1>6, <2>1, <2>2
<1> HIDE DEF f, g
<1>8. FlattenSeq(g) = FlattenSeq(f) \o v
  BY <1>3, <1>4, <1>7, FlattenAppend
<1> QED BY <1>8 DEF f, g, v, w, Exported

\* No export yet, nothing pending and nothing added.
LEMMA InOrderInit == Init => ExportedOnceInOrder
<1> SUFFICES ASSUME Init, NEW n, NEW d
             PROVE  FlattenSeq([e \in DOMAIN exports |-> EntriesIn(exports[e], n, d)])
                      \o Entries(pending, n, d) = Entries(added, n, d)
  BY DEF ExportedOnceInOrder
<1>1. exports = <<>> /\ pending = <<>> /\ added = <<>>
  BY DEF Init
<1>2. [e \in DOMAIN exports |-> EntriesIn(exports[e], n, d)] = <<>>
  BY <1>1
<1>3. FlattenSeq([e \in DOMAIN exports |-> EntriesIn(exports[e], n, d)]) = <<>>
  BY <1>2, FlattenEmpty
<1>4. Entries(pending, n, d) = <<>> /\ Entries(added, n, d) = <<>>
  BY <1>1, EntriesEmpty
<1>5. <<>> \o <<>> = <<>>
  OBVIOUS
<1> QED BY <1>3, <1>4, <1>5

\* Every step keeps every change in one place, in order.
LEMMA InOrderStep == TransferInv /\ ExportedOnceInOrder /\ [Next]_vars => ExportedOnceInOrder'
<1> SUFFICES ASSUME TransferInv, ExportedOnceInOrder, [Next]_vars,
                    NEW n \in Range(Namespace), NEW d \in Range(Database)
             PROVE  FlattenSeq([e \in DOMAIN exports' |-> EntriesIn(exports'[e], n, d)])
                      \o Entries(pending', n, d) = Entries(added', n, d)
  BY DEF ExportedOnceInOrder
<1> DEFINE f == FlattenSeq([e \in DOMAIN exports |-> EntriesIn(exports[e], n, d)])
           p == Entries(pending, n, d)
<1>1. f \o p = Entries(added, n, d)
  BY DEF ExportedOnceInOrder
<1>2. f \in Seq(Changes) /\ p \in Seq(Changes) /\ exports \in Seq(AnySnapshot)
      /\ pending \in Seq(Changes) /\ added \in Seq(Changes)
  <2>1. f \in Seq(Changes)
    BY InExports, FlattenType, ZenonT(60) DEF TransferInv
  <2>2. p \in Seq(Changes)
    BY EntriesAre DEF TransferInv
  <2> QED BY <2>1, <2>2 DEF TransferInv
<1> HIDE DEF f, p
<1>3. ASSUME NEW c \in Changes, AddChange(c)
      PROVE  FlattenSeq([e \in DOMAIN exports' |-> EntriesIn(exports'[e], n, d)])
               \o Entries(pending', n, d) = Entries(added', n, d)
  <2>1. exports' = exports /\ pending' = Append(pending, c) /\ added' = Append(added, c)
    BY <1>3 DEF AddChange
  <2> DEFINE y == Entry(c, n, d)
  <2>2. y \in Seq(Changes)
    BY DEF Entry
  <2>3. Entries(pending', n, d) = p \o y /\ Entries(added', n, d) = Entries(added, n, d) \o y
    BY <1>2, <2>1, EntriesAppend, SMTT(60) DEF p
  <2> HIDE DEF y
  <2>4. (f \o p) \o y = f \o (p \o y)
    BY <1>2, <2>2, SMTT(60)
  <2>5. FlattenSeq([e \in DOMAIN exports' |-> EntriesIn(exports'[e], n, d)]) = f
    BY <2>1 DEF f
  <2> QED BY <1>1, <2>3, <2>4, <2>5
<1>4. CASE Export
  <2>1. PICK y \in Snapshots(pending) : exports' = Append(exports, y)
    BY <1>4 DEF Export
  <2>2. pending' = <<>> /\ added' = added
    BY <1>4 DEF Export
  <2>3. FlattenSeq([e \in DOMAIN exports' |-> EntriesIn(exports'[e], n, d)]) = f \o p
    <3>1. Exported(Append(exports, y), n, d) = Exported(exports, n, d) \o Entries(pending, n, d)
      BY <1>2, ExportAddsEntries
    <3> QED BY <2>1, <3>1 DEF f, p, Exported
  <2>4. Entries(pending', n, d) = <<>>
    BY <2>2, EntriesEmpty
  <2>5. f \o p \in Seq(Changes)
    BY <1>2
  <2>6. (f \o p) \o <<>> = f \o p
    BY <2>5, ConcatEmptySeq
  <2> QED BY <1>1, <2>2, <2>3, <2>4, <2>6
<1>5. ASSUME UNCHANGED <<exports, pending, added>>
      PROVE  FlattenSeq([e \in DOMAIN exports' |-> EntriesIn(exports'[e], n, d)])
               \o Entries(pending', n, d) = Entries(added', n, d)
  BY <1>1, <1>5 DEF f, p
<1>6. \/ \E c \in Changes : AddChange(c)
      \/ Export
      \/ UNCHANGED <<exports, pending, added>>
  BY DEF Next, vars, exporter, ImportTotal, ImportStore, FinalizeCheck, FinalizeRead,
         ResetChunks, ResetTotal
<1> QED BY <1>3, <1>4, <1>5, <1>6

\* Whatever is added and whenever it is exported (src/snapshot.rs:151 and 160),
\* every change is exported once or pending, in the order it was added.
THEOREM ChangesExportedOnceInOrder == Spec => []ExportedOnceInOrder
<1>1. Init => ExportedOnceInOrder
  BY InOrderInit
<1>2. TransferInv /\ ExportedOnceInOrder /\ [Next]_vars => ExportedOnceInOrder'
  BY InOrderStep
<1> QED BY <1>1, <1>2, TransferInvHolds, PTL DEF Spec
=============================================================================
