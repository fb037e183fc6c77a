------------------------- MODULE MemoryChangeStore -------------------------
(***************************************************************************)
(* MemoryChangeStore of src/persist.rs, shared by several threads: a       *)
(* vector behind a lock that append takes twice, to read its length and to *)
(* push. flush and close do nothing. Changes are numbered in the order in  *)
(* which their appends begin.                                              *)
(***************************************************************************)
EXTENDS Naturals, Sequences

CONSTANTS Threads,
          MaxAppends  \* bound: appends

ASSUME MemoryAssumption == MaxAppends \in Nat

VARIABLES
  changes,   \* the vector
  begun,     \* number of appends begun
  hand,      \* thread -> the change it appends, or 0
  offset,    \* thread -> the length it read
  returned   \* history: change -> the offset its append returned

storeVars == <<changes, begun, hand, offset, returned>>

StoreInit ==
  /\ changes = <<>> /\ begun = 0
  /\ hand = [t \in Threads |-> 0]
  /\ offset = [t \in Threads |-> 0]
  /\ returned = [c \in 1..MaxAppends |-> 0]

AppendLen(t) ==
  /\ hand[t] = 0 /\ begun < MaxAppends
  /\ begun' = begun + 1
  /\ hand' = [hand EXCEPT ![t] = begun + 1]
  /\ offset' = [offset EXCEPT ![t] = Len(changes)]
  /\ UNCHANGED <<changes, returned>>

\* Faulty variant: the change is stored at the offset that was read.
AppendStores(t) ==
  /\ hand[t] # 0
  /\ changes' = IF offset[t] < Len(changes) THEN [changes EXCEPT ![offset[t] + 1] = hand[t]]
                                            ELSE Append(changes, hand[t])
  /\ returned' = [returned EXCEPT ![hand[t]] = offset[t]]
  /\ hand' = [hand EXCEPT ![t] = 0]
  /\ UNCHANGED <<begun, offset>>

\* Faulty variant: the length is read after the push.
AppendReadsLate(t) ==
  /\ hand[t] # 0
  /\ changes' = Append(changes, hand[t])
  /\ returned' = [returned EXCEPT ![hand[t]] = Len(changes')]
  /\ hand' = [hand EXCEPT ![t] = 0]
  /\ UNCHANGED <<begun, offset>>

AppendPush(t) ==
  /\ hand[t] # 0
  /\ changes' = Append(changes, hand[t])
  /\ returned' = [returned EXCEPT ![hand[t]] = offset[t]]
  /\ hand' = [hand EXCEPT ![t] = 0]
  /\ UNCHANGED <<begun, offset>>

StoreNext == \E t \in Threads : AppendLen(t) \/ AppendPush(t)
StoreSpec == StoreInit /\ [][StoreNext]_storeVars

GetSince(o) == SubSeq(changes, o + 1, Len(changes))

----------------------------------------------------------------------------
(* Properties                                                              *)

Log == INSTANCE AppendLog WITH
         Changes <- 1..MaxAppends,
         accepted <- 1..begun,
         waiting <- {hand[t] : t \in Threads} \ {0},
         log <- changes,
         durable <- 0

\* The store is an append-only log: every change accepted enters it once, behind
\* the others, and nothing leaves it or moves, however appends interleave.
\* (Nothing is promised durable.)
ImplementsAppendLog == Log!LogSpec

\* "Append a change to the log" (src/persist.rs:60), "Get changes since a given
\* offset" (src/persist.rs:63): whoever reads from the offset append returned
\* gets the change, although other appends come between its two locks. (Two
\* changes can be given one offset, and a change can lie any number of places
\* behind its own.)
OffsetFindsChange ==
  \A i \in DOMAIN changes :
    \E j \in DOMAIN GetSince(returned[changes[i]]) : GetSince(returned[changes[i]])[j] = changes[i]
=============================================================================
