-------------------------- MODULE FileStoreProofs --------------------------
(***************************************************************************)
(* Proofs about FileChangeStore, for any number of threads, appends and    *)
(* reopenings, every flush threshold, every index interval and everything  *)
(* that may go wrong.                                                      *)
(***************************************************************************)
EXTENDS FileChangeStore, SequenceTheorems, NaturalsInduction, WellFoundedInduction, TLAPS

USE StoreAssumption

(* ------------------------- the inductive invariant ----------------------- *)

Steps == {"idle", "buffer", "take", "write", "sync", "release",
          "rename", "replace", "clearIndex", "setTail"}
Change == 1..MaxAppends

\* An index entry either knows no position or points at its own record.
Entry == {e \in [offset : Nat, position : Nat] : e.position = 0 \/ e.position = e.offset + 1}

FileType ==
  /\ recs \in Seq(Change \cup {Torn}) /\ synced \in Nat /\ synced <= Len(recs)
  /\ alive \in BOOLEAN /\ handle \in {"none", "log", "orphan"}
  /\ tail \in Nat /\ buffer \in Seq(Change) /\ index \in Seq(Entry)
  /\ pc \in [Threads -> Steps] /\ ret \in [Threads -> {"idle", "release"}]
  /\ batch \in [Threads -> Seq(Change)]
  /\ appended \in Seq(Nat) /\ Len(appended) <= MaxAppends /\ acked \subseteq Change

\* Only a thread between taking changes and being done with them holds any, and
\* a store that is not open holds nothing.
Holding ==
  /\ \A t \in Threads : pc[t] \notin {"buffer", "write", "sync"} => batch[t] = <<>>
  /\ ~alive => buffer = <<>> /\ \A t \in Threads : pc[t] = "idle"

\* The changes given to append so far: no other is anywhere.
Known ==
  /\ Range(buffer) \subseteq 1..Len(appended) /\ acked \subseteq 1..Len(appended)
  /\ Range(recs) \subseteq (1..Len(appended)) \cup {Torn}
  /\ \A t \in Threads : Range(batch[t]) \subseteq 1..Len(appended)

\* No change twice in a sequence; the torn record is none.
NoRepeat(s) == \A i, j \in DOMAIN s : s[i] = s[j] => i = j \/ s[i] = Torn

\* A change is in one place: the buffer, the hands of one thread, or the log and
\* perhaps the hands of the thread that wrote it there; one that was
\* acknowledged is in no hands.
OnePlace ==
  /\ NoRepeat(recs) /\ NoRepeat(buffer)
  /\ Range(buffer) \cap Range(recs) = {} /\ Range(buffer) \cap acked = {}
  /\ \A t \in Threads :
       /\ NoRepeat(batch[t])
       /\ Range(batch[t]) \cap Range(buffer) = {} /\ Range(batch[t]) \cap acked = {}
       /\ pc[t] # "sync" => Range(batch[t]) \cap Range(recs) = {}
  /\ \A t, u \in Threads : t # u => Range(batch[t]) \cap Range(batch[u]) = {}

\* What a thread wrote through a handle on the log is in it until it is
\* acknowledged; what was acknowledged and is in the log is covered by sync_all.
Written ==
  /\ \A t \in Threads : pc[t] = "sync" /\ handle = "log" => Range(batch[t]) \subseteq Range(recs)
  /\ \A c \in acked : c \in Range(recs) => \E i \in 1..synced : recs[i] = c

FileInv == FileType /\ Holding /\ Known /\ OnePlace /\ Written

(* ------------------------- sequences of records -------------------------- *)

\* What is in a sequence.
LEMMA RangeOf ==
  ASSUME NEW S, NEW s \in Seq(S)
  PROVE  /\ DOMAIN s = 1..Len(s) /\ Len(s) \in Nat /\ Range(s) \subseteq S
         /\ \A i \in 1..Len(s) : s[i] \in Range(s)
         /\ \A x \in Range(s) : \E i \in 1..Len(s) : s[i] = x
<1>1. DOMAIN s = 1..Len(s) /\ Len(s) \in Nat /\ \A i \in 1..Len(s) : s[i] \in S
  BY LenProperties, ElementOfSeq
<1> QED BY <1>1 DEF Range

\* Nothing is in the empty sequence.
LEMMA RangeEmpty == Range(<<>>) = {} /\ NoRepeat(<<>>)
<1>1. DOMAIN <<>> = {}
  OBVIOUS
<1> QED BY <1>1 DEF Range, NoRepeat

\* One change alone.
LEMMA Single ==
  ASSUME NEW S, NEW x \in S
  PROVE  /\ <<x>> \in Seq(S) /\ Len(<<x>>) = 1 /\ <<x>>[1] = x
         /\ Range(<<x>>) = {x} /\ NoRepeat(<<x>>)
<1>1. <<x>> \in Seq(S) /\ Len(<<x>>) = 1 /\ <<x>>[1] = x /\ DOMAIN <<x>> = {1}
  OBVIOUS
<1> QED BY <1>1 DEF Range, NoRepeat

\* write_all puts the batch behind the log.
LEMMA Concatenated ==
  ASSUME NEW S, NEW s \in Seq(S), NEW t \in Seq(S)
  PROVE  /\ s \o t \in Seq(S) /\ Len(s \o t) = Len(s) + Len(t) /\ Len(s) \in Nat /\ Len(t) \in Nat
         /\ \A i \in 1..Len(s) : (s \o t)[i] = s[i]
         /\ \A i \in 1..Len(t) : (s \o t)[Len(s) + i] = t[i]
         /\ Range(s \o t) = Range(s) \cup Range(t)
<1> DEFINE r == s \o t
<1>1. /\ r \in Seq(S) /\ Len(r) = Len(s) + Len(t) /\ Len(s) \in Nat /\ Len(t) \in Nat
      /\ \A i \in 1..(Len(s) + Len(t)) : r[i] = IF i <= Len(s) THEN s[i] ELSE t[i - Len(s)]
  BY ConcatProperties, LenProperties
<1> HIDE DEF r
<1>2. \A i \in 1..Len(s) : r[i] = s[i]
  BY <1>1
<1>3. ASSUME NEW i \in 1..Len(t) PROVE r[Len(s) + i] = t[i]
  <2>0. Len(s) \in Nat /\ Len(t) \in Nat
    BY <1>1
  <2>1. PICK k \in 1..(Len(s) + Len(t)) : k = Len(s) + i /\ ~(k <= Len(s)) /\ k - Len(s) = i
    BY <2>0
  <2>2. r[k] = t[k - Len(s)]
    BY <2>1, <1>1
  <2> QED BY <2>1, <2>2
<1>4. Range(s) \subseteq Range(r)
  <2>1. \A x \in Range(s) : \E i \in 1..Len(s) : s[i] = x
    BY RangeOf
  <2>2. \A i \in 1..Len(r) : r[i] \in Range(r)
    BY <1>1, RangeOf
  <2>3. \A i \in 1..Len(s) : i \in 1..Len(r)
    BY <1>1
  <2> QED BY <2>1, <2>2, <2>3, <1>2
<1>5. Range(t) \subseteq Range(r)
  <2>1. \A x \in Range(t) : \E i \in 1..Len(t) : t[i] = x
    BY RangeOf
  <2>2. \A i \in 1..Len(r) : r[i] \in Range(r)
    BY <1>1, RangeOf
  <2>3. \A i \in 1..Len(t) : Len(s) + i \in 1..Len(r)
    BY <1>1
  <2> QED BY <2>1, <2>2, <2>3, <1>3
<1>6. Range(r) \subseteq Range(s) \cup Range(t)
  <2> SUFFICES ASSUME NEW x \in Range(r) PROVE x \in Range(s) \cup Range(t)
    OBVIOUS
  <2>1. PICK i \in 1..Len(r) : r[i] = x
    BY <1>1, RangeOf
  <2>2. CASE i <= Len(s)
    <3>1. i \in 1..Len(s)
      BY <2>2, <1>1
    <3> QED BY <3>1, <2>1, <1>2, RangeOf
  <2>3. CASE ~(i <= Len(s))
    <3>1. PICK k \in 1..Len(t) : i = Len(s) + k
      <4>1. i - Len(s) \in 1..Len(t) /\ i = Len(s) + (i - Len(s))
        BY <2>3, <1>1
      <4> QED BY <4>1
    <3> QED BY <3>1, <2>1, <1>3, RangeOf
  <2> QED BY <2>2, <2>3
<1> QED BY <1>1, <1>2, <1>3, <1>4, <1>5, <1>6 DEF r

\* Sequences without repetition and without common changes, one behind the other.
LEMMA ConcatNoRepeat ==
  ASSUME NEW S, NEW s \in Seq(S), NEW t \in Seq(S), NoRepeat(s), NoRepeat(t),
         Range(s) \cap Range(t) \subseteq {Torn}
  PROVE  NoRepeat(s \o t)
<1> DEFINE r == s \o t
<1>1. /\ r \in Seq(S) /\ Len(r) = Len(s) + Len(t) /\ Len(s) \in Nat /\ Len(t) \in Nat
      /\ \A i \in 1..Len(s) : r[i] = s[i]
      /\ \A i \in 1..Len(t) : r[Len(s) + i] = t[i]
  BY Concatenated
<1>2. DOMAIN r = 1..Len(r) /\ DOMAIN s = 1..Len(s) /\ DOMAIN t = 1..Len(t)
  BY <1>1, RangeOf
<1>3. /\ \A i \in 1..Len(s) : s[i] \in Range(s)
      /\ \A i \in 1..Len(t) : t[i] \in Range(t)
  BY RangeOf
<1> HIDE DEF r
<1>4. \A i \in 1..Len(r) : i \in 1..Len(s) \/ \E k \in 1..Len(t) : i = Len(s) + k
  <2> TAKE i \in 1..Len(r)
  <2>1. i \in 1..Len(s) \/ (i - Len(s) \in 1..Len(t) /\ i = Len(s) + (i - Len(s)))
    BY <1>1
  <2> QED BY <2>1
<1>5. SUFFICES ASSUME NEW i \in 1..Len(r), NEW j \in 1..Len(r), r[i] = r[j] PROVE i = j \/ r[i] = Torn
  BY <1>2 DEF NoRepeat, r
<1>6. CASE i \in 1..Len(s) /\ j \in 1..Len(s)
  BY <1>5, <1>6, <1>1, <1>2 DEF NoRepeat
<1>7. CASE i \in 1..Len(s) /\ j \notin 1..Len(s)
  <2>1. PICK k \in 1..Len(t) : j = Len(s) + k
    BY <1>7, <1>4
  <2>2. s[i] = t[k] /\ r[i] = s[i]
    BY <2>1, <1>1, <1>5, <1>7
  <2> QED BY <2>2, <1>3, <1>7
<1>8. CASE i \notin 1..Len(s) /\ j \in 1..Len(s)
  <2>1. PICK k \in 1..Len(t) : i = Len(s) + k
    BY <1>8, <1>4
  <2>2. s[j] = t[k] /\ r[i] = t[k]
    BY <2>1, <1>1, <1>5, <1>8
  <2> QED BY <2>2, <1>3, <1>8
<1>9. CASE i \notin 1..Len(s) /\ j \notin 1..Len(s)
  <2>1. PICK k \in 1..Len(t) : i = Len(s) + k
    BY <1>9, <1>4
  <2>2. PICK m \in 1..Len(t) : j = Len(s) + m
    BY <1>9, <1>4
  <2>3. t[k] = t[m] /\ r[i] = t[k]
    BY <2>1, <2>2, <1>1, <1>5
  <2>4. k = m \/ t[k] = Torn
    BY <2>3, <1>2 DEF NoRepeat
  <2> QED BY <2>1, <2>2, <2>3, <2>4
<1> QED BY <1>6, <1>7, <1>8, <1>9

\* A beginning of a sequence.
LEMMA Beginning ==
  ASSUME NEW S, NEW s \in Seq(S), NEW n \in Nat, n <= Len(s)
  PROVE  LET r == SubSeq(s, 1, n)
         IN  /\ r \in Seq(S) /\ Len(r) = n /\ \A i \in 1..n : r[i] = s[i]
             /\ Range(r) \subseteq Range(s)
             /\ NoRepeat(s) => NoRepeat(r)
<1> DEFINE r == SubSeq(s, 1, n)
<1>1. /\ DOMAIN s = 1..Len(s) /\ Len(s) \in Nat /\ \A i \in 1..Len(s) : s[i] \in Range(s) /\ s[i] \in S
  BY RangeOf, ElementOfSeq
<1>2. \A i \in 1..n : i \in 1..Len(s)
  BY <1>1
<1>3. /\ r \in Seq(S) /\ Len(r) = IF 1 <= n THEN n - 1 + 1 ELSE 0
      /\ \A i \in 1..(n - 1 + 1) : r[i] = s[1 + i - 1]
  BY <1>1, <1>2, SubSeqProperties
<1>4. r \in Seq(S) /\ Len(r) = n /\ \A i \in 1..n : r[i] = s[i]
  BY <1>3
<1> HIDE DEF r
<1>5. DOMAIN r = 1..n /\ \A x \in Range(r) : \E i \in 1..n : r[i] = x
  BY <1>4, RangeOf
<1>6. Range(r) \subseteq Range(s)
  BY <1>1, <1>2, <1>4, <1>5
<1>7. NoRepeat(s) => NoRepeat(r)
  BY <1>1, <1>2, <1>4, <1>5 DEF NoRepeat
<1> QED BY <1>4, <1>6, <1>7 DEF r

(* ------------------------- the index and the readable log ---------------- *)

\* A set of numbers that is not empty has a least one.
LEMMA LeastOf ==
  ASSUME NEW T, T \subseteq Nat, T # {}
  PROVE  Min(T) \in T /\ \A y \in T : Min(T) <= y
<1> DEFINE R == {ss \in Nat \X Nat : ss[1] < ss[2]}
<1>1. IsWellFoundedOn(R, Nat)
  BY NatLessThanWellFounded DEF OpToRel
<1>2. \A x, y \in Nat : ~ (<<y, x>> \in R) => x <= y
  OBVIOUS
<1> HIDE DEF R
<1>3. \E x \in T : \A y \in T : ~ (<<y, x>> \in R)
  BY <1>1, WFMin
<1>4. \E x \in T : \A y \in T : x <= y
  BY <1>2, <1>3
<1>5. Min(T) = CHOOSE x \in T : \A y \in T : x <= y
  BY DEF Min
<1> QED BY <1>4, <1>5

\* Where build_index stops.
LEMMA ScannedIs ==
  ASSUME NEW s \in Seq(Change \cup {Torn}), Torn \in Range(s)
  PROVE  LET n == Min({i \in DOMAIN s : s[i] = Torn})
         IN  n \in 1..Len(s) /\ s[n] = Torn /\ \A i \in 1..(n - 1) : s[i] # Torn
<1> DEFINE T == {i \in DOMAIN s : s[i] = Torn}
           n == Min(T)
<1>1. DOMAIN s = 1..Len(s) /\ Len(s) \in Nat
  BY RangeOf
<1>2. T \subseteq Nat /\ T # {}
  BY <1>1 DEF Range
<1> HIDE DEF T
<1>3. n \in T /\ \A y \in T : n <= y
  BY <1>2, LeastOf
<1> HIDE DEF n
<1>4. n \in 1..Len(s) /\ s[n] = Torn
  BY <1>1, <1>3 DEF T
<1>5. ASSUME NEW i \in 1..(n - 1) PROVE s[i] # Torn
  <2>1. i \in DOMAIN s /\ ~(n <= i)
    BY <1>1, <1>4
  <2> QED BY <2>1, <1>3 DEF T
<1> QED BY <1>4, <1>5 DEF n, T

\* The records a reader gets at, of any file.
ReadableOf(s) ==
  IF Torn \notin Range(s) THEN s ELSE SubSeq(s, 1, Min({i \in DOMAIN s : s[i] = Torn}) - 1)

\* They are what precedes the first torn record.
LEMMA ReadableIs ==
  ASSUME NEW s \in Seq(Change \cup {Torn})
  PROVE  LET r == ReadableOf(s)
         IN  /\ r \in Seq(Change) /\ Len(r) \in Nat /\ Len(r) <= Len(s) /\ Len(s) \in Nat
             /\ \A i \in 1..Len(r) : r[i] = s[i] /\ s[i] # Torn
             /\ Len(r) = Len(s) \/ (Len(r) < Len(s) /\ s[Len(r) + 1] = Torn)
<1> DEFINE r == ReadableOf(s)
<1>1. /\ Len(s) \in Nat /\ DOMAIN s = 1..Len(s)
      /\ \A i \in 1..Len(s) : s[i] \in Change \cup {Torn} /\ s[i] \in Range(s)
  BY RangeOf, ElementOfSeq
<1>2. CASE Torn \notin Range(s)
  <2>1. r = s /\ \A i \in 1..Len(s) : s[i] \in Change /\ s[i] # Torn
    BY <1>1, <1>2 DEF ReadableOf
  <2>2. s \in [1..Len(s) -> Change]
    BY <2>1, <1>1, LenProperties
  <2>3. s \in Seq(Change)
    BY <2>2, <1>1
  <2> QED BY <2>1, <2>3, <1>1
<1>3. CASE Torn \in Range(s)
  <2> DEFINE n == Min({i \in DOMAIN s : s[i] = Torn})
             m == n - 1
  <2>1. n \in 1..Len(s) /\ s[n] = Torn /\ \A i \in 1..(n - 1) : s[i] # Torn
    BY <1>3, ScannedIs
  <2>2. r = SubSeq(s, 1, m)
    BY <1>3 DEF ReadableOf
  <2> HIDE DEF n
  <2>3. m \in Nat /\ m < Len(s) /\ m + 1 = n
    BY <2>1, <1>1
  <2>4. \A i \in 1..m : s[i] \in Change /\ s[i] # Torn
    <3> TAKE i \in 1..m
    <3>1. i \in 1..Len(s)
      BY <2>3, <1>1
    <3> QED BY <3>1, <2>1, <1>1
  <2> HIDE DEF m
  <2>5. /\ SubSeq(s, 1, m) \in Seq(Change) /\ Len(SubSeq(s, 1, m)) = IF 1 <= m THEN m - 1 + 1 ELSE 0
        /\ \A i \in 1..(m - 1 + 1) : SubSeq(s, 1, m)[i] = s[1 + i - 1]
    BY <2>3, <2>4, SubSeqProperties
  <2>6. r \in Seq(Change) /\ Len(r) = m /\ \A i \in 1..m : r[i] = s[i]
    BY <2>2, <2>3, <2>5
  <2> HIDE DEF r
  <2>7. s[m + 1] = Torn
    BY <2>1, <2>3
  <2>8. /\ Len(r) \in Nat /\ Len(r) <= Len(s) /\ Len(s) \in Nat
        /\ Len(r) < Len(s) /\ s[Len(r) + 1] = Torn
    BY <2>3, <2>6, <2>7, <1>1
  <2>9. \A i \in 1..Len(r) : r[i] = s[i] /\ s[i] # Torn
    BY <2>4, <2>6
  <2> QED BY <2>6, <2>8, <2>9 DEF r
<1> QED BY <1>2, <1>3

\* Only they are that.
LEMMA ReadableUnique ==
  ASSUME NEW s \in Seq(Change \cup {Torn}), NEW r \in Seq(Change), Len(r) <= Len(s),
         \A i \in 1..Len(r) : r[i] = s[i],
         Len(r) = Len(s) \/ s[Len(r) + 1] = Torn
  PROVE  ReadableOf(s) = r
<1> DEFINE q == ReadableOf(s)
<1>1. /\ q \in Seq(Change) /\ Len(q) \in Nat /\ Len(q) <= Len(s) /\ Len(s) \in Nat
      /\ \A i \in 1..Len(q) : q[i] = s[i] /\ s[i] # Torn
      /\ Len(q) = Len(s) \/ (Len(q) < Len(s) /\ s[Len(q) + 1] = Torn)
  BY ReadableIs
<1>2. Len(r) \in Nat /\ \A i \in 1..Len(r) : r[i] \in Change /\ r[i] # Torn
  BY LenProperties, ElementOfSeq DEF Change
<1> HIDE DEF q
<1>3. ~(Len(q) < Len(r))
  <2> SUFFICES ASSUME Len(q) < Len(r) PROVE FALSE
    OBVIOUS
  <2>1. Len(q) + 1 \in 1..Len(r) /\ Len(q) # Len(s)
    BY <1>1, <1>2
  <2> QED BY <2>1, <1>1, <1>2
<1>4. ~(Len(r) < Len(q))
  <2> SUFFICES ASSUME Len(r) < Len(q) PROVE FALSE
    OBVIOUS
  <2>1. Len(r) + 1 \in 1..Len(q) /\ Len(r) # Len(s)
    BY <1>1, <1>2
  <2> QED BY <2>1, <1>1, <1>2
<1>5. Len(q) = Len(r)
  BY <1>1, <1>2, <1>3, <1>4
<1> QED BY <1>1, <1>2, <1>5, SeqEqual DEF q

\* build_index makes entries that point at their own records.
LEMMA BuildIndexType ==
  ASSUME recs \in Seq(Change \cup {Torn}), NEW k \in Counted
  PROVE  BuildIndex(k) \in Seq(Entry)
<1>1. k \in Nat
  <2>1. Len(recs) \in Nat /\ DOMAIN recs = 1..Len(recs)
    BY RangeOf
  <2>2. CASE \E i \in DOMAIN recs : recs[i] = Torn
    <3>1. Torn \in Range(recs)
      BY <2>2 DEF Range
    <3>2. Min({i \in DOMAIN recs : recs[i] = Torn}) \in 1..Len(recs)
      BY <3>1, ScannedIs
    <3>3. Scanned \in 1..Len(recs)
      BY <3>2, <2>2 DEF Scanned
    <3>4. k = Scanned - 1 \/ k = Scanned
      BY <2>2 DEF Counted
    <3> QED BY <3>3, <3>4, <2>1
  <2>3. CASE ~\E i \in DOMAIN recs : recs[i] = Torn
    <3>1. k = Len(recs)
      BY <2>3 DEF Counted, Scanned
    <3> QED BY <3>1, <2>1
  <2> QED BY <2>2, <2>3
<1> DEFINE n == (k + IndexInterval - 1) \div IndexInterval
           e(j) == [offset |-> (j - 1) * IndexInterval, position |-> (j - 1) * IndexInterval + 1]
<1>2. n \in Nat
  BY <1>1
<1>3. ASSUME NEW j \in 1..n PROVE e(j) \in Entry
  <2>1. (j - 1) * IndexInterval \in Nat
    BY <1>2
  <2> QED BY <2>1 DEF Entry
<1> HIDE DEF n
<1>4. [j \in 1..n |-> e(j)] \in Seq(Entry)
  <2> DEFINE f == [j \in 1..n |-> e(j)]
  <2>1. f \in [1..n -> Entry]
    BY <1>3
  <2> HIDE DEF f
  <2>2. f \in Seq(Entry)
    BY <2>1, <1>2
  <2> QED BY <2>2 DEF f
<1> QED BY <1>4 DEF BuildIndex, n

\* flush adds entries without a position.
LEMMA FlushEntriesType ==
  ASSUME tail \in Nat, NEW len \in Nat
  PROVE  FlushEntries(len) \in Seq(Entry)
<1> DEFINE n == (len + IndexInterval - 1) \div IndexInterval
           first == IF tail > len THEN tail - len ELSE 0
           e(j) == [offset |-> first + (j - 1) * IndexInterval, position |-> 0]
<1>1. n \in Nat /\ first \in Nat
  OBVIOUS
<1>2. ASSUME NEW j \in 1..n PROVE e(j) \in Entry
  <2>1. (j - 1) * IndexInterval \in Nat
    BY <1>1
  <2> HIDE DEF first
  <2>2. first + (j - 1) * IndexInterval \in Nat
    BY <1>1, <2>1
  <2> QED BY <2>2 DEF Entry
<1> HIDE DEF n, first
<1>3. [j \in 1..n |-> e(j)] \in Seq(Entry)
  <2>1. [j \in 1..n |-> e(j)] \in [1..n -> Entry]
    BY <1>2
  <2>2. PICK s \in [1..n -> Entry] : s = [j \in 1..n |-> e(j)]
    BY <2>1
  <2>3. s \in Seq(Entry)
    BY <1>1
  <2> QED BY <2>2, <2>3
<1> QED BY <1>3, EmptySeq DEF FlushEntries, n, first

(* ------------------------- the invariant, step by step ------------------- *)

Resting == Steps \ {"buffer", "write", "sync"}

\* A torn record is no change: nobody holds it.
LEMMA TornIsHeldNowhere ==
  ASSUME FileInv
  PROVE  Torn \notin Range(buffer) /\ Torn \notin acked /\ \A t \in Threads : Torn \notin Range(batch[t])
<1>1. Torn \notin Change
  BY DEF Change
<1>2. Range(buffer) \subseteq Change /\ acked \subseteq Change
  BY RangeOf DEF FileInv, FileType
<1>3. \A t \in Threads : Range(batch[t]) \subseteq Change
  BY RangeOf DEF FileInv, FileType
<1> QED BY <1>1, <1>2, <1>3

\* A thread that writes part of what it holds, acknowledges part of it, or drops
\* it, leaves the others' holdings alone.
LEMMA HandsEmptied ==
  ASSUME FileInv, NEW t \in Threads, NEW x \in Resting, NEW R, pc[t] # "idle",
         batch' = [batch EXCEPT ![t] = <<>>], pc' = [pc EXCEPT ![t] = x],
         UNCHANGED <<buffer, appended, alive>>,
         NoRepeat(recs'), Range(recs') = Range(recs) \cup R, R \subseteq Range(batch[t]) \cup {Torn},
         acked' \subseteq acked \cup Range(batch[t])
  PROVE  /\ Holding' /\ Known' /\ OnePlace' /\ acked' \subseteq Change
         /\ batch' \in [Threads -> Seq(Change)] /\ pc' \in [Threads -> Steps]
<1>1. /\ batch \in [Threads -> Seq(Change)] /\ pc \in [Threads -> Steps] /\ acked \subseteq Change
  BY DEF FileInv, FileType
<1>2. batch' \in [Threads -> Seq(Change)] /\ pc' \in [Threads -> Steps]
  BY <1>1, EmptySeq DEF Resting
<1>3. /\ batch'[t] = <<>> /\ pc'[t] = x /\ x \notin {"buffer", "write", "sync"}
      /\ \A u \in Threads \ {t} : batch'[u] = batch[u] /\ pc'[u] = pc[u]
  BY <1>1 DEF Resting
<1>4. Range(batch[t]) \subseteq Change
  BY <1>1, RangeOf
<1>5. acked' \subseteq Change
  BY <1>1, <1>4
<1>6. Range(batch'[t]) = {} /\ NoRepeat(batch'[t])
  BY <1>3, RangeEmpty
<1>7. alive
  BY DEF FileInv, Holding
<1>8. Holding'
  BY <1>3, <1>7 DEF FileInv, Holding
<1>9. Known'
  <2>1. /\ Range(buffer) \subseteq 1..Len(appended) /\ acked \subseteq 1..Len(appended)
        /\ Range(recs) \subseteq (1..Len(appended)) \cup {Torn}
        /\ \A u \in Threads : Range(batch[u]) \subseteq 1..Len(appended)
    BY DEF FileInv, Known
  <2>2. \A u \in Threads : Range(batch'[u]) \subseteq 1..Len(appended)
    BY <2>1, <1>3, <1>6
  <2> QED BY <2>1, <2>2 DEF Known
<1>10. OnePlace'
  <2>1. Torn \notin Range(buffer) /\ \A u \in Threads : Torn \notin Range(batch[u])
    BY TornIsHeldNowhere
  <2>2. Range(buffer) \cap Range(recs') = {} /\ Range(buffer) \cap acked' = {}
    BY <2>1 DEF FileInv, OnePlace
  <2>3. ASSUME NEW u \in Threads
        PROVE  /\ NoRepeat(batch'[u])
               /\ Range(batch'[u]) \cap Range(buffer') = {} /\ Range(batch'[u]) \cap acked' = {}
               /\ pc'[u] # "sync" => Range(batch'[u]) \cap Range(recs') = {}
    <3>1. CASE u = t
      BY <3>1, <1>6
    <3>2. CASE u # t
      <4>1. batch'[u] = batch[u] /\ pc'[u] = pc[u]
        BY <3>2, <1>3
      <4>2. Range(batch[u]) \cap Range(batch[t]) = {} /\ Torn \notin Range(batch[u])
        BY <3>2, <2>1 DEF FileInv, OnePlace
      <4>3. /\ NoRepeat(batch[u])
            /\ Range(batch[u]) \cap Range(buffer) = {} /\ Range(batch[u]) \cap acked = {}
            /\ pc[u] # "sync" => Range(batch[u]) \cap Range(recs) = {}
        BY DEF FileInv, OnePlace
      <4> QED BY <4>1, <4>2, <4>3
    <3> QED BY <3>1, <3>2
  <2>4. ASSUME NEW u \in Threads, NEW v \in Threads, u # v
        PROVE  Range(batch'[u]) \cap Range(batch'[v]) = {}
    BY <2>4, <1>3, <1>6 DEF FileInv, OnePlace
  <2>5. NoRepeat(buffer')
    BY DEF FileInv, OnePlace
  <2> QED BY <2>2, <2>3, <2>4, <2>5 DEF OnePlace
<1> QED BY <1>2, <1>5, <1>8, <1>9, <1>10

\* A step between resting places that moves no change.
LEMMA RestingStep ==
  ASSUME FileInv, NEW t \in Threads, NEW x \in Resting, pc[t] \in Resting, alive,
         pc' = [pc EXCEPT ![t] = x], ret' \in [Threads -> {"idle", "release"}],
         handle' \in {handle, "none"}, tail' \in Nat, index' \in Seq(Entry),
         UNCHANGED <<recs, synced, alive, buffer, batch, appended, acked>>
  PROVE  FileInv'
<1>1. pc \in [Threads -> Steps] /\ pc' \in [Threads -> Steps]
  BY DEF FileInv, FileType, Resting
<1>2. /\ pc'[t] = x /\ x \notin {"buffer", "write", "sync"} /\ pc[t] \notin {"buffer", "write", "sync"}
      /\ \A u \in Threads \ {t} : pc'[u] = pc[u]
  BY <1>1 DEF Resting
<1>3. FileType'
  BY <1>1 DEF FileInv, FileType
<1>4. Holding'
  BY <1>2 DEF FileInv, Holding
<1>5. Known'
  BY DEF FileInv, Known
<1>6. OnePlace'
  <2>1. \A u \in Threads : pc'[u] # "sync" => pc[u] # "sync"
    BY <1>2
  <2> QED BY <2>1 DEF FileInv, OnePlace
<1>7. Written'
  <2>1. \A u \in Threads : pc'[u] = "sync" => pc[u] = "sync"
    BY <1>2
  <2> QED BY <2>1 DEF FileInv, Written
<1> QED BY <1>3, <1>4, <1>5, <1>6, <1>7 DEF FileInv

\* A thread that is not idle runs in a process that is alive.
LEMMA BusyIsAlive ==
  ASSUME FileInv, NEW t \in Threads, pc[t] # "idle"
  PROVE  alive
  BY DEF FileInv, Holding

\* The steps of close and compact that move no change, and the start of a flush.
LEMMA ControlKeeps ==
  ASSUME FileInv, NEW t \in Threads,
         \/ FlushStart(t) \/ CloseStart(t) \/ CloseRelease(t)
         \/ CompactBegin(t) \/ CompactRename(t) \/ CompactFails(t)
         \/ CompactClearIndex(t) \/ CompactSetTail(t)
  PROVE  FileInv'
<1> USE DEF disk, memory, history
<1>1. /\ ret \in [Threads -> {"idle", "release"}] /\ tail \in Nat /\ index \in Seq(Entry)
      /\ Len(CompactedRecords) \in Nat /\ <<>> \in Seq(Entry)
  BY EmptySeq DEF FileInv, FileType, CompactedRecords
<1>2. CASE FlushStart(t)
  BY <1>1, <1>2, RestingStep DEF FlushStart, Resting, Steps
<1>3. CASE CloseStart(t)
  BY <1>1, <1>3, RestingStep DEF CloseStart, Resting, Steps
<1>4. CASE CloseRelease(t)
  BY <1>1, <1>4, RestingStep, BusyIsAlive DEF CloseRelease, Resting, Steps
<1>5. CASE CompactBegin(t)
  BY <1>1, <1>5, RestingStep DEF CompactBegin, Resting, Steps
<1>6. CASE CompactRename(t)
  BY <1>1, <1>6, RestingStep, BusyIsAlive DEF CompactRename, Resting, Steps
<1>7. CASE CompactFails(t)
  BY <1>1, <1>7, RestingStep, BusyIsAlive DEF CompactFails, Resting, Steps
<1>8. CASE CompactClearIndex(t)
  BY <1>1, <1>8, RestingStep, BusyIsAlive DEF CompactClearIndex, Resting, Steps
<1>9. CASE CompactSetTail(t)
  BY <1>1, <1>9, RestingStep, BusyIsAlive DEF CompactSetTail, Resting, Steps
<1> QED BY <1>2, <1>3, <1>4, <1>5, <1>6, <1>7, <1>8, <1>9

\* The second rename of a compaction empties the log and orphans the handle.
LEMMA CompactReplaceKeeps ==
  ASSUME FileInv, NEW t \in Threads, CompactReplace(t)
  PROVE  FileInv'
<1> USE DEF disk, memory, history
<1>1. /\ recs' = <<>> /\ synced' = 0 /\ handle' # "log" /\ handle' \in {"none", "orphan"}
      /\ pc' = [pc EXCEPT ![t] = "clearIndex"] /\ pc[t] = "replace"
      /\ UNCHANGED <<alive, tail, buffer, index, ret, batch, appended, acked>>
  BY DEF CompactReplace, CompactedRecords, FileInv, FileType
<1>2. pc \in [Threads -> Steps] /\ pc' \in [Threads -> Steps]
  BY <1>1 DEF FileInv, FileType, Steps
<1>3. pc'[t] = "clearIndex" /\ \A u \in Threads \ {t} : pc'[u] = pc[u]
  BY <1>1, <1>2
<1>4. Range(recs') = {} /\ NoRepeat(recs') /\ recs' \in Seq(Change \cup {Torn}) /\ Len(recs') = 0
  BY <1>1, RangeEmpty, EmptySeq
<1>5. FileType'
  BY <1>1, <1>2, <1>4 DEF FileInv, FileType
<1>6. Holding'
  BY <1>1, <1>3 DEF FileInv, Holding
<1>7. Known'
  BY <1>1, <1>4 DEF FileInv, Known
<1>8. OnePlace'
  BY <1>1, <1>4 DEF FileInv, OnePlace
<1>9. Written'
  BY <1>1, <1>4 DEF Written
<1> QED BY <1>5, <1>6, <1>7, <1>8, <1>9 DEF FileInv

\* new: a store that was not open held nothing.
LEMMA OpenKeeps ==
  ASSUME FileInv, Open
  PROVE  FileInv'
<1> USE DEF control
<1>1. index' \in Seq(Entry)
  BY BuildIndexType DEF Open, FileInv, FileType
<1>2. tail' \in Nat
  <2>1. CASE index' = <<>>
    BY <2>1 DEF Open
  <2>2. CASE index' # <<>>
    <3>1. PICK b \in Seq(Entry) : b = index'
      BY <1>1
    <3>2. Len(b) \in 1..Len(b)
      BY <2>2, <3>1, EmptySeq
    <3>3. b[Len(b)] \in Entry
      BY <3>2, ElementOfSeq
    <3>4. b[Len(b)].offset + 1 \in Nat
      BY <3>3 DEF Entry
    <3> QED BY <2>2, <3>1, <3>4 DEF Open
  <2> QED BY <2>1, <2>2
<1>3. buffer = <<>> /\ \A t \in Threads : pc[t] = "idle"
  BY DEF Open, FileInv, Holding
<1>4. FileType'
  BY <1>1, <1>2, EmptySeq DEF Open, FileInv, FileType
<1>5. Holding'
  BY <1>3 DEF Open, FileInv, Holding
<1>6. Known' /\ OnePlace'
  BY <1>3 DEF Open, FileInv, Known, OnePlace
<1>7. Written'
  BY <1>3 DEF Open, FileInv, Written
<1> QED BY <1>4, <1>5, <1>6, <1>7 DEF FileInv

\* What a crash leaves of the file: a beginning of it, perhaps with a torn record.
LEMMA CrashLeaves ==
  ASSUME FileInv, Crash
  PROVE  \E n \in Nat :
           /\ synced <= n /\ n <= Len(recs) /\ n <= Len(recs') /\ Len(recs') \in Nat
           /\ recs' \in Seq(Change \cup {Torn}) /\ NoRepeat(recs')
           /\ \A i \in 1..n : recs'[i] = recs[i]
           /\ recs' = SubSeq(recs, 1, n) \/ (recs' = Append(SubSeq(recs, 1, n), Torn) /\ n < Len(recs))
           /\ Range(recs') \subseteq Range(recs) \cup {Torn}
<1>0. recs \in Seq(Change \cup {Torn}) /\ Len(recs) \in Nat /\ synced \in Nat /\ NoRepeat(recs)
  BY RangeOf DEF FileInv, FileType, OnePlace
<1>1. PICK n \in synced..Len(recs) :
        recs' = SubSeq(recs, 1, n) \/ (recs' = Append(SubSeq(recs, 1, n), Torn) /\ n < Len(recs))
  BY DEF Crash
<1>2. n \in Nat /\ synced <= n /\ n <= Len(recs)
  BY <1>0, <1>1
<1> DEFINE r == SubSeq(recs, 1, n)
<1>3. /\ r \in Seq(Change \cup {Torn}) /\ Len(r) = n /\ \A i \in 1..n : r[i] = recs[i]
      /\ Range(r) \subseteq Range(recs) /\ NoRepeat(r)
  BY <1>0, <1>2, Beginning
<1> HIDE DEF r
<1>4. CASE recs' = r
  BY <1>2, <1>3, <1>4 DEF r
<1>5. CASE recs' = Append(r, Torn) /\ n < Len(recs)
  <2>0. Torn \in Change \cup {Torn}
    OBVIOUS
  <2>1. PICK e \in Seq(Change \cup {Torn}) :
          e = <<Torn>> /\ Len(e) = 1 /\ Range(e) = {Torn} /\ NoRepeat(e)
    BY <2>0, Single
  <2>2. Len(e) = 1 /\ Range(e) = {Torn} /\ NoRepeat(e)
    BY <2>1
  <2>3. Append(r, Torn) = r \o e
    BY <2>1, <1>3, AppendIsConcat
  <2>4. /\ r \o e \in Seq(Change \cup {Torn}) /\ Len(r \o e) = n + 1
        /\ \A i \in 1..n : (r \o e)[i] = r[i]
        /\ Range(r \o e) = Range(r) \cup {Torn}
    <3>1. r \in Seq(Change \cup {Torn})
      BY <1>3
    <3>2. /\ r \o e \in Seq(Change \cup {Torn}) /\ Len(r \o e) = Len(r) + Len(e)
          /\ \A i \in 1..Len(r) : (r \o e)[i] = r[i]
          /\ Range(r \o e) = Range(r) \cup Range(e)
      BY <3>1, Concatenated
    <3> QED BY <3>2, <2>2, <1>3
  <2>5. NoRepeat(r \o e)
    BY <2>2, <1>3, ConcatNoRepeat
  <2>6. recs' = r \o e /\ n <= n + 1 /\ n + 1 \in Nat
    BY <1>2, <1>5, <2>3
  <2>7. Len(recs') \in Nat /\ n <= Len(recs') /\ Range(recs') \subseteq Range(recs) \cup {Torn}
    BY <2>4, <2>6, <1>3
  <2>8. \A i \in 1..n : recs'[i] = recs[i]
    BY <2>4, <2>6, <1>3
  <2>9. recs' \in Seq(Change \cup {Torn}) /\ NoRepeat(recs')
    BY <2>4, <2>5, <2>6
  <2> QED BY <1>2, <1>5, <2>7, <2>8, <2>9 DEF r
<1> QED BY <1>1, <1>4, <1>5 DEF r

\* A crash empties all hands.
LEMMA CrashKeeps ==
  ASSUME FileInv, Crash
  PROVE  FileInv'
<1> USE DEF history
<1>1. PICK n \in Nat :
        /\ synced <= n /\ n <= Len(recs) /\ n <= Len(recs') /\ Len(recs') \in Nat
        /\ recs' \in Seq(Change \cup {Torn}) /\ NoRepeat(recs')
        /\ Range(recs') \subseteq Range(recs) \cup {Torn}
  BY CrashLeaves
<1>2. /\ synced' = Len(recs') /\ alive' = FALSE /\ handle' = "none" /\ tail' = 0 /\ buffer' = <<>>
      /\ index' = <<>> /\ pc' = [t \in Threads |-> "idle"] /\ ret' = [t \in Threads |-> "idle"]
      /\ batch' = [t \in Threads |-> <<>>] /\ UNCHANGED <<appended, acked>>
  BY DEF Crash
<1>3. FileType'
  <2>1. /\ pc' \in [Threads -> Steps] /\ ret' \in [Threads -> {"idle", "release"}]
        /\ batch' \in [Threads -> Seq(Change)]
    BY <1>2, EmptySeq DEF Steps
  <2>2. synced' \in Nat /\ synced' <= Len(recs') /\ tail' \in Nat
    BY <1>1, <1>2
  <2>3. /\ alive' \in BOOLEAN /\ handle' \in {"none", "log", "orphan"}
        /\ buffer' \in Seq(Change) /\ index' \in Seq(Entry)
    BY <1>2, EmptySeq
  <2>4. appended' \in Seq(Nat) /\ Len(appended') <= MaxAppends /\ acked' \subseteq Change
    BY <1>2 DEF FileInv, FileType
  <2> QED BY <1>1, <2>1, <2>2, <2>3, <2>4 DEF FileType
<1>4. Holding'
  BY <1>2 DEF Holding
<1>5. Range(buffer') = {} /\ \A t \in Threads : Range(batch'[t]) = {} /\ NoRepeat(batch'[t])
  BY <1>2, RangeEmpty
<1>6. Known'
  BY <1>1, <1>2, <1>5 DEF FileInv, Known
<1>7. OnePlace'
  BY <1>1, <1>2, <1>5, RangeEmpty DEF OnePlace
<1>8. Written'
  <2>1. \A x \in Range(recs') : \E i \in 1..Len(recs') : recs'[i] = x
    BY <1>1, RangeOf
  <2> QED BY <2>1, <1>2 DEF Written
<1> QED BY <1>3, <1>4, <1>6, <1>7, <1>8 DEF FileInv

\* append takes an offset: the new change is one nobody has seen.
LEMMA AppendOffsetKeeps ==
  ASSUME FileInv, NEW t \in Threads, AppendOffset(t)
  PROVE  FileInv'
<1> USE DEF disk, memory, history
<1>1. PICK c : c = Len(appended) + 1
  OBVIOUS
<1>2. /\ alive /\ pc[t] = "idle" /\ Len(appended) < MaxAppends /\ tail' = tail + 1
      /\ appended' = Append(appended, tail) /\ batch' = [batch EXCEPT ![t] = <<c>>]
      /\ pc' = [pc EXCEPT ![t] = "buffer"]
      /\ UNCHANGED <<recs, synced, alive, handle, buffer, index, ret, acked>>
  BY <1>1 DEF AppendOffset
<1>3. /\ appended \in Seq(Nat) /\ Len(appended) \in Nat /\ tail \in Nat
      /\ batch \in [Threads -> Seq(Change)] /\ pc \in [Threads -> Steps]
  BY LenProperties DEF FileInv, FileType
<1>4. appended' \in Seq(Nat) /\ Len(appended') = c /\ c \in Nat /\ c \in Change /\ tail' \in Nat
  BY <1>1, <1>2, <1>3, AppendProperties DEF Change
<1>5. <<c>> \in Seq(Change) /\ Range(<<c>>) = {c} /\ NoRepeat(<<c>>)
  BY <1>4, Single
<1>6. batch' \in [Threads -> Seq(Change)] /\ pc' \in [Threads -> Steps]
  BY <1>2, <1>3, <1>5 DEF Steps
<1>7. /\ Range(batch'[t]) = {c} /\ NoRepeat(batch'[t]) /\ pc'[t] = "buffer"
      /\ \A u \in Threads \ {t} : batch'[u] = batch[u] /\ pc'[u] = pc[u]
  BY <1>2, <1>3, <1>5
<1>8. FileType'
  BY <1>2, <1>4, <1>6 DEF FileInv, FileType, Change
<1>9. Holding'
  BY <1>2, <1>7 DEF FileInv, Holding
<1>10. /\ c \notin Range(buffer) /\ c \notin acked /\ c \notin Range(recs)
       /\ \A u \in Threads : c \notin Range(batch[u])
  <2>1. c \notin 1..Len(appended) /\ c # Torn
    BY <1>1, <1>3, <1>4
  <2> QED BY <2>1 DEF FileInv, Known
<1>11. Known'
  <2>1. 1..Len(appended) \subseteq 1..Len(appended') /\ c \in 1..Len(appended')
    BY <1>1, <1>3, <1>4
  <2>2. \A u \in Threads : Range(batch'[u]) \subseteq 1..Len(appended')
    BY <2>1, <1>7 DEF FileInv, Known
  <2> QED BY <2>1, <2>2, <1>2 DEF FileInv, Known
<1>12. OnePlace'
  <2>1. ASSUME NEW u \in Threads
        PROVE  /\ NoRepeat(batch'[u])
               /\ Range(batch'[u]) \cap Range(buffer) = {} /\ Range(batch'[u]) \cap acked = {}
               /\ pc'[u] # "sync" => Range(batch'[u]) \cap Range(recs) = {}
    BY <1>7, <1>10 DEF FileInv, OnePlace
  <2>2. ASSUME NEW u \in Threads, NEW v \in Threads, u # v
        PROVE  Range(batch'[u]) \cap Range(batch'[v]) = {}
    BY <2>2, <1>7, <1>10 DEF FileInv, OnePlace
  <2> QED BY <2>1, <2>2, <1>2 DEF FileInv, OnePlace
<1>13. Written'
  BY <1>2, <1>7 DEF FileInv, Written
<1> QED BY <1>8, <1>9, <1>11, <1>12, <1>13 DEF FileInv

\* append buffers: the change goes from the thread's hands to the buffer.
LEMMA AppendBufferKeeps ==
  ASSUME FileInv, NEW t \in Threads, AppendBuffer(t)
  PROVE  FileInv'
<1> USE DEF disk, memory, history
<1>1. PICK x : x = IF Len(buffer') >= FlushThreshold THEN "take" ELSE "idle"
  OBVIOUS
<1>2. /\ pc[t] = "buffer" /\ buffer' = buffer \o batch[t] /\ batch' = [batch EXCEPT ![t] = <<>>]
      /\ pc' = [pc EXCEPT ![t] = x] /\ ret' = [ret EXCEPT ![t] = "idle"]
      /\ UNCHANGED <<recs, synced, alive, handle, tail, index, appended, acked>>
  BY <1>1 DEF AppendBuffer
<1>3. /\ buffer \in Seq(Change) /\ batch[t] \in Seq(Change) /\ alive
      /\ batch \in [Threads -> Seq(Change)] /\ pc \in [Threads -> Steps]
      /\ ret \in [Threads -> {"idle", "release"}]
  BY <1>2, BusyIsAlive DEF FileInv, FileType
<1>4. buffer' \in Seq(Change) /\ Range(buffer') = Range(buffer) \cup Range(batch[t])
  BY <1>2, <1>3, Concatenated
<1>5. NoRepeat(buffer')
  <2>1. NoRepeat(buffer) /\ NoRepeat(batch[t]) /\ Range(buffer) \cap Range(batch[t]) \subseteq {Torn}
    BY DEF FileInv, OnePlace
  <2> QED BY <2>1, <1>2, <1>3, ConcatNoRepeat
<1>6. /\ batch' \in [Threads -> Seq(Change)] /\ pc' \in [Threads -> Steps]
      /\ ret' \in [Threads -> {"idle", "release"}]
  BY <1>1, <1>2, <1>3, EmptySeq DEF Steps
<1>7. /\ batch'[t] = <<>> /\ Range(batch'[t]) = {} /\ NoRepeat(batch'[t]) /\ pc'[t] = x
      /\ \A u \in Threads \ {t} : batch'[u] = batch[u] /\ pc'[u] = pc[u]
  BY <1>2, <1>3, RangeEmpty
<1>8. FileType'
  BY <1>2, <1>4, <1>6 DEF FileInv, FileType
<1>9. Holding'
  BY <1>2, <1>3, <1>7 DEF FileInv, Holding
<1>10. Known'
  BY <1>2, <1>4, <1>7 DEF FileInv, Known
<1>11. OnePlace'
  <2>1. /\ Range(buffer') \cap Range(recs) = {} /\ Range(buffer') \cap acked = {}
    BY <1>2, <1>4 DEF FileInv, OnePlace
  <2>2. ASSUME NEW u \in Threads
        PROVE  /\ NoRepeat(batch'[u])
               /\ Range(batch'[u]) \cap Range(buffer') = {} /\ Range(batch'[u]) \cap acked = {}
               /\ pc'[u] # "sync" => Range(batch'[u]) \cap Range(recs) = {}
    BY <1>4, <1>7 DEF FileInv, OnePlace
  <2>3. ASSUME NEW u \in Threads, NEW v \in Threads, u # v
        PROVE  Range(batch'[u]) \cap Range(batch'[v]) = {}
    BY <2>3, <1>7 DEF FileInv, OnePlace
  <2> QED BY <2>1, <2>2, <2>3, <1>2, <1>5 DEF FileInv, OnePlace
<1>12. Written'
  <2>1. x # "sync"
    BY <1>1
  <2> QED BY <2>1, <1>2, <1>7 DEF FileInv, Written
<1> QED BY <1>8, <1>9, <1>10, <1>11, <1>12 DEF FileInv

\* flush takes the whole buffer: its changes go to the thread's hands.
LEMMA FlushTakeKeeps ==
  ASSUME FileInv, NEW t \in Threads, FlushTake(t)
  PROVE  FileInv'
<1> USE DEF disk, memory, history
<1>1. PICK x : x = IF buffer = <<>> THEN ret[t] ELSE "write"
  OBVIOUS
<1>2. /\ pc[t] = "take" /\ buffer' = <<>> /\ batch' = [batch EXCEPT ![t] = buffer]
      /\ pc' = [pc EXCEPT ![t] = x]
      /\ UNCHANGED <<recs, synced, alive, handle, tail, index, ret, appended, acked>>
  BY <1>1 DEF FlushTake
<1>3. /\ buffer \in Seq(Change) /\ alive
      /\ batch \in [Threads -> Seq(Change)] /\ pc \in [Threads -> Steps]
      /\ ret[t] \in {"idle", "release"}
  BY <1>2, BusyIsAlive DEF FileInv, FileType
<1>4. /\ batch' \in [Threads -> Seq(Change)] /\ pc' \in [Threads -> Steps]
  BY <1>1, <1>2, <1>3 DEF Steps
<1>5. /\ batch'[t] = buffer /\ pc'[t] = x /\ x # "sync" /\ (x # "write" => buffer = <<>>)
      /\ \A u \in Threads \ {t} : batch'[u] = batch[u] /\ pc'[u] = pc[u]
  BY <1>1, <1>2, <1>3
<1>6. Range(buffer') = {} /\ NoRepeat(buffer')
  BY <1>2, RangeEmpty
<1>7. FileType'
  BY <1>2, <1>4, EmptySeq DEF FileInv, FileType
<1>8. Holding'
  BY <1>2, <1>3, <1>5 DEF FileInv, Holding
<1>9. Known'
  BY <1>2, <1>5, <1>6 DEF FileInv, Known
<1>10. OnePlace'
  <2>1. ASSUME NEW u \in Threads
        PROVE  /\ NoRepeat(batch'[u])
               /\ Range(batch'[u]) \cap Range(buffer') = {} /\ Range(batch'[u]) \cap acked = {}
               /\ pc'[u] # "sync" => Range(batch'[u]) \cap Range(recs) = {}
    BY <1>5, <1>6 DEF FileInv, OnePlace
  <2>2. ASSUME NEW u \in Threads, NEW v \in Threads, u # v
        PROVE  Range(batch'[u]) \cap Range(batch'[v]) = {}
    BY <2>2, <1>5 DEF FileInv, OnePlace
  <2> QED BY <2>1, <2>2, <1>2, <1>6 DEF FileInv, OnePlace
<1>11. Written'
  BY <1>2, <1>5 DEF FileInv, Written
<1> QED BY <1>7, <1>8, <1>9, <1>10, <1>11 DEF FileInv

\* b is what a write of `held` puts into the file: a beginning of it, n records
\* long, perhaps with a torn record behind.
Part(held, n, b) ==
  /\ n \in Nat /\ n <= Len(held) /\ n <= Len(b)
  /\ b \in Seq(Change \cup {Torn}) /\ NoRepeat(b) /\ Range(b) \subseteq Range(held) \cup {Torn}
  /\ \A i \in 1..n : b[i] = held[i]
  /\ Len(b) = n \/ b[n + 1] = Torn

\* All of it is one.
LEMMA WholePart ==
  ASSUME NEW held \in Seq(Change), NoRepeat(held)
  PROVE  Part(held, Len(held), held)
<1>1. held \in Seq(Change \cup {Torn})
  BY SeqMonotonic
<1> QED BY <1>1, RangeOf DEF Part

\* What a failing write leaves is one.
LEMMA FailedPart ==
  ASSUME NEW held \in Seq(Change), NoRepeat(held), NEW n \in 0..(Len(held) - 1), NEW b,
         b = SubSeq(held, 1, n) \/ b = Append(SubSeq(held, 1, n), Torn)
  PROVE  Part(held, n, b)
<1>0. Len(held) \in Nat
  BY RangeOf
<1>1. n \in Nat /\ n <= Len(held)
  BY <1>0
<1> DEFINE r == SubSeq(held, 1, n)
<1>2. /\ r \in Seq(Change) /\ Len(r) = n /\ \A i \in 1..n : r[i] = held[i]
      /\ Range(r) \subseteq Range(held) /\ NoRepeat(r)
  BY <1>1, Beginning
<1> HIDE DEF r
<1>3. r \in Seq(Change \cup {Torn})
  BY <1>2, SeqMonotonic
<1>4. CASE b = r
  BY <1>1, <1>2, <1>3, <1>4 DEF Part
<1>5. CASE b = Append(r, Torn)
  <2>0. Torn \in Change \cup {Torn} /\ Torn \notin Range(r)
    <3>1. Torn \notin Change /\ Range(r) \subseteq Change
      BY <1>2, RangeOf DEF Change
    <3> QED BY <3>1
  <2>1. PICK e \in Seq(Change \cup {Torn}) :
          e = <<Torn>> /\ Len(e) = 1 /\ e[1] = Torn /\ Range(e) = {Torn} /\ NoRepeat(e)
    BY <2>0, Single
  <2>2. b = r \o e
    BY <2>1, <1>3, <1>5, AppendIsConcat
  <2>3. /\ b \in Seq(Change \cup {Torn}) /\ Len(b) = Len(r) + Len(e)
        /\ \A i \in 1..Len(r) : b[i] = r[i]
        /\ \A i \in 1..Len(e) : b[Len(r) + i] = e[i]
        /\ Range(b) = Range(r) \cup Range(e)
    BY <2>2, <1>3, Concatenated
  <2>4. NoRepeat(b)
    BY <2>1, <2>2, <1>2, <1>3, ConcatNoRepeat
  <2>5. Len(b) = n + 1 /\ n <= Len(b) /\ b[n + 1] = Torn
    BY <2>1, <2>3, <1>1, <1>2
  <2>6. (\A i \in 1..n : b[i] = held[i]) /\ Range(b) \subseteq Range(held) \cup {Torn}
    BY <2>1, <2>3, <1>2
  <2> QED BY <2>3, <2>4, <2>5, <2>6, <1>1 DEF Part
<1> QED BY <1>4, <1>5 DEF r

\* A part of what a thread holds, put behind the log.
LEMMA PartBehind ==
  ASSUME FileInv, NEW t \in Threads, pc[t] # "sync", NEW n, NEW b, Part(batch[t], n, b)
  PROVE  /\ recs \o b \in Seq(Change \cup {Torn}) /\ NoRepeat(recs \o b)
         /\ Range(recs \o b) = Range(recs) \cup Range(b)
         /\ Len(recs \o b) = Len(recs) + Len(b) /\ Len(recs) \in Nat /\ Len(b) \in Nat
         /\ \A i \in 1..Len(recs) : (recs \o b)[i] = recs[i]
         /\ \A i \in 1..Len(b) : (recs \o b)[Len(recs) + i] = b[i]
<1>1. /\ recs \in Seq(Change \cup {Torn}) /\ b \in Seq(Change \cup {Torn})
      /\ NoRepeat(recs) /\ NoRepeat(b) /\ Range(b) \subseteq Range(batch[t]) \cup {Torn}
      /\ Range(batch[t]) \cap Range(recs) = {}
  BY DEF FileInv, FileType, OnePlace, Part
<1>2. Range(recs) \cap Range(b) \subseteq {Torn}
  BY <1>1
<1> QED BY <1>1, <1>2, Concatenated, ConcatNoRepeat

\* flush writes all it holds through a handle on the log or on an orphaned file.
LEMMA FlushWriteKeeps ==
  ASSUME FileInv, NEW t \in Threads, FlushWrite(t)
  PROVE  FileInv'
<1> USE DEF disk, memory, history
<1>1. /\ pc[t] = "write" /\ handle # "none" /\ pc' = [pc EXCEPT ![t] = "sync"]
      /\ recs' = IF handle = "log" THEN recs \o batch[t] ELSE recs
      /\ UNCHANGED <<synced, alive, handle, tail, buffer, index, ret, batch, appended, acked>>
  BY DEF FlushWrite
<1>2. /\ pc \in [Threads -> Steps] /\ batch[t] \in Seq(Change) /\ NoRepeat(batch[t])
      /\ synced \in Nat /\ synced <= Len(recs) /\ Len(recs) \in Nat /\ recs \in Seq(Change \cup {Torn})
      /\ NoRepeat(recs)
  BY RangeOf DEF FileInv, FileType, OnePlace
<1>3. PICK b : /\ recs' = recs \o b \/ (recs' = recs /\ b = <<>>)
               /\ Range(recs') = Range(recs) \cup Range(b) /\ Range(b) \subseteq Range(batch[t])
               /\ recs' \in Seq(Change \cup {Torn}) /\ NoRepeat(recs')
               /\ Len(recs) <= Len(recs') /\ \A i \in 1..Len(recs) : recs'[i] = recs[i]
               /\ handle = "log" => b = batch[t]
  <2>1. CASE handle = "log"
    <3>1. PICK b : b = batch[t]
      OBVIOUS
    <3>0. PICK n : n = Len(batch[t])
      OBVIOUS
    <3>2. Part(batch[t], n, b) /\ pc[t] # "sync"
      BY <3>0, <3>1, <1>1, <1>2, WholePart
    <3>3. /\ recs \o b \in Seq(Change \cup {Torn}) /\ NoRepeat(recs \o b)
          /\ Range(recs \o b) = Range(recs) \cup Range(b)
          /\ Len(recs \o b) = Len(recs) + Len(b) /\ Len(b) \in Nat
          /\ \A i \in 1..Len(recs) : (recs \o b)[i] = recs[i]
      <4>1. Part(batch[t], n, b)
        BY <3>2
      <4>2. pc[t] # "sync"
        BY <3>2
      <4>3. recs \o b \in Seq(Change \cup {Torn}) /\ NoRepeat(recs \o b)
        BY <4>1, <4>2, PartBehind
      <4>4. Len(recs \o b) = Len(recs) + Len(b) /\ Len(b) \in Nat
        BY <4>1, <4>2, PartBehind
      <4>5. Range(recs \o b) = Range(recs) \cup Range(b)
        BY <4>1, <4>2, PartBehind
      <4>6. \A i \in 1..Len(recs) : (recs \o b)[i] = recs[i]
        BY <4>1, <4>2, PartBehind
      <4> QED BY <4>3, <4>4, <4>5, <4>6
    <3>4. recs' = recs \o b /\ Len(recs) <= Len(recs \o b)
      BY <1>1, <1>2, <2>1, <3>1, <3>3
    <3> QED BY <3>1, <3>3, <3>4
  <2>2. CASE handle # "log"
    <3>1. PICK b : b = <<>> /\ Range(b) = {}
      BY RangeEmpty
    <3>2. recs' = recs
      BY <2>2, <1>1
    <3>3. Range(recs') = Range(recs) \cup Range(b) /\ Range(b) \subseteq Range(batch[t])
      BY <3>1, <3>2
    <3>4. /\ recs' \in Seq(Change \cup {Torn}) /\ NoRepeat(recs')
          /\ Len(recs) <= Len(recs') /\ \A i \in 1..Len(recs) : recs'[i] = recs[i]
      BY <3>2, <1>2
    <3> QED BY <2>2, <3>1, <3>2, <3>3, <3>4, Zenon
  <2> QED BY <2>1, <2>2
<1>4. /\ pc' \in [Threads -> Steps] /\ pc'[t] = "sync"
      /\ \A u \in Threads \ {t} : pc'[u] = pc[u]
  BY <1>1, <1>2 DEF Steps
<1>5. Len(recs') \in Nat /\ synced <= Len(recs')
  BY <1>2, <1>3, RangeOf
<1>6. FileType'
  BY <1>1, <1>3, <1>4, <1>5 DEF FileInv, FileType
<1>7. Holding'
  BY <1>1, <1>4 DEF FileInv, Holding
<1>8. Known'
  BY <1>1, <1>3 DEF FileInv, Known
<1>9. OnePlace'
  <2>1. Range(buffer) \cap Range(recs') = {}
    BY <1>3 DEF FileInv, OnePlace
  <2>2. ASSUME NEW u \in Threads, pc'[u] # "sync" PROVE Range(batch[u]) \cap Range(recs') = {}
    <3>1. u # t /\ pc[u] # "sync"
      BY <2>2, <1>4
    <3>2. Range(batch[u]) \cap Range(batch[t]) = {} /\ Range(batch[u]) \cap Range(recs) = {}
      BY <3>1 DEF FileInv, OnePlace
    <3> QED BY <3>2, <1>3
  <2> QED BY <2>1, <2>2, <1>1, <1>3 DEF FileInv, OnePlace
<1>10. Written'
  <2>1. ASSUME NEW u \in Threads, pc'[u] = "sync", handle = "log"
        PROVE  Range(batch[u]) \subseteq Range(recs')
    <3>1. CASE u = t
      BY <3>1, <2>1, <1>3
    <3>2. CASE u # t
      BY <3>2, <2>1, <1>3, <1>4 DEF FileInv, Written
    <3> QED BY <3>1, <3>2
  <2>2. ASSUME NEW c \in acked, c \in Range(recs') PROVE \E i \in 1..synced : recs'[i] = c
    <3>1. c \in Range(recs)
      BY <2>2, <1>3 DEF FileInv, OnePlace
    <3>2. PICK i \in 1..synced : recs[i] = c
      BY <3>1 DEF FileInv, Written
    <3>3. i \in 1..Len(recs)
      BY <1>2
    <3> QED BY <3>2, <3>3, <1>3
  <2> QED BY <2>1, <2>2, <1>1 DEF Written
<1> QED BY <1>6, <1>7, <1>8, <1>9, <1>10 DEF FileInv

\* The flush of a store without a handle, and a failing sync_all: nothing is
\* written, and the thread's changes are acknowledged or dropped.
LEMMA FlushDropsKeeps ==
  ASSUME FileInv, NEW t \in Threads, FlushNoHandle(t) \/ FlushSyncFails(t)
  PROVE  FileInv'
<1> USE DEF disk, memory, history
<1>1. PICK x \in Resting : pc' = [pc EXCEPT ![t] = x]
  <2>1. ret[t] \in Resting /\ "idle" \in Resting
    BY DEF FileInv, FileType, Resting, Steps
  <2> QED BY <2>1 DEF FlushNoHandle, FlushSyncFails
<1>2. /\ pc[t] \in {"write", "sync"} /\ batch' = [batch EXCEPT ![t] = <<>>]
      /\ acked' = acked \cup Range(batch[t]) \/ acked' = acked
      /\ pc[t] = "write" \/ acked' = acked
      /\ UNCHANGED <<recs, synced, alive, handle, tail, buffer, index, ret, appended>>
  BY DEF FlushNoHandle, FlushSyncFails
<1>3. PICK R : R = {}
  OBVIOUS
<1>4. /\ NoRepeat(recs') /\ Range(recs') = Range(recs) \cup R /\ R \subseteq Range(batch[t]) \cup {Torn}
      /\ acked' \subseteq acked \cup Range(batch[t]) /\ pc[t] # "idle"
  BY <1>2, <1>3 DEF FileInv, OnePlace
<1>5. /\ Holding' /\ Known' /\ OnePlace' /\ acked' \subseteq Change
      /\ batch' \in [Threads -> Seq(Change)] /\ pc' \in [Threads -> Steps]
  BY <1>1, <1>2, <1>4, HandsEmptied
<1>6. FileType'
  BY <1>2, <1>5 DEF FileInv, FileType
<1>7. Written'
  <2>1. pc \in [Threads -> Steps] /\ batch \in [Threads -> Seq(Change)]
    BY DEF FileInv, FileType
  <2>2. \A u \in Threads : pc'[u] = "sync" => u # t /\ pc[u] = "sync" /\ batch'[u] = batch[u]
    BY <1>1, <1>2, <2>1 DEF Resting
  <2>3. ASSUME NEW c \in acked', c \in Range(recs) PROVE c \in acked
    <3>1. CASE acked' = acked
      BY <3>1
    <3>2. CASE pc[t] = "write"
      <4>1. Range(batch[t]) \cap Range(recs) = {}
        BY <3>2 DEF FileInv, OnePlace
      <4> QED BY <4>1, <1>2, <2>3
    <3> QED BY <3>1, <3>2, <1>2
  <2> QED BY <2>2, <2>3, <1>2 DEF FileInv, Written
<1> QED BY <1>5, <1>6, <1>7 DEF FileInv

\* sync_all succeeds: all that is in the log is covered, the flush returns Ok.
LEMMA FlushSyncKeeps ==
  ASSUME FileInv, NEW t \in Threads, FlushSync(t)
  PROVE  FileInv'
<1> USE DEF disk, memory, history
<1>1. PICK x \in Resting : pc' = [pc EXCEPT ![t] = x]
  <2>1. ret[t] \in Resting
    BY DEF FileInv, FileType, Resting, Steps
  <2> QED BY <2>1 DEF FlushSync
<1>2. /\ pc[t] = "sync" /\ batch' = [batch EXCEPT ![t] = <<>>] /\ synced' = Len(recs)
      /\ acked' = acked \cup Range(batch[t]) /\ index' = index \o FlushEntries(Len(batch[t]))
      /\ UNCHANGED <<recs, alive, handle, tail, buffer, ret, appended>>
  BY DEF FlushSync
<1>3. PICK R : R = {}
  OBVIOUS
<1>4. /\ NoRepeat(recs') /\ Range(recs') = Range(recs) \cup R /\ R \subseteq Range(batch[t]) \cup {Torn}
      /\ acked' \subseteq acked \cup Range(batch[t]) /\ pc[t] # "idle"
  BY <1>2, <1>3 DEF FileInv, OnePlace
<1>5. /\ Holding' /\ Known' /\ OnePlace' /\ acked' \subseteq Change
      /\ batch' \in [Threads -> Seq(Change)] /\ pc' \in [Threads -> Steps]
  BY <1>1, <1>2, <1>4, HandsEmptied
<1>6. index' \in Seq(Entry)
  <2>1. Len(batch[t]) \in Nat /\ tail \in Nat /\ index \in Seq(Entry)
    BY RangeOf DEF FileInv, FileType
  <2>2. PICK e \in Seq(Entry) : e = FlushEntries(Len(batch[t]))
    BY <2>1, FlushEntriesType
  <2> QED BY <2>1, <2>2, <1>2, ConcatProperties
<1>7. recs \in Seq(Change \cup {Torn}) /\ Len(recs) \in Nat
  BY RangeOf DEF FileInv, FileType
<1>8. FileType'
  BY <1>2, <1>5, <1>6, <1>7 DEF FileInv, FileType
<1>9. Written'
  <2>1. pc \in [Threads -> Steps] /\ batch \in [Threads -> Seq(Change)]
    BY DEF FileInv, FileType
  <2>2. \A u \in Threads : pc'[u] = "sync" => u # t /\ pc[u] = "sync" /\ batch'[u] = batch[u]
    BY <1>1, <1>2, <2>1 DEF Resting
  <2>3. \A c \in Range(recs) : \E i \in 1..Len(recs) : recs[i] = c
    BY <1>7, RangeOf
  <2> QED BY <2>2, <2>3, <1>2 DEF FileInv, Written
<1> QED BY <1>5, <1>8, <1>9 DEF FileInv

\* A write fails in the middle: a part is behind the log, the rest is dropped.
LEMMA FlushWriteFailsKeeps ==
  ASSUME FileInv, NEW t \in Threads, FlushWriteFails(t)
  PROVE  /\ FileInv'
         /\ \E n, b : Part(batch[t], n, b) /\ recs' = recs \o b
<1> USE DEF disk, memory, history
<1>1. /\ pc[t] = "write" /\ batch' = [batch EXCEPT ![t] = <<>>] /\ pc' = [pc EXCEPT ![t] = "idle"]
      /\ UNCHANGED <<synced, alive, handle, tail, buffer, index, ret, appended, acked>>
  BY DEF FlushWriteFails
<1>2. batch[t] \in Seq(Change) /\ NoRepeat(batch[t])
  BY DEF FileInv, FileType, OnePlace
<1>3. PICK n, b :
        /\ n \in 0..(Len(batch[t]) - 1)
        /\ b = SubSeq(batch[t], 1, n) \/ b = Append(SubSeq(batch[t], 1, n), Torn)
        /\ recs' = recs \o b
  BY DEF FlushWriteFails
<1>4. PICK h \in Seq(Change) : h = batch[t]
  BY <1>2
<1>5. Part(h, n, b)
  BY <1>2, <1>3, <1>4, FailedPart
<1>6. Part(batch[t], n, b) /\ pc[t] # "sync"
  BY <1>1, <1>4, <1>5
<1>7. recs' \in Seq(Change \cup {Torn}) /\ NoRepeat(recs')
  BY <1>3, <1>6, PartBehind
<1>8. Range(recs') = Range(recs) \cup Range(b) /\ Range(b) \subseteq Range(batch[t]) \cup {Torn}
  BY <1>3, <1>6, PartBehind DEF Part
<1>9. Len(recs') = Len(recs) + Len(b) /\ Len(recs) \in Nat /\ Len(b) \in Nat
  BY <1>3, <1>6, PartBehind
<1>10. \A i \in 1..Len(recs) : recs'[i] = recs[i]
  BY <1>3, <1>6, PartBehind
<1>11. "idle" \in Resting /\ acked' \subseteq acked \cup Range(batch[t]) /\ pc[t] # "idle"
  BY <1>1 DEF Resting, Steps
<1>12. /\ Holding' /\ Known' /\ OnePlace' /\ acked' \subseteq Change
       /\ batch' \in [Threads -> Seq(Change)] /\ pc' \in [Threads -> Steps]
  BY <1>1, <1>7, <1>8, <1>11, HandsEmptied
<1>13. synced \in Nat /\ synced <= Len(recs) /\ synced <= Len(recs')
  BY <1>9 DEF FileInv, FileType
<1>14. FileType'
  BY <1>1, <1>7, <1>12, <1>13 DEF FileInv, FileType
<1>15. Written'
  <2>1. pc \in [Threads -> Steps] /\ batch \in [Threads -> Seq(Change)]
    BY DEF FileInv, FileType
  <2>2. \A u \in Threads : pc'[u] = "sync" => pc[u] = "sync" /\ batch'[u] = batch[u]
    BY <1>1, <2>1
  <2>3. ASSUME NEW u \in Threads, pc'[u] = "sync", handle = "log"
        PROVE  Range(batch'[u]) \subseteq Range(recs')
    BY <2>2, <2>3, <1>8 DEF FileInv, Written
  <2>4. ASSUME NEW c \in acked, c \in Range(recs') PROVE \E i \in 1..synced : recs'[i] = c
    <3>1. c \notin Range(batch[t]) /\ c # Torn
      BY TornIsHeldNowhere DEF FileInv, OnePlace
    <3>2. PICK i \in 1..synced : recs[i] = c
      BY <2>4, <3>1, <1>8 DEF FileInv, Written
    <3>3. i \in 1..Len(recs)
      BY <1>9, <1>13
    <3> QED BY <3>2, <3>3, <1>10
  <2> QED BY <2>3, <2>4, <1>1 DEF Written
<1> QED BY <1>3, <1>6, <1>12, <1>14, <1>15 DEF FileInv

\* A new store holds nothing.
LEMMA InitFileInv == Init => FileInv
<1> SUFFICES ASSUME Init PROVE FileInv
  OBVIOUS
<1>1. /\ Range(recs) = {} /\ Range(buffer) = {} /\ NoRepeat(recs) /\ NoRepeat(buffer)
      /\ \A t \in Threads : Range(batch[t]) = {} /\ NoRepeat(batch[t])
  BY RangeEmpty DEF Init
<1>2. FileType
  <2>1. /\ pc \in [Threads -> Steps] /\ ret \in [Threads -> {"idle", "release"}]
        /\ batch \in [Threads -> Seq(Change)]
    BY EmptySeq DEF Init, Steps
  <2>2. /\ recs \in Seq(Change \cup {Torn}) /\ buffer \in Seq(Change) /\ index \in Seq(Entry)
        /\ appended \in Seq(Nat) /\ Len(appended) <= MaxAppends /\ synced <= Len(recs)
    BY EmptySeq DEF Init
  <2> QED BY <2>1, <2>2 DEF Init, FileType
<1>3. Holding
  BY DEF Init, Holding
<1>4. Known /\ OnePlace /\ Written
  BY <1>1 DEF Init, Known, OnePlace, Written
<1> QED BY <1>2, <1>3, <1>4 DEF FileInv

\* Every step keeps the invariant.
LEMMA NextFileInv == FileInv /\ [Next]_vars => FileInv'
<1> SUFFICES ASSUME FileInv, [Next]_vars PROVE FileInv'
  OBVIOUS
<1>1. CASE Open \/ Crash
  BY <1>1, OpenKeeps, CrashKeeps
<1>2. ASSUME NEW t \in Threads,
             \/ AppendOffset(t) \/ AppendBuffer(t)
             \/ FlushStart(t) \/ FlushTake(t) \/ FlushNoHandle(t) \/ FlushWrite(t)
             \/ FlushSync(t) \/ FlushWriteFails(t) \/ FlushSyncFails(t)
             \/ CloseStart(t) \/ CloseRelease(t)
             \/ CompactBegin(t) \/ CompactRename(t) \/ CompactFails(t)
             \/ CompactReplace(t) \/ CompactClearIndex(t) \/ CompactSetTail(t)
      PROVE  FileInv'
  BY <1>2, AppendOffsetKeeps, AppendBufferKeeps, ControlKeeps, FlushTakeKeeps, FlushDropsKeeps,
     FlushWriteKeeps, FlushSyncKeeps, FlushWriteFailsKeeps, CompactReplaceKeeps
<1>3. CASE UNCHANGED vars
  <2> USE <1>3 DEF vars, disk, memory, control, history
  <2>1. FileType' /\ Holding' /\ Known'
    BY DEF FileInv, FileType, Holding, Known
  <2>2. OnePlace' /\ Written'
    BY DEF FileInv, OnePlace, Written
  <2> QED BY <2>1, <2>2 DEF FileInv
<1> QED BY <1>1, <1>2, <1>3 DEF Next

\* Where every change is, in every reachable state of the file store
\* (src/persist.rs).
THEOREM FileInvariant == Spec => []FileInv
  BY InitFileInv, NextFileInv, PTL DEF Spec

(* ------------------------- what a reader gets ---------------------------- *)

\* Files that begin alike are read alike, as far as they do.
LEMMA ReadAlike ==
  ASSUME NEW s \in Seq(Change \cup {Torn}), NEW z \in Seq(Change \cup {Torn}), NEW n \in Nat,
         n <= Len(s), n <= Len(z), \A i \in 1..n : z[i] = s[i],
         NEW i \in 1..n, i <= Len(ReadableOf(s))
  PROVE  i <= Len(ReadableOf(z)) /\ ReadableOf(z)[i] = ReadableOf(s)[i]
<1>1. PICK r : r = ReadableOf(s) /\ Len(r) \in Nat /\ \A k \in 1..Len(r) : r[k] = s[k] /\ s[k] # Torn
  BY ReadableIs
<1>2. PICK q : /\ q = ReadableOf(z) /\ Len(q) \in Nat /\ Len(z) \in Nat
               /\ \A k \in 1..Len(q) : q[k] = z[k]
               /\ Len(q) = Len(z) \/ (Len(q) < Len(z) /\ z[Len(q) + 1] = Torn)
  BY ReadableIs
<1>3. i <= Len(q)
  <2> SUFFICES ASSUME ~(i <= Len(q)) PROVE FALSE
    OBVIOUS
  <2>1. PICK k \in Nat : k = Len(q) + 1
    BY <1>2
  <2>2. k \in 1..n /\ k \in 1..Len(r) /\ Len(q) # Len(z)
    BY <2>1, <1>1, <1>2
  <2>3. z[k] = Torn /\ z[k] = s[k] /\ s[k] # Torn
    BY <2>1, <2>2, <1>1, <1>2
  <2> QED BY <2>3
<1>4. i \in 1..Len(q) /\ i \in 1..Len(r)
  BY <1>1, <1>2, <1>3
<1> QED BY <1>1, <1>2, <1>3, <1>4

\* The model's readable log is what a reader gets of the file.
LEMMA ReadableLogIs ==
  /\ ReadableLog = ReadableOf(recs)
  /\ Readable = Range(ReadableOf(recs))
  /\ Intact => ReadableOf(recs) = recs
<1>1. CASE Torn \notin Range(recs)
  BY <1>1 DEF ReadableLog, Readable, ReadableOf, Intact
<1>2. CASE Torn \in Range(recs)
  <2>1. \E i \in DOMAIN recs : recs[i] = Torn
    BY <1>2 DEF Range
  <2>2. Scanned = Min({i \in DOMAIN recs : recs[i] = Torn})
    BY <2>1 DEF Scanned
  <2> QED BY <2>2, <1>2 DEF ReadableLog, Readable, ReadableOf, Intact
<1> QED BY <1>1, <1>2

\* The same after a step.
LEMMA ReadableLogIsNext ==
  ReadableLog' = ReadableOf(recs') /\ Readable' = Range(ReadableOf(recs'))
<1>1. ReadableLog' = ReadableOf(recs')
  <2>1. CASE Torn \notin Range(recs')
    BY <2>1 DEF ReadableLog, ReadableOf, Intact
  <2>2. CASE Torn \in Range(recs')
    <3>1. \E i \in DOMAIN recs' : recs'[i] = Torn
      BY <2>2 DEF Range
    <3>2. Scanned' = Min({i \in DOMAIN recs' : recs'[i] = Torn})
      BY <3>1 DEF Scanned
    <3> QED BY <3>2, <2>2 DEF ReadableLog, ReadableOf, Intact
  <2> QED BY <2>1, <2>2
<1> QED BY <1>1 DEF Readable

\* A change that is acknowledged and can be read stays readable when the file keeps
\* its first n records and sync_all covered no more than n.
LEMMA AckedStays ==
  ASSUME FileInv, NEW z \in Seq(Change \cup {Torn}), NEW n \in Nat, synced <= n,
         n <= Len(recs), n <= Len(z), \A i \in 1..n : z[i] = recs[i]
  PROVE  acked \cap Readable \subseteq Range(ReadableOf(z))
<1> SUFFICES ASSUME NEW c \in acked, c \in Readable PROVE c \in Range(ReadableOf(z))
  OBVIOUS
<1>0. recs \in Seq(Change \cup {Torn}) /\ Len(recs) \in Nat /\ synced \in Nat /\ DOMAIN recs = 1..Len(recs)
  BY RangeOf DEF FileInv, FileType
<1>1. PICK r \in Seq(Change) :
        /\ r = ReadableOf(recs) /\ Len(r) \in Nat /\ Len(r) <= Len(recs)
        /\ \A k \in 1..Len(r) : r[k] = recs[k] /\ recs[k] # Torn
  BY <1>0, ReadableIs
<1>2. PICK i \in 1..Len(r) : r[i] = c
  BY <1>1, ReadableLogIs, RangeOf
<1>3. recs[i] = c /\ recs[i] # Torn /\ i \in 1..Len(recs)
  BY <1>0, <1>1, <1>2
<1>4. PICK j \in 1..synced : recs[j] = c
  BY <1>0, <1>3, RangeOf DEF FileInv, Written
<1>5. j \in 1..Len(recs) /\ j \in 1..n
  BY <1>0
<1>6. i = j
  BY <1>0, <1>3, <1>4, <1>5 DEF FileInv, OnePlace, NoRepeat
<1>7. i \in 1..n /\ i <= Len(r)
  BY <1>1, <1>2, <1>5, <1>6
<1>8. i <= Len(ReadableOf(z)) /\ ReadableOf(z)[i] = c
  <2>1. PICK s \in Seq(Change \cup {Torn}) : s = recs
    BY <1>0
  <2>2. n <= Len(s) /\ (\A k \in 1..n : z[k] = s[k]) /\ i <= Len(ReadableOf(s))
    BY <2>1, <1>1, <1>7
  <2>3. i <= Len(ReadableOf(z)) /\ ReadableOf(z)[i] = ReadableOf(s)[i]
    BY <2>2, <1>7, ReadAlike
  <2> QED BY <2>1, <2>3, <1>1, <1>2
<1>9. PICK q \in Seq(Change) : q = ReadableOf(z) /\ Len(q) \in Nat
  BY ReadableIs
<1>10. i \in 1..Len(q) /\ q[i] = c
  BY <1>7, <1>8, <1>9
<1> QED BY <1>9, <1>10, RangeOf

\* What a step does to the records: nothing, a part of a batch behind them, a
\* crash, or a compaction.
LEMMA RecordsStep ==
  ASSUME FileInv, [Next]_vars
  PROVE  \/ recs' = recs
         \/ \E t \in Threads : CompactReplace(t)
         \/ Crash
         \/ \E t \in Threads : (FlushWrite(t) /\ handle = "log") \/ FlushWriteFails(t)
<1> USE DEF vars, disk, control, memory, history
<1>1. CASE Open \/ Crash
  BY <1>1 DEF Open
<1>2. ASSUME NEW t \in Threads,
             \/ AppendOffset(t) \/ AppendBuffer(t)
             \/ FlushStart(t) \/ FlushTake(t) \/ FlushNoHandle(t)
             \/ FlushSync(t) \/ FlushSyncFails(t)
             \/ CloseStart(t) \/ CloseRelease(t)
             \/ CompactBegin(t) \/ CompactRename(t) \/ CompactFails(t)
             \/ CompactClearIndex(t) \/ CompactSetTail(t)
      PROVE  recs' = recs
  BY <1>2 DEF AppendOffset, AppendBuffer, FlushStart, FlushTake, FlushNoHandle, FlushSync,
       FlushSyncFails, CloseStart, CloseRelease, CompactBegin, CompactRename, CompactFails,
       CompactClearIndex, CompactSetTail
<1>3. ASSUME NEW t \in Threads, FlushWrite(t), handle # "log" PROVE recs' = recs
  BY <1>3 DEF FlushWrite
<1>4. CASE UNCHANGED vars
  BY <1>4
<1> QED BY <1>1, <1>2, <1>3, <1>4 DEF Next

\* A write puts a part of what the thread holds behind the records.
LEMMA WritePart ==
  ASSUME FileInv, NEW t \in Threads, (FlushWrite(t) /\ handle = "log") \/ FlushWriteFails(t)
  PROVE  pc[t] = "write" /\ \E n, b : Part(batch[t], n, b) /\ recs' = recs \o b
<1>1. CASE FlushWriteFails(t)
  <2>1. pc[t] = "write"
    BY <1>1 DEF FlushWriteFails
  <2> QED BY <1>1, <2>1, FlushWriteFailsKeeps
<1>2. CASE FlushWrite(t) /\ handle = "log"
  <2>1. batch[t] \in Seq(Change) /\ NoRepeat(batch[t])
    BY DEF FileInv, FileType, OnePlace
  <2>2. PICK h \in Seq(Change) : h = batch[t]
    BY <2>1
  <2>3. Part(h, Len(h), h)
    BY <2>1, <2>2, WholePart
  <2>4. recs' = recs \o h /\ pc[t] = "write"
    BY <1>2, <2>2 DEF FlushWrite
  <2> QED BY <2>2, <2>3, <2>4
<1> QED BY <1>1, <1>2

\* Nothing but the second rename of a compaction takes an acknowledged, readable
\* change away.
THEOREM OnlyCompactionTakes == Spec => OnlyCompactionLoses
<1>1. FileInv /\ [Next]_vars =>
        [acked \cap Readable \subseteq Readable' \/ \E t \in Threads : CompactReplace(t)]_vars
  <2> SUFFICES ASSUME FileInv, [Next]_vars, ~ \E t \in Threads : CompactReplace(t)
               PROVE  acked \cap Readable \subseteq Readable'
    OBVIOUS
  <2>0. recs \in Seq(Change \cup {Torn}) /\ Len(recs) \in Nat /\ synced \in Nat /\ synced <= Len(recs)
    BY RangeOf DEF FileInv, FileType
  <2>1. Readable' = Range(ReadableOf(recs'))
    BY ReadableLogIsNext
  <2>2. CASE recs' = recs
    BY <2>1, <2>2, ReadableLogIs
  <2>3. CASE Crash
    <3>1. PICK n \in Nat :
            /\ synced <= n /\ n <= Len(recs) /\ n <= Len(recs')
            /\ recs' \in Seq(Change \cup {Torn}) /\ \A i \in 1..n : recs'[i] = recs[i]
      BY <2>3, CrashLeaves
    <3> QED BY <2>1, <3>1, AckedStays
  <2>4. ASSUME NEW t \in Threads, (FlushWrite(t) /\ handle = "log") \/ FlushWriteFails(t)
        PROVE  acked \cap Readable \subseteq Readable'
    <3>1. PICK n, b : Part(batch[t], n, b) /\ recs' = recs \o b /\ pc[t] # "sync"
      BY <2>4, WritePart
    <3>2. recs' \in Seq(Change \cup {Torn}) /\ Len(recs') = Len(recs) + Len(b) /\ Len(b) \in Nat
      BY <3>1, PartBehind
    <3>3. \A i \in 1..Len(recs) : recs'[i] = recs[i]
      BY <3>1, PartBehind
    <3>4. Len(recs) <= Len(recs')
      BY <2>0, <3>2
    <3> QED BY <2>0, <2>1, <3>2, <3>3, <3>4, AckedStays
  <2> QED BY <2>2, <2>3, <2>4, RecordsStep
<1> QED BY <1>1, FileInvariant, PTL DEF Spec, OnlyCompactionLoses

\* A flush that returns Ok through a handle on an intact log has put all its
\* changes into the log.
THEOREM AckedChangesInLog == Spec => AckedReachesLog
<1>1. FileInv /\ [Next]_vars => [handle = "log" /\ Intact => acked' \ acked \subseteq Readable']_vars
  <2> SUFFICES ASSUME FileInv, Next, handle = "log", Intact PROVE acked' \ acked \subseteq Readable'
    OBVIOUS
  <2>1. ASSUME NEW t \in Threads, FlushSync(t) PROVE acked' \ acked \subseteq Readable'
    <3>1. Range(batch[t]) \subseteq Range(recs)
      BY <2>1 DEF FileInv, Written, FlushSync
    <3>2. recs' = recs /\ acked' = acked \cup Range(batch[t])
      BY <2>1 DEF FlushSync
    <3>3. Readable' = Range(ReadableOf(recs')) /\ ReadableOf(recs) = recs
      BY ReadableLogIs, ReadableLogIsNext
    <3> QED BY <3>1, <3>2, <3>3
  <2>2. CASE \A t \in Threads : ~FlushSync(t)
    <3>1. acked' = acked
      BY <2>2 DEF Next, Open, Crash, AppendOffset, AppendBuffer, FlushStart, FlushTake, FlushNoHandle,
           FlushWrite, FlushWriteFails, FlushSyncFails, CloseStart, CloseRelease, CompactBegin,
           CompactRename, CompactFails, CompactReplace, CompactClearIndex, CompactSetTail,
           disk, memory, control, history
    <3> QED BY <3>1
  <2> QED BY <2>1, <2>2
<1> QED BY <1>1, FileInvariant, PTL DEF Spec, AckedReachesLog

(* ------------------------- get_since ------------------------------------- *)

\* The numbers in a sequence have a bound.
LEMMA BoundOf ==
  ASSUME NEW n \in Nat, NEW f, \A i \in 1..n : f[i] \in Nat
  PROVE  \E b \in Nat : \A i \in 1..n : f[i] <= b
<1> DEFINE Bounded(m) == \E b \in Nat : \A i \in 1..m : f[i] <= b
           T == {m \in 0..n : ~Bounded(m)}
<1>1. SUFFICES ASSUME T # {} PROVE FALSE
  <2>1. n \in 0..n
    OBVIOUS
  <2>2. T = {} => Bounded(n)
    BY <2>1
  <2> HIDE DEF T
  <2> QED BY <2>2
<1>2. PICK m \in T : \A y \in T : m <= y
  <2>1. T \subseteq Nat
    OBVIOUS
  <2> HIDE DEF T
  <2> QED BY <2>1, <1>1, LeastOf
<1>3. m # 0
  <2>1. Bounded(0)
    OBVIOUS
  <2> QED BY <2>1, <1>2
<1>4. m \in 1..n /\ m - 1 \in 0..n /\ m - 1 \notin T
  <2>1. m \in 0..n
    BY <1>2
  <2> HIDE DEF T
  <2>2. m \in 1..n /\ m - 1 \in 0..n /\ ~(m <= m - 1)
    BY <2>1, <1>3
  <2> QED BY <2>2, <1>2
<1>5. PICK b \in Nat : \A i \in 1..(m - 1) : f[i] <= b
  BY <1>4
<1>6. PICK c \in Nat : c >= b /\ c >= f[m]
  <2>1. f[m] \in Nat
    BY <1>4
  <2>2. b + f[m] \in Nat /\ b + f[m] >= b /\ b + f[m] >= f[m]
    BY <2>1
  <2> QED BY <2>2
<1>7. \A i \in 1..m : f[i] <= c
  <2> TAKE i \in 1..m
  <2>1. f[i] \in Nat /\ f[m] \in Nat
    BY <1>4
  <2>2. CASE i = m
    BY <2>1, <2>2, <1>6
  <2>3. CASE i # m
    <3>1. i \in 1..(m - 1)
      BY <2>3, <1>4
    <3>2. f[i] <= b
      BY <3>1, <1>5
    <3> QED BY <3>2, <2>1, <1>6
  <2> QED BY <2>2, <2>3
<1> QED BY <1>2, <1>7

\* A bounded set of numbers that is not empty has a greatest one.
LEMMA GreatestOf ==
  ASSUME NEW T, T \subseteq Nat, T # {}, NEW b \in Nat, \A y \in T : y <= b
  PROVE  Max(T) \in T /\ \A y \in T : y <= Max(T)
<1> DEFINE B == {d \in Nat : \A y \in T : y <= d}
<1>1. PICK d \in B : \A e \in B : d <= e
  <2>1. B \subseteq Nat /\ B # {}
    OBVIOUS
  <2> HIDE DEF B
  <2> QED BY <2>1, LeastOf
<1>2. d \in T
  <2> SUFFICES ASSUME d \notin T PROVE FALSE
    OBVIOUS
  <2>1. \A y \in T : y < d
    BY <1>1
  <2>2. d - 1 \in Nat
    <3>1. PICK y \in T : TRUE
      OBVIOUS
    <3>2. y \in Nat /\ d \in Nat /\ y < d
      BY <2>1, <1>1
    <3> QED BY <3>2
  <2>3. d - 1 \in B
    BY <2>1, <2>2, <1>1
  <2> HIDE DEF B
  <2>4. d <= d - 1 /\ d \in Nat
    BY <2>3, <1>1 DEF B
  <2> QED BY <2>4
<1>3. \E x \in T : \A y \in T : x >= y
  BY <1>1, <1>2
<1>4. Max(T) = CHOOSE x \in T : \A y \in T : x >= y
  BY DEF Max
<1>5. Max(T) \in T /\ \A y \in T : Max(T) >= y
  BY <1>3, <1>4
<1> QED BY <1>5

\* What is read from position m to l has every record between them.
LEMMA PartHas ==
  ASSUME NEW S, NEW s \in Seq(S), NEW m \in Nat \ {0}, NEW l \in Nat, l <= Len(s), NEW i \in m..l
  PROVE  s[i] \in Range(SubSeq(s, m, l))
<1> DEFINE r == SubSeq(s, m, l)
<1>1. Len(s) \in Nat /\ m <= l /\ \A k \in m..l : s[k] \in S
  BY RangeOf, ElementOfSeq
<1>2. /\ r \in Seq(S)
      /\ Len(r) = IF m <= l THEN l - m + 1 ELSE 0
      /\ \A k \in 1..(l - m + 1) : r[k] = s[m + k - 1]
  <2>1. m \in Int /\ l \in Int
    OBVIOUS
  <2> QED BY <1>1, <2>1, SubSeqProperties
<1> HIDE DEF r
<1>3. Len(r) = l - m + 1
  BY <1>1, <1>2
<1>4. PICK k \in 1..(l - m + 1) : m + k - 1 = i
  <2>1. i - m + 1 \in 1..(l - m + 1) /\ m + (i - m + 1) - 1 = i
    BY <1>1
  <2> QED BY <2>1
<1>5. r[k] = s[i]
  BY <1>2, <1>4
<1>6. r[k] \in Range(r)
  BY <1>2, <1>3, RangeOf
<1> QED BY <1>5, <1>6 DEF r

\* The reader numbers the record at the position of an entry no lower than the
\* entry does.
LEMMA FirstOffsetLate ==
  ASSUME FileInv, NEW start \in Nat
  PROVE  /\ FirstOffset(start) \in Nat
         /\ \A i \in DOMAIN index : index[i].position = start => FirstOffset(start) > index[i].offset
<1>1. /\ DOMAIN index = 1..Len(index) /\ Len(index) \in Nat
      /\ \A i \in 1..Len(index) : index[i] \in Entry
  BY RangeOf, ElementOfSeq DEF FileInv, FileType
<1>2. \A i \in DOMAIN index : index[i].offset \in Nat /\ index[i].position \in Nat
  BY <1>1 DEF Entry
<1> DEFINE before == {i \in DOMAIN index : index[i].position <= start}
           offsets == {index[i].offset : i \in before}
<1>3. CASE before = {}
  <2>1. FirstOffset(start) = 0
    BY <1>3 DEF FirstOffset
  <2>2. ASSUME NEW i \in DOMAIN index, index[i].position = start PROVE FALSE
    <3>1. index[i].position <= start
      BY <2>2
    <3> QED BY <3>1, <1>3
  <2> QED BY <2>1, <2>2
<1>4. CASE before # {}
  <2>1. FirstOffset(start) = Max(offsets) + 1
    BY <1>4 DEF FirstOffset
  <2>2. PICK f : f = [i \in DOMAIN index |-> index[i].offset]
    OBVIOUS
  <2>3. \A i \in 1..Len(index) : f[i] \in Nat
    BY <1>1, <1>2, <2>2
  <2>4. PICK b \in Nat : \A i \in 1..Len(index) : f[i] <= b
    BY <1>1, <2>3, BoundOf
  <2>5. offsets \subseteq Nat /\ offsets # {} /\ \A y \in offsets : y <= b
    <3>1. \A i \in before : index[i].offset \in Nat /\ index[i].offset <= b
      BY <1>1, <1>2, <2>2, <2>4
    <3> QED BY <3>1, <1>4
  <2>6. \A i \in DOMAIN index : index[i].position = start => index[i].offset \in offsets
    BY <1>2
  <2> HIDE DEF offsets
  <2>7. Max(offsets) \in offsets /\ \A y \in offsets : y <= Max(offsets)
    BY <2>5, GreatestOf
  <2>8. Max(offsets) \in Nat
    BY <2>5, <2>7
  <2> QED BY <1>2, <2>1, <2>6, <2>7, <2>8
<1> QED BY <1>3, <1>4

\* A read starts no later than at the record it is asked for.
LEMMA StartsEarly ==
  ASSUME FileInv, NEW o \in Nat, NEW start \in StartPositions(o), start # 0
  PROVE  start \in Nat /\ start <= o + 1 /\ start <= FirstOffset(start) + 1
<1>1. /\ DOMAIN index = 1..Len(index) /\ Len(index) \in Nat
      /\ \A i \in 1..Len(index) : index[i] \in Entry
  BY RangeOf, ElementOfSeq DEF FileInv, FileType
<1>2. start = 1 \/ \E i \in DOMAIN index : index[i].position = start /\ index[i].offset <= o
  <2>1. \A i \in DOMAIN index : index[i].offset \in Nat
    BY <1>1 DEF Entry
  <2>2. CASE o = 0
    BY <2>2 DEF StartPositions
  <2>3. CASE o # 0 /\ start # 1
    <3>1. PICK i \in DOMAIN index : index[i].position = start
                                    /\ (index[i].offset = o \/ index[i].offset < o)
      BY <2>3 DEF StartPositions
    <3> QED BY <3>1, <2>1
  <2> QED BY <2>2, <2>3
<1>3. CASE start = 1
  <2>1. FirstOffset(start) \in Nat
    BY <1>3, FirstOffsetLate
  <2> QED BY <1>3, <2>1
<1>4. ASSUME NEW i \in DOMAIN index, index[i].position = start, index[i].offset <= o
      PROVE  start \in Nat /\ start <= o + 1 /\ start <= FirstOffset(start) + 1
  <2>1. index[i].offset \in Nat /\ start = index[i].offset + 1
    BY <1>1, <1>4 DEF Entry
  <2>2. start \in Nat
    BY <2>1
  <2>3. FirstOffset(start) \in Nat /\ FirstOffset(start) > index[i].offset
    BY <2>2, <1>4, FirstOffsetLate
  <2> QED BY <1>4, <2>1, <2>3
<1> QED BY <1>2, <1>3, <1>4

\* A read that ends well stops at the first torn record from its start on, which
\* is not before the end of the readable log, or at the end of the file.
LEMMA StopsLate ==
  ASSUME FileInv, NEW start \in Nat \ {0},
         NEW T, T = {i \in start..Len(recs) : recs[i] = Torn},
         NEW stop, stop = IF T = {} THEN Len(recs) ELSE Min(T) - 1
  PROVE  stop \in Nat /\ Len(ReadableLog) <= stop /\ stop <= Len(recs)
<1>1. /\ Len(recs) \in Nat /\ Len(ReadableLog) \in Nat /\ Len(ReadableLog) <= Len(recs)
      /\ \A i \in 1..Len(ReadableLog) : recs[i] # Torn
  <2>1. recs \in Seq(Change \cup {Torn})
    BY DEF FileInv, FileType
  <2> QED BY <2>1, ReadableLogIs, ReadableIs
<1>2. CASE T = {}
  BY <1>1, <1>2
<1>3. CASE T # {}
  <2>1. T \subseteq Nat
    BY <1>1
  <2>2. PICK n \in T : n = Min(T)
    BY <1>3, <2>1, LeastOf
  <2>3. n \in start..Len(recs) /\ recs[n] = Torn
    OBVIOUS
  <2>4. n \in Nat \ {0} /\ n <= Len(recs)
    BY <1>1, <2>3
  <2>5. ~(n <= Len(ReadableLog))
    BY <1>1, <2>3, <2>4
  <2> QED BY <1>1, <1>3, <2>2, <2>4, <2>5
<1> QED BY <1>2, <1>3

\* get_since, when it succeeds, returns every readable record from the offset asked
\* for on, whatever flushes, crashes and compactions have left in the index.
THEOREM ReadsMissNothing == Spec => []GetSinceNeverMisses
<1>1. FileInv => GetSinceNeverMisses
  <2> SUFFICES ASSUME FileInv, NEW o \in 0..Len(recs), NEW start \in StartPositions(o),
                      NEW answer \in GetSince(o, start), answer.ok,
                      NEW i \in (o + 1)..Len(ReadableLog)
               PROVE  recs[i] \in Range(answer.changes)
    BY DEF GetSinceNeverMisses
  <2>1. recs \in Seq(Change \cup {Torn}) /\ Len(recs) \in Nat /\ o \in Nat
    BY RangeOf DEF FileInv, FileType
  <2>2. PICK first : first = FirstOffset(start)
    OBVIOUS
  <2>3. PICK skip : skip = IF o > first THEN o - first ELSE 0
    OBVIOUS
  <2>4. PICK T : T = {n \in start..Len(recs) : recs[n] = Torn}
    OBVIOUS
  <2>5. PICK stop : stop = IF T = {} THEN Len(recs) ELSE Min(T) - 1
    OBVIOUS
  <2>6. start # 0 /\ answer.changes = SubSeq(recs, start + skip, stop)
    BY <2>2, <2>3, <2>4, <2>5 DEF GetSince
  <2>7. start \in Nat /\ start <= o + 1 /\ start <= first + 1 /\ first \in Nat
    BY <2>1, <2>2, <2>6, StartsEarly, FirstOffsetLate
  <2>8. stop \in Nat /\ Len(ReadableLog) <= stop /\ stop <= Len(recs)
    BY <2>4, <2>5, <2>6, <2>7, StopsLate
  <2>9. PICK m \in Nat \ {0} : m = start + skip /\ i \in m..stop
    <3>1. skip \in Nat /\ start + skip <= o + 1
      BY <2>1, <2>3, <2>7
    <3>2. Len(ReadableLog) \in Nat
      BY <2>1, ReadableLogIs, ReadableIs
    <3>3. start + skip \in Nat \ {0} /\ i \in (start + skip)..stop
      BY <2>1, <2>6, <2>7, <2>8, <3>1, <3>2
    <3> QED BY <3>3
  <2>10. recs[i] \in Range(SubSeq(recs, m, stop))
    BY <2>1, <2>8, <2>9, PartHas
  <2> QED BY <2>6, <2>9, <2>10
<1> QED BY <1>1, FileInvariant, PTL

(* ------------------------- the file store is an append-only log ---------- *)

\* The abstract log's waiting and durable, and what is waiting.
Waiting == Range(buffer) \cup UNION {Range(batch[t]) : t \in {u \in Threads : pc[u] # "sync"}}
Durable == Min({synced, Len(ReadableLog)})

\* A change waits in the buffer or in the hands of a thread that has not written.
LEMMA InWaiting ==
  /\ \A c : c \in Waiting <=> \/ c \in Range(buffer)
                              \/ \E t \in Threads : pc[t] # "sync" /\ c \in Range(batch[t])
  /\ \A c : c \in Waiting' <=> \/ c \in Range(buffer')
                               \/ \E t \in Threads : pc'[t] # "sync" /\ c \in Range(batch'[t])
  BY DEF Waiting

\* The smaller of two numbers.
LEMMA SmallerOf ==
  ASSUME NEW a \in Nat, NEW b \in Nat
  PROVE  Min({a, b}) = IF a <= b THEN a ELSE b
<1>1. PICK m : m = Min({a, b})
  OBVIOUS
<1>2. m \in {a, b} /\ \A y \in {a, b} : m <= y
  <2>1. {a, b} \subseteq Nat /\ {a, b} # {}
    OBVIOUS
  <2> QED BY <1>1, <2>1, LeastOf
<1>3. m = IF a <= b THEN a ELSE b
  BY <1>2
<1> QED BY <1>1, <1>3

\* The file, as the abstract log sees it before and after a step.
LEMMA LogOfFile ==
  ASSUME FileInv
  PROVE  /\ recs \in Seq(Change \cup {Torn}) /\ Len(recs) \in Nat
         /\ synced \in Nat /\ synced <= Len(recs)
         /\ ReadableLog = ReadableOf(recs) /\ ReadableLog \in Seq(Change)
         /\ Len(ReadableLog) \in Nat /\ Len(ReadableLog) <= Len(recs)
         /\ ReadableLog' = ReadableOf(recs')
         /\ Durable = IF synced <= Len(ReadableLog) THEN synced ELSE Len(ReadableLog)
<1>1. /\ recs \in Seq(Change \cup {Torn}) /\ Len(recs) \in Nat
      /\ synced \in Nat /\ synced <= Len(recs)
  BY RangeOf DEF FileInv, FileType
<1>2. ReadableLog = ReadableOf(recs) /\ ReadableLog' = ReadableOf(recs')
  BY ReadableLogIs, ReadableLogIsNext
<1>3. ReadableLog \in Seq(Change) /\ Len(ReadableLog) \in Nat /\ Len(ReadableLog) <= Len(recs)
  <2>1. PICK r : r = ReadableOf(recs) /\ r \in Seq(Change) /\ Len(r) \in Nat /\ Len(r) <= Len(recs)
    BY <1>1, ReadableIs
  <2> QED BY <2>1, <1>2
<1>4. Durable = IF synced <= Len(ReadableLog) THEN synced ELSE Len(ReadableLog)
  BY <1>1, <1>3, SmallerOf DEF Durable
<1> QED BY <1>1, <1>2, <1>3, <1>4

\* A step that leaves the file alone and what waits waiting is no step of the log.
LEMMA StutterMaps ==
  ASSUME UNCHANGED <<recs, synced, appended>>, Waiting' = Waiting
  PROVE  UNCHANGED Log!logVars
<1>1. ReadableLog' = ReadableLog
  BY ReadableLogIs, ReadableLogIsNext
<1>2. Min({synced, Len(ReadableLog)})' = Min({synced, Len(ReadableLog)})
  BY <1>1
<1>3. (DOMAIN appended)' = DOMAIN appended
  OBVIOUS
<1> QED BY <1>1, <1>2, <1>3 DEF Log!logVars, Waiting

\* A thread that holds nothing, before and after, and its program counter.
LEMMA WaitingAlone ==
  ASSUME NEW t \in Threads, buffer' = buffer,
         \A u \in Threads \ {t} : batch'[u] = batch[u] /\ pc'[u] = pc[u],
         pc[t] = "sync" \/ Range(batch[t]) = {}, pc'[t] = "sync" \/ Range(batch'[t]) = {}
  PROVE  Waiting' = Waiting
<1>1. ASSUME NEW c PROVE c \in Waiting' <=> c \in Waiting
  <2>1. ASSUME NEW u \in Threads
        PROVE  (pc'[u] # "sync" /\ c \in Range(batch'[u])) <=> (pc[u] # "sync" /\ c \in Range(batch[u]))
    <3>1. CASE u = t
      BY <3>1
    <3>2. CASE u # t
      BY <3>2
    <3> QED BY <3>1, <3>2
  <2> QED BY <2>1, InWaiting
<1> QED BY <1>1

\* append gives the log a new change.
LEMMA AppendOffsetMaps ==
  ASSUME FileInv, NEW t \in Threads, AppendOffset(t)
  PROVE  \E c \in 1..MaxAppends : Log!Accept(c)
<1> USE DEF disk
<1>1. PICK c : c = Len(appended) + 1
  OBVIOUS
<1>2. /\ appended \in Seq(Nat) /\ Len(appended) \in Nat /\ tail \in Nat
      /\ batch \in [Threads -> Seq(Change)] /\ pc \in [Threads -> Steps]
      /\ Range(batch[t]) = {} /\ DOMAIN appended = 1..Len(appended)
  BY RangeOf, RangeEmpty DEF FileInv, FileType, Holding, AppendOffset
<1>3. c \in 1..MaxAppends /\ c \notin DOMAIN appended
  BY <1>1, <1>2 DEF AppendOffset
<1>4. DOMAIN appended' = DOMAIN appended \cup {c}
  <2>1. appended' = Append(appended, tail)
    BY DEF AppendOffset
  <2>2. appended' \in Seq(Nat) /\ Len(appended') = Len(appended) + 1
    BY <2>1, <1>2, AppendProperties
  <2>3. DOMAIN appended' = 1..(Len(appended) + 1)
    BY <2>2, RangeOf
  <2> QED BY <2>3, <1>1, <1>2
<1>5. Waiting' = Waiting \cup {c}
  <2>1. /\ batch'[t] = <<c>> /\ pc'[t] = "buffer" /\ buffer' = buffer
        /\ \A u \in Threads \ {t} : batch'[u] = batch[u] /\ pc'[u] = pc[u]
    BY <1>1, <1>2 DEF AppendOffset
  <2>2. Range(batch'[t]) = {c}
    BY <2>1, <1>3, Single
  <2>3. ASSUME NEW x PROVE x \in Waiting' <=> x \in Waiting \/ x = c
    <3>1. x \in Waiting' => x \in Waiting \/ x = c
      <4>1. ASSUME NEW u \in Threads, pc'[u] # "sync", x \in Range(batch'[u]) PROVE x \in Waiting \/ x = c
        BY <4>1, <2>1, <2>2, InWaiting
      <4>2. x \in Range(buffer') => x \in Waiting
        BY <2>1, InWaiting
      <4> QED BY <4>1, <4>2, InWaiting
    <3>2. x \in Waiting => x \in Waiting'
      <4>1. ASSUME NEW u \in Threads, pc[u] # "sync", x \in Range(batch[u]) PROVE x \in Waiting'
        <5>1. u # t
          BY <4>1, <1>2
        <5> QED BY <4>1, <5>1, <2>1, InWaiting
      <4>2. x \in Range(buffer) => x \in Waiting'
        BY <2>1, InWaiting
      <4> QED BY <4>1, <4>2, InWaiting
    <3>3. c \in Waiting'
      BY <2>1, <2>2, InWaiting
    <3> QED BY <3>1, <3>2, <3>3
  <2> QED BY <2>3
<1>6. ReadableLog' = ReadableLog /\ synced' = synced
  BY ReadableLogIs, ReadableLogIsNext DEF AppendOffset
<1>7. Min({synced, Len(ReadableLog)})' = Min({synced, Len(ReadableLog)})
  BY <1>6
<1>8. Log!Accept(c)
  BY <1>3, <1>4, <1>5, <1>6, <1>7 DEF Log!Accept, Waiting
<1> QED BY <1>3, <1>8

\* Into the buffer: the change still waits.
LEMMA AppendBufferMaps ==
  ASSUME FileInv, NEW t \in Threads, AppendBuffer(t)
  PROVE  UNCHANGED Log!logVars
<1> USE DEF disk, history
<1>1. /\ batch \in [Threads -> Seq(Change)] /\ pc \in [Threads -> Steps] /\ buffer \in Seq(Change)
      /\ pc[t] = "buffer"
  BY DEF FileInv, FileType, AppendBuffer
<1>2. PICK h \in Seq(Change) : h = batch[t]
  BY <1>1
<1>3. Range(buffer') = Range(buffer) \cup Range(h)
  <2>1. buffer' = buffer \o h
    BY <1>2 DEF AppendBuffer
  <2> QED BY <1>1, <2>1, Concatenated
<1>4. /\ batch'[t] = <<>> /\ Range(batch'[t]) = {}
      /\ \A u \in Threads \ {t} : batch'[u] = batch[u] /\ pc'[u] = pc[u]
  BY <1>1, RangeEmpty DEF AppendBuffer
<1>5. ASSUME NEW x PROVE x \in Waiting' <=> x \in Waiting
  <2>1. x \in Waiting' => x \in Waiting
    <3>1. ASSUME NEW u \in Threads, pc'[u] # "sync", x \in Range(batch'[u]) PROVE x \in Waiting
      BY <3>1, <1>4, InWaiting
    <3>2. x \in Range(buffer') => x \in Waiting
      BY <1>1, <1>2, <1>3, InWaiting
    <3> QED BY <3>1, <3>2, InWaiting
  <2>2. x \in Waiting => x \in Waiting'
    <3>1. ASSUME NEW u \in Threads, pc[u] # "sync", x \in Range(batch[u]) PROVE x \in Waiting'
      <4>1. CASE u = t
        BY <3>1, <4>1, <1>2, <1>3, InWaiting
      <4>2. CASE u # t
        BY <3>1, <4>2, <1>4, InWaiting
      <4> QED BY <4>1, <4>2
    <3>2. x \in Range(buffer) => x \in Waiting'
      BY <1>3, InWaiting
    <3> QED BY <3>1, <3>2, InWaiting
  <2> QED BY <2>1, <2>2
<1>6. Waiting' = Waiting /\ UNCHANGED <<recs, synced, appended>>
  BY <1>5 DEF AppendBuffer
<1> QED BY <1>6, StutterMaps

\* Out of the buffer: it waits in the hands of the thread.
LEMMA FlushTakeMaps ==
  ASSUME FileInv, NEW t \in Threads, FlushTake(t)
  PROVE  UNCHANGED Log!logVars
<1> USE DEF disk, history
<1>1. /\ batch \in [Threads -> Seq(Change)] /\ pc \in [Threads -> Steps]
      /\ ret \in [Threads -> {"idle", "release"}]
      /\ pc[t] = "take" /\ Range(batch[t]) = {} /\ Range(buffer') = {}
  BY RangeEmpty DEF FileInv, FileType, Holding, FlushTake
<1>2. /\ batch'[t] = buffer /\ pc'[t] # "sync"
      /\ \A u \in Threads \ {t} : batch'[u] = batch[u] /\ pc'[u] = pc[u]
  BY <1>1 DEF FlushTake
<1>3. ASSUME NEW x PROVE x \in Waiting' <=> x \in Waiting
  <2>1. x \in Waiting' => x \in Waiting
    <3>1. ASSUME NEW u \in Threads, pc'[u] # "sync", x \in Range(batch'[u]) PROVE x \in Waiting
      BY <3>1, <1>2, InWaiting
    <3> QED BY <3>1, <1>1, InWaiting
  <2>2. x \in Waiting => x \in Waiting'
    <3>1. ASSUME NEW u \in Threads, pc[u] # "sync", x \in Range(batch[u]) PROVE x \in Waiting'
      <4>1. u # t
        BY <3>1, <1>1
      <4> QED BY <3>1, <4>1, <1>2, InWaiting
    <3>2. x \in Range(buffer) => x \in Waiting'
      BY <1>2, InWaiting
    <3> QED BY <3>1, <3>2, InWaiting
  <2> QED BY <2>1, <2>2
<1>4. Waiting' = Waiting /\ UNCHANGED <<recs, synced, appended>>
  BY <1>3 DEF FlushTake
<1> QED BY <1>4, StutterMaps

\* The steps of a thread that moves no change.
LEMMA RestingMaps ==
  ASSUME FileInv, NEW t \in Threads,
         \/ FlushStart(t) \/ FlushSyncFails(t) \/ CloseStart(t) \/ CloseRelease(t)
         \/ CompactBegin(t) \/ CompactRename(t) \/ CompactFails(t)
         \/ CompactClearIndex(t) \/ CompactSetTail(t)
  PROVE  UNCHANGED Log!logVars
<1> USE DEF disk, memory, history
<1>1. batch \in [Threads -> Seq(Change)] /\ pc \in [Threads -> Steps]
  BY DEF FileInv, FileType
<1>2. /\ UNCHANGED <<recs, synced, appended, buffer>>
      /\ batch' = batch \/ batch' = [batch EXCEPT ![t] = <<>>]
      /\ \E x \in Steps \ {"sync"} : pc' = [pc EXCEPT ![t] = x]
      /\ pc[t] \notin {"buffer", "write"}
  BY DEF FlushStart, FlushSyncFails, CloseStart, CloseRelease, CompactBegin, CompactRename,
         CompactFails, CompactClearIndex, CompactSetTail, Steps
<1>3. /\ \A u \in Threads \ {t} : batch'[u] = batch[u] /\ pc'[u] = pc[u]
      /\ pc'[t] # "sync"
  BY <1>1, <1>2
<1>4. pc[t] = "sync" \/ batch[t] = <<>>
  BY <1>1, <1>2 DEF FileInv, Holding, Steps
<1>5. batch'[t] = <<>>
  <2>1. CASE pc[t] = "sync"
    <3>1. batch' = [batch EXCEPT ![t] = <<>>]
      BY <2>1 DEF FlushStart, FlushSyncFails, CloseStart, CloseRelease, CompactBegin, CompactRename,
         CompactFails, CompactClearIndex, CompactSetTail
    <3> QED BY <3>1, <1>1
  <2>2. CASE pc[t] # "sync"
    BY <2>2, <1>1, <1>2, <1>4
  <2> QED BY <2>1, <2>2
<1>6. (pc[t] = "sync" \/ Range(batch[t]) = {}) /\ Range(batch'[t]) = {}
  BY <1>4, <1>5, RangeEmpty
<1>7. Waiting' = Waiting
  BY <1>2, <1>3, <1>6, WaitingAlone
<1> QED BY <1>2, <1>7, StutterMaps

\* Opening the file: nothing waits in a store that is not open.
LEMMA OpenMaps ==
  ASSUME FileInv, Open
  PROVE  UNCHANGED Log!logVars
<1>1. UNCHANGED <<recs, synced, appended, buffer, pc, batch>>
  BY DEF Open, FileInv, Holding, control
<1>2. Waiting' = Waiting
  BY <1>1 DEF Waiting
<1> QED BY <1>1, <1>2, StutterMaps

\* sync_all makes all of the log durable.
LEMMA FlushSyncMaps ==
  ASSUME FileInv, NEW t \in Threads, FlushSync(t)
  PROVE  Log!Sync
<1>1. /\ batch \in [Threads -> Seq(Change)] /\ pc \in [Threads -> Steps] /\ pc[t] = "sync"
      /\ UNCHANGED <<recs, appended, buffer>> /\ synced' = Len(recs)
  BY DEF FileInv, FileType, FlushSync
<1>2. /\ batch'[t] = <<>> /\ \A u \in Threads \ {t} : batch'[u] = batch[u] /\ pc'[u] = pc[u]
  BY <1>1 DEF FlushSync
<1>3. Waiting' = Waiting
  BY <1>1, <1>2, RangeEmpty, WaitingAlone
<1>4. ReadableLog' = ReadableLog /\ Len(ReadableLog) \in Nat /\ Len(ReadableLog) <= Len(recs) /\ Len(recs) \in Nat
  BY <1>1, LogOfFile
<1>5. Min({synced', Len(ReadableLog)}) = Len(ReadableLog)
  <2>1. Min({Len(recs), Len(ReadableLog)}) =
          IF Len(recs) <= Len(ReadableLog) THEN Len(recs) ELSE Len(ReadableLog)
    BY <1>4, SmallerOf
  <2> QED BY <2>1, <1>1, <1>4
<1>6. Min({synced, Len(ReadableLog)})' = Len(ReadableLog)
  BY <1>4, <1>5
<1>7. (DOMAIN appended)' = DOMAIN appended
  BY <1>1
<1> QED BY <1>3, <1>4, <1>6, <1>7 DEF Log!Sync, Waiting

\* A write that adds nothing is a part too.
LEMMA NoPart ==
  ASSUME NEW held \in Seq(Change)
  PROVE  Part(held, 0, <<>>)
<1>1. Len(held) \in Nat /\ <<>> \in Seq(Change \cup {Torn}) /\ Len(<<>>) = 0
  BY RangeOf, EmptySeq
<1> QED BY <1>1, RangeEmpty DEF Part

\* What a write adds to the readable records: nothing behind a torn one, else a
\* beginning of what was held.
LEMMA ReadableBehind ==
  ASSUME NEW s \in Seq(Change \cup {Torn}), NEW held \in Seq(Change), NEW n, NEW b, Part(held, n, b)
  PROVE  LET r == ReadableOf(s)
             q == ReadableOf(s \o b)
         IN  /\ q \in Seq(Change) /\ Len(r) \in Nat /\ Len(q) \in Nat /\ Len(r) <= Len(q)
             /\ \A i \in 1..Len(r) : q[i] = r[i]
             /\ \A i \in (Len(r) + 1)..Len(q) : \E k \in 1..Len(held) : i = Len(r) + k /\ q[i] = held[k]
             /\ Len(q) = Len(r) \/ Len(r) = Len(s)
<1>1. /\ n \in Nat /\ n <= Len(held) /\ n <= Len(b) /\ b \in Seq(Change \cup {Torn})
      /\ \A i \in 1..n : b[i] = held[i]
      /\ Len(b) = n \/ b[n + 1] = Torn
  BY DEF Part
<1>2. PICK z \in Seq(Change \cup {Torn}) :
        /\ z = s \o b /\ Len(z) = Len(s) + Len(b) /\ Len(s) \in Nat /\ Len(b) \in Nat
        /\ \A i \in 1..Len(s) : z[i] = s[i]
        /\ \A i \in 1..Len(b) : z[Len(s) + i] = b[i]
  <2>1. PICK z : z = s \o b
    OBVIOUS
  <2>2. /\ z \in Seq(Change \cup {Torn}) /\ Len(z) = Len(s) + Len(b) /\ Len(s) \in Nat /\ Len(b) \in Nat
        /\ \A i \in 1..Len(s) : z[i] = s[i]
        /\ \A i \in 1..Len(b) : z[Len(s) + i] = b[i]
    BY <2>1, <1>1, Concatenated
  <2> QED BY <2>1, <2>2
<1>3. PICK r \in Seq(Change) :
        /\ r = ReadableOf(s) /\ Len(r) \in Nat /\ Len(r) <= Len(s)
        /\ \A i \in 1..Len(r) : r[i] = s[i]
        /\ Len(r) = Len(s) \/ (Len(r) < Len(s) /\ s[Len(r) + 1] = Torn)
  BY ReadableIs
<1>4. CASE Len(r) < Len(s)
  <2>1. Len(r) + 1 \in 1..Len(s) /\ Len(r) <= Len(z)
    BY <1>2, <1>3, <1>4
  <2>2. z[Len(r) + 1] = Torn
    BY <2>1, <1>2, <1>3, <1>4
  <2>3. \A i \in 1..Len(r) : r[i] = z[i]
    <3> TAKE i \in 1..Len(r)
    <3>1. i \in 1..Len(s)
      BY <1>2, <1>3
    <3> QED BY <3>1, <1>2, <1>3
  <2>4. ReadableOf(z) = r
    BY <2>1, <2>2, <2>3, ReadableUnique
  <2>5. (Len(r) + 1)..Len(r) = {}
    BY <1>3
  <2> QED BY <2>4, <2>5, <1>2, <1>3
<1>5. CASE Len(r) = Len(s)
  <2>1. PICK h \in Seq(Change) : Len(h) = n /\ \A i \in 1..n : h[i] = held[i]
    <3>1. PICK h : h = SubSeq(held, 1, n)
      OBVIOUS
    <3>2. h \in Seq(Change) /\ Len(h) = n /\ \A i \in 1..n : h[i] = held[i]
      BY <3>1, <1>1, Beginning
    <3> QED BY <3>2
  <2>2. PICK q \in Seq(Change) :
          /\ Len(q) = Len(r) + Len(h)
          /\ \A i \in 1..Len(r) : q[i] = r[i]
          /\ \A i \in 1..Len(h) : q[Len(r) + i] = h[i]
    <3>1. PICK q : q = r \o h
      OBVIOUS
    <3>2. /\ q \in Seq(Change) /\ Len(q) = Len(r) + Len(h)
          /\ \A i \in 1..Len(r) : q[i] = r[i]
          /\ \A i \in 1..Len(h) : q[Len(r) + i] = h[i]
      BY <3>1, Concatenated
    <3> QED BY <3>2
  <2>3. Len(q) = Len(s) + n /\ Len(q) <= Len(z) /\ Len(q) \in Nat /\ Len(r) <= Len(q)
    BY <2>1, <2>2, <1>1, <1>2, <1>3, <1>5
  <2>4. ASSUME NEW i \in 1..Len(q) PROVE i \in 1..Len(s) \/ \E k \in 1..n : i = Len(s) + k
    <3>1. i \in 1..Len(s) \/ (i - Len(s) \in 1..n /\ i = Len(s) + (i - Len(s)))
      BY <2>3, <1>1, <1>2
    <3> QED BY <3>1
  <2>5. ASSUME NEW i \in 1..Len(q) PROVE q[i] = z[i]
    <3>1. CASE i \in 1..Len(s)
      BY <3>1, <2>2, <1>2, <1>3, <1>5
    <3>2. ASSUME NEW k \in 1..n, i = Len(s) + k PROVE q[i] = z[i]
      <4>1. k \in 1..Len(b) /\ k \in 1..Len(h)
        BY <2>1, <1>1, <1>2
      <4>2. q[i] = h[k] /\ h[k] = held[k] /\ b[k] = held[k] /\ z[i] = b[k]
        BY <3>2, <4>1, <2>1, <2>2, <1>1, <1>2, <1>5
      <4> QED BY <4>2
    <3> QED BY <3>1, <3>2, <2>4
  <2>6. Len(q) = Len(z) \/ z[Len(q) + 1] = Torn
    <3>1. CASE Len(b) = n
      BY <3>1, <2>3, <1>2
    <3>2. CASE Len(b) # n
      <4>1. PICK k \in 1..Len(b) : k = n + 1 /\ Len(q) + 1 = Len(s) + k
        <5>1. n + 1 \in 1..Len(b) /\ Len(q) + 1 = Len(s) + (n + 1)
          BY <3>2, <2>3, <1>1, <1>2
        <5> QED BY <5>1
      <4>2. z[Len(s) + k] = Torn
        BY <4>1, <3>2, <1>1, <1>2
      <4> QED BY <4>1, <4>2
    <3> QED BY <3>1, <3>2
  <2>7. ReadableOf(z) = q
    BY <2>3, <2>5, <2>6, ReadableUnique
  <2>8. ASSUME NEW i \in (Len(r) + 1)..Len(q)
        PROVE  \E k \in 1..Len(held) : i = Len(r) + k /\ q[i] = held[k]
    <3>1. PICK k \in 1..n : i = Len(r) + k
      <4>1. i - Len(r) \in 1..n /\ i = Len(r) + (i - Len(r))
        BY <2>3, <1>1, <1>2, <1>3, <1>5
      <4> QED BY <4>1
    <3>2. k \in 1..Len(h) /\ k \in 1..Len(held)
      BY <2>1, <1>1, RangeOf
    <3> QED BY <3>1, <3>2, <2>1, <2>2
  <2>9. /\ \A i \in 1..Len(r) : q[i] = r[i]
        /\ \A i \in (Len(r) + 1)..Len(q) : \E k \in 1..Len(held) : i = Len(r) + k /\ q[i] = held[k]
    BY <2>2, <2>8
  <2>10. ReadableOf(s) = r /\ ReadableOf(s \o b) = q
    BY <2>7, <1>2, <1>3
  <2> QED BY <2>3, <2>9, <2>10, <1>3, <1>5
<1> QED BY <1>3, <1>4, <1>5

\* A thread that puts a part of what it holds into the file, and whose changes
\* wait no longer.
LEMMA WriteMaps ==
  ASSUME FileInv, NEW t \in Threads, pc[t] # "sync", NEW n, NEW b, Part(batch[t], n, b),
         recs' = recs \o b, UNCHANGED <<synced, appended, buffer>>,
         \A u \in Threads \ {t} : batch'[u] = batch[u] /\ pc'[u] = pc[u],
         pc'[t] = "sync" \/ batch'[t] = <<>>
  PROVE  Log!Write
<1>1. PICK held \in Seq(Change) : held = batch[t]
  BY DEF FileInv, FileType
<1>2. NoRepeat(held) /\ DOMAIN held = 1..Len(held) /\ Len(held) \in Nat /\ Torn \notin Range(held)
      /\ \A k \in 1..Len(held) : held[k] \in Range(held)
  BY <1>1, RangeOf, TornIsHeldNowhere DEF FileInv, OnePlace
<1>3. /\ recs \in Seq(Change \cup {Torn}) /\ Len(recs) \in Nat /\ synced \in Nat /\ synced <= Len(recs)
      /\ ReadableLog = ReadableOf(recs) /\ ReadableLog' = ReadableOf(recs')
  BY LogOfFile
<1>4. PICK r : r = ReadableLog
  OBVIOUS
<1>5. PICK q : q = ReadableLog'
  OBVIOUS
<1>6. /\ q \in Seq(Change) /\ Len(r) \in Nat /\ Len(q) \in Nat /\ Len(r) <= Len(q)
      /\ \A i \in 1..Len(r) : q[i] = r[i]
      /\ \A i \in (Len(r) + 1)..Len(q) : \E k \in 1..Len(held) : i = Len(r) + k /\ q[i] = held[k]
      /\ Len(q) = Len(r) \/ Len(r) = Len(recs)
  <2>1. r = ReadableOf(recs) /\ q = ReadableOf(recs \o b) /\ Part(held, n, b)
    BY <1>1, <1>3, <1>4, <1>5
  <2>2. PICK s \in Seq(Change \cup {Torn}) : s = recs
    BY <1>3
  <2>3. r = ReadableOf(s) /\ q = ReadableOf(s \o b)
    BY <2>1, <2>2
  <2>4. LET rr == ReadableOf(s)
            qq == ReadableOf(s \o b)
        IN  /\ qq \in Seq(Change) /\ Len(rr) \in Nat /\ Len(qq) \in Nat /\ Len(rr) <= Len(qq)
            /\ \A i \in 1..Len(rr) : qq[i] = rr[i]
            /\ \A i \in (Len(rr) + 1)..Len(qq) :
                 \E k \in 1..Len(held) : i = Len(rr) + k /\ qq[i] = held[k]
            /\ Len(qq) = Len(rr) \/ Len(rr) = Len(s)
    BY <2>1, ReadableBehind
  <2> QED BY <2>2, <2>3, <2>4
<1> DEFINE new == (Len(r) + 1)..Len(q)
<1>7. \A i \in new : q[i] \in Range(held)
  BY <1>2, <1>6
<1>8. ASSUME NEW i \in new, NEW j \in new, q[i] = q[j] PROVE i = j
  <2>1. PICK k \in 1..Len(held) : i = Len(r) + k /\ q[i] = held[k]
    BY <1>6
  <2>2. PICK m \in 1..Len(held) : j = Len(r) + m /\ q[j] = held[m]
    BY <1>6
  <2>3. held[k] = held[m] /\ held[k] # Torn
    BY <2>1, <2>2, <1>2, <1>8
  <2>4. k = m
    BY <2>3, <1>2 DEF NoRepeat
  <2> QED BY <2>1, <2>2, <2>4
<1>9. Waiting' \subseteq Waiting \ Range(held) /\ Range(held) \subseteq Waiting
  <2>1. Range(held) \subseteq Waiting
    BY <1>1, InWaiting
  <2>2. ASSUME NEW c \in Waiting' PROVE c \in Waiting /\ c \notin Range(held)
    <3>1. CASE c \in Range(buffer')
      <4>1. Range(held) \cap Range(buffer) = {}
        BY <1>1 DEF FileInv, OnePlace
      <4> QED BY <3>1, <4>1, InWaiting
    <3>2. ASSUME NEW u \in Threads, pc'[u] # "sync", c \in Range(batch'[u])
          PROVE  c \in Waiting /\ c \notin Range(held)
      <4>1. u # t
        BY <3>2, RangeEmpty
      <4>2. Range(batch[u]) \cap Range(held) = {}
        BY <4>1, <1>1 DEF FileInv, OnePlace
      <4>3. pc[u] # "sync" /\ c \in Range(batch[u])
        BY <3>2, <4>1
      <4> QED BY <4>2, <4>3, InWaiting
    <3> QED BY <2>2, <3>1, <3>2, InWaiting
  <2> QED BY <2>1, <2>2
<1>10. Min({synced', Len(q)}) = Min({synced, Len(r)})
  <2>1. Min({synced, Len(q)}) = IF synced <= Len(q) THEN synced ELSE Len(q)
    BY <1>3, <1>6, SmallerOf
  <2>2. Min({synced, Len(r)}) = IF synced <= Len(r) THEN synced ELSE Len(r)
    BY <1>3, <1>6, SmallerOf
  <2>3. Min({synced, Len(q)}) = Min({synced, Len(r)})
    BY <2>1, <2>2, <1>3, <1>6
  <2> QED BY <2>3
<1>11. {q[i] : i \in new} \subseteq Range(held)
  BY <1>7
<1>12. /\ \A i \in new : q[i] \in Waiting
       /\ Waiting' \subseteq Waiting \ {q[i] : i \in new}
  BY <1>7, <1>9, <1>11
<1>13. /\ ReadableLog' \in Seq(1..MaxAppends) /\ Len(ReadableLog') >= Len(ReadableLog)
       /\ \A i \in 1..Len(ReadableLog) : ReadableLog'[i] = ReadableLog[i]
  BY <1>4, <1>5, <1>6 DEF Change
<1>14. /\ \A i \in (Len(ReadableLog) + 1)..Len(ReadableLog') : ReadableLog'[i] \in Waiting
       /\ \A i, j \in (Len(ReadableLog) + 1)..Len(ReadableLog') : ReadableLog'[i] = ReadableLog'[j] => i = j
       /\ Waiting' \subseteq Waiting \ {ReadableLog'[i] : i \in (Len(ReadableLog) + 1)..Len(ReadableLog')}
  BY <1>4, <1>5, <1>8, <1>12
<1>15. Min({synced, Len(ReadableLog)})' = Min({synced, Len(ReadableLog)})
  BY <1>4, <1>5, <1>10
<1>16. (DOMAIN appended)' = DOMAIN appended
  OBVIOUS
<1> QED BY <1>13, <1>14, <1>15, <1>16 DEF Log!Write, Waiting

\* compact's second rename empties the log.
LEMMA CompactReplaceMaps ==
  ASSUME FileInv, NEW t \in Threads, CompactReplace(t)
  PROVE  Log!Compact
<1>1. /\ recs' = <<>> /\ synced' = 0 /\ UNCHANGED <<appended, buffer, batch>>
      /\ pc[t] = "replace" /\ pc' = [pc EXCEPT ![t] = "clearIndex"]
  BY DEF CompactReplace, CompactedRecords, history
<1>2. /\ pc \in [Threads -> Steps] /\ batch[t] = <<>>
  BY <1>1 DEF FileInv, FileType, Holding
<1>3. Waiting' = Waiting
  <2>1. \A u \in Threads \ {t} : batch'[u] = batch[u] /\ pc'[u] = pc[u]
    BY <1>1, <1>2
  <2>2. Range(batch[t]) = {} /\ Range(batch'[t]) = {}
    BY <1>1, <1>2, RangeEmpty
  <2> QED BY <1>1, <2>1, <2>2, WaitingAlone
<1>4. ReadableLog' = <<>>
  <2>1. ReadableOf(<<>>) = <<>>
    BY RangeEmpty DEF ReadableOf
  <2> QED BY <1>1, <2>1, LogOfFile
<1>5. PICK l \in Nat : l = Len(ReadableLog) /\ l \in 0..Len(ReadableLog) /\ ReadableLog \in Seq(Change)
  BY LogOfFile
<1>6. SubSeq(ReadableLog, l + 1, l) = <<>>
  BY <1>5
<1>7. \E n \in 0..Len(ReadableLog) : ReadableLog' = SubSeq(ReadableLog, n + 1, Len(ReadableLog))
  BY <1>4, <1>5, <1>6
<1>8. Len(ReadableLog') = 0 /\ Min({synced', Len(ReadableLog')}) = 0
  <2>1. Min({0, 0}) = 0
    BY SmallerOf
  <2> QED BY <2>1, <1>1, <1>4
<1>9. Min({synced, Len(ReadableLog)})' = Len(ReadableLog')
  BY <1>8
<1>10. (DOMAIN appended)' = DOMAIN appended
  BY <1>1
<1> QED BY <1>3, <1>7, <1>9, <1>10 DEF Log!Compact, Waiting

\* A crash leaves a beginning of the readable log, no shorter than its durable part.
LEMMA CrashMaps ==
  ASSUME FileInv, Crash
  PROVE  Log!Crash
<1>1. PICK n \in Nat :
        /\ synced <= n /\ n <= Len(recs) /\ n <= Len(recs') /\ Len(recs') \in Nat
        /\ recs' \in Seq(Change \cup {Torn})
        /\ \A i \in 1..n : recs'[i] = recs[i]
        /\ recs' = SubSeq(recs, 1, n) \/ (recs' = Append(SubSeq(recs, 1, n), Torn) /\ n < Len(recs))
  BY CrashLeaves
<1>2. /\ recs \in Seq(Change \cup {Torn}) /\ Len(recs) \in Nat /\ synced \in Nat /\ synced <= Len(recs)
      /\ ReadableLog = ReadableOf(recs) /\ ReadableLog' = ReadableOf(recs')
  BY LogOfFile
<1>3. PICK r \in Seq(Change) :
        /\ r = ReadableLog /\ Len(r) \in Nat /\ Len(r) <= Len(recs)
        /\ \A i \in 1..Len(r) : r[i] = recs[i]
        /\ Len(r) = Len(recs) \/ (Len(r) < Len(recs) /\ recs[Len(r) + 1] = Torn)
  BY <1>2, ReadableIs
<1>4. Len(recs') = n \/ (Len(recs') = n + 1 /\ recs'[n + 1] = Torn)
  <2>1. PICK s : s = SubSeq(recs, 1, n)
    OBVIOUS
  <2>2. s \in Seq(Change \cup {Torn}) /\ Len(s) = n
    BY <2>1, <1>1, <1>2, Beginning
  <2>3. recs' = s \/ recs' = Append(s, Torn)
    BY <2>1, <1>1
  <2>4. Len(Append(s, Torn)) = n + 1 /\ Append(s, Torn)[n + 1] = Torn
    BY <2>2, AppendProperties
  <2> QED BY <2>2, <2>3, <2>4
<1>5. PICK m \in Nat : m = IF n <= Len(r) THEN n ELSE Len(r)
  BY <1>1, <1>3
<1>6. PICK q : q = SubSeq(r, 1, m)
  OBVIOUS
<1>7. m <= Len(r) /\ m <= n
  BY <1>1, <1>3, <1>5
<1>8. q \in Seq(Change) /\ Len(q) = m /\ \A i \in 1..m : q[i] = r[i]
  BY <1>6, <1>7, Beginning
<1>9. \A i \in 1..m : q[i] = recs'[i]
  <2> TAKE i \in 1..m
  <2>1. i \in 1..Len(r) /\ i \in 1..n
    BY <1>7, <1>3
  <2> QED BY <2>1, <1>1, <1>3, <1>8
<1>10. m = Len(recs') \/ recs'[m + 1] = Torn
  <2>1. CASE n <= Len(r)
    BY <2>1, <1>4, <1>5
  <2>2. CASE ~(n <= Len(r))
    <3>1. m = Len(r) /\ m + 1 \in 1..n /\ Len(r) # Len(recs)
      BY <2>2, <1>1, <1>2, <1>3, <1>5
    <3>2. recs'[m + 1] = recs[m + 1]
      BY <3>1, <1>1
    <3> QED BY <3>1, <3>2, <1>3
  <2> QED BY <2>1, <2>2
<1>11. ReadableOf(recs') = q
  <2>1. PICK z \in Seq(Change \cup {Torn}) : z = recs'
    BY <1>1
  <2>2. Len(q) <= Len(z) /\ (\A i \in 1..Len(q) : q[i] = z[i]) /\ (Len(q) = Len(z) \/ z[Len(q) + 1] = Torn)
    BY <2>1, <1>1, <1>7, <1>8, <1>9, <1>10
  <2>3. ReadableOf(z) = q
    BY <2>2, <1>8, ReadableUnique
  <2> QED BY <2>1, <2>3
<1>12. ReadableLog' = SubSeq(ReadableLog, 1, m)
  BY <1>2, <1>3, <1>6, <1>11
<1>13. Min({synced', Len(ReadableLog')}) = m
  <2>1. synced' = Len(recs') /\ Len(ReadableLog') = m
    BY <1>2, <1>8, <1>11 DEF Crash
  <2>2. Min({Len(recs'), m}) = IF Len(recs') <= m THEN Len(recs') ELSE m
    BY <1>1, SmallerOf
  <2> QED BY <2>1, <2>2, <1>1, <1>7
<1>14. m \in Min({synced, Len(ReadableLog)})..Len(ReadableLog)
  <2>1. Min({synced, Len(r)}) = IF synced <= Len(r) THEN synced ELSE Len(r)
    BY <1>2, <1>3, SmallerOf
  <2>2. m \in Min({synced, Len(r)})..Len(r)
    BY <2>1, <1>1, <1>2, <1>3, <1>5
  <2> QED BY <2>2, <1>3
<1>15. Waiting' = {}
  <2>1. Range(buffer') = {} /\ \A t \in Threads : Range(batch'[t]) = {}
    BY RangeEmpty DEF Crash
  <2> QED BY <2>1, InWaiting
<1>16. (DOMAIN appended)' = DOMAIN appended
  BY DEF Crash, history
<1>17. Min({synced, Len(ReadableLog)})' = m
  BY <1>13
<1> QED BY <1>12, <1>14, <1>15, <1>16, <1>17 DEF Log!Crash, Waiting

\* flush writes through the handle: a write of the log, of nothing when the
\* handle's file is unlinked.
LEMMA FlushWriteMaps ==
  ASSUME FileInv, NEW t \in Threads, FlushWrite(t) \/ FlushWriteFails(t) \/ FlushNoHandle(t)
  PROVE  Log!Write
<1> USE DEF disk, memory, history
<1>1. /\ batch \in [Threads -> Seq(Change)] /\ pc \in [Threads -> Steps] /\ recs \in Seq(Change \cup {Torn})
  BY DEF FileInv, FileType
<1>2. /\ pc[t] = "write" /\ UNCHANGED <<synced, appended, buffer>>
      /\ \A u \in Threads \ {t} : batch'[u] = batch[u] /\ pc'[u] = pc[u]
      /\ pc'[t] = "sync" \/ batch'[t] = <<>>
  BY <1>1 DEF FlushWrite, FlushWriteFails, FlushNoHandle
<1>3. PICK n, b : Part(batch[t], n, b) /\ recs' = recs \o b
  <2>1. CASE (FlushWrite(t) /\ handle = "log") \/ FlushWriteFails(t)
    BY <2>1, WritePart
  <2>2. CASE (FlushWrite(t) /\ handle # "log") \/ FlushNoHandle(t)
    <3>1. recs' = recs
      BY <2>2 DEF FlushWrite, FlushNoHandle
    <3>2. recs \o <<>> = recs
      BY <1>1, ConcatEmptySeq
    <3>3. Part(batch[t], 0, <<>>)
      BY <1>1, NoPart
    <3> QED BY <3>1, <3>2, <3>3
  <2> QED BY <2>1, <2>2
<1> QED BY <1>2, <1>3, WriteMaps

\* At first the log is empty.
LEMMA FileInitMaps == Init => Log!LogInit
<1> SUFFICES ASSUME Init PROVE Log!LogInit
  OBVIOUS
<1>1. FileInv
  BY InitFileInv
<1>2. recs = <<>> /\ synced = 0 /\ appended = <<>>
  BY DEF Init
<1>3. ReadableLog = <<>>
  <2>1. ReadableOf(<<>>) = <<>>
    BY RangeEmpty DEF ReadableOf
  <2> QED BY <1>2, <2>1, ReadableLogIs
<1>4. Waiting = {}
  <2>1. Range(buffer) = {} /\ \A t \in Threads : Range(batch[t]) = {}
    BY RangeEmpty DEF Init
  <2> QED BY <2>1, InWaiting
<1>5. Min({synced, Len(ReadableLog)}) = 0
  <2>1. Min({0, 0}) = 0
    BY SmallerOf
  <2> QED BY <2>1, <1>2, <1>3
<1>6. DOMAIN appended = {}
  BY <1>2
<1> QED BY <1>3, <1>4, <1>5, <1>6 DEF Log!LogInit, Waiting

\* Every step of the store is a step of the log, or none.
LEMMA FileStepMaps == FileInv /\ [Next]_vars => [Log!LogNext]_(Log!logVars)
<1> SUFFICES ASSUME FileInv, [Next]_vars PROVE Log!LogNext \/ UNCHANGED Log!logVars
  OBVIOUS
<1>1. CASE UNCHANGED vars
  <2>1. UNCHANGED <<recs, synced, appended, buffer, pc, batch>>
    BY <1>1 DEF vars, disk, memory, control, history
  <2>2. Waiting' = Waiting
    BY <2>1 DEF Waiting
  <2> QED BY <2>1, <2>2, StutterMaps
<1>2. CASE Open
  BY <1>2, OpenMaps
<1>3. CASE Crash
  BY <1>3, CrashMaps DEF Log!LogNext
<1>4. ASSUME NEW t \in Threads, AppendOffset(t) PROVE Log!LogNext
  BY <1>4, AppendOffsetMaps DEF Log!LogNext
<1>5. ASSUME NEW t \in Threads, AppendBuffer(t) PROVE UNCHANGED Log!logVars
  BY <1>5, AppendBufferMaps
<1>6. ASSUME NEW t \in Threads, FlushTake(t) PROVE UNCHANGED Log!logVars
  BY <1>6, FlushTakeMaps
<1>7. ASSUME NEW t \in Threads, FlushWrite(t) \/ FlushWriteFails(t) \/ FlushNoHandle(t) PROVE Log!LogNext
  BY <1>7, FlushWriteMaps DEF Log!LogNext
<1>8. ASSUME NEW t \in Threads, FlushSync(t) PROVE Log!LogNext
  BY <1>8, FlushSyncMaps DEF Log!LogNext
<1>9. ASSUME NEW t \in Threads, CompactReplace(t) PROVE Log!LogNext
  BY <1>9, CompactReplaceMaps DEF Log!LogNext
<1>10. ASSUME NEW t \in Threads,
              \/ FlushStart(t) \/ FlushSyncFails(t) \/ CloseStart(t) \/ CloseRelease(t)
              \/ CompactBegin(t) \/ CompactRename(t) \/ CompactFails(t)
              \/ CompactClearIndex(t) \/ CompactSetTail(t)
       PROVE  UNCHANGED Log!logVars
  BY <1>10, RestingMaps
<1> QED BY <1>1, <1>2, <1>3, <1>4, <1>5, <1>6, <1>7, <1>8, <1>9, <1>10 DEF Next

\* The file store implements the abstract log of the trait ChangeStore, with all
\* its threads, failing writes, torn records, crashes, closing and compaction.
THEOREM FileImplementsLog == Spec => FileIsAppendLog
  BY FileInitMaps, FileStepMaps, FileInvariant, PTL DEF Spec, FileIsAppendLog, Log!LogSpec
=============================================================================
