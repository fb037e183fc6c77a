--------------------------- MODULE SessionProofs ---------------------------
(***************************************************************************)
(* Proofs about SyncSession: the serving end against any client, the       *)
(* requesting end against any server, and both ends together, for every    *)
(* capacity of the log, every limit and every set of foreign frames.       *)
(***************************************************************************)
EXTENDS SyncSession, SequenceTheorems, TLAPS

USE ServerAssumption, ClientAssumption, SessionAssumption

(* ------------------------- the inductive invariants ---------------------- *)

SeenType == [known : Seq(Nat), trimmed : Nat, quiet : BOOLEAN]
AnswerType == [req : Frame, reply : Frame, seen : SeenType]

ServerType ==
  /\ offset \in Nat /\ log \in Seq(Nat) /\ pushed \in Seq(Nat) /\ inflight \in Nat \cup {None}
  /\ spc \in {"accept", "read", "isFinal", "record", "push", "write", "finish", "closed", "done", "failed"}
  /\ localOffset \in Nat /\ req \in Frame /\ todo \in Seq(Nat) /\ reply \in Frame
  /\ seen \in SeenType /\ answers \in Seq(AnswerType)
  /\ c2s \in Seq(Frame) /\ coffset \in Nat

\* The counter counts what was pushed and the records between counter and log.
Counted == offset = Len(pushed) + (IF inflight = None THEN 0 ELSE 1)
                                + (IF spc = "push" THEN 1 ELSE 0)

\* `l` is the newest part of the history `hist` that the capacity allows.
LogIs(l, hist) ==
  /\ Len(l) = IF Len(hist) > MaxChanges THEN MaxChanges ELSE Len(hist)
  /\ \A i \in 1..Len(l) : l[i] = hist[Len(hist) - Len(l) + i]

\* What the log was is the beginning of what it has become.
Prefix(known) ==
  Len(known) <= Len(pushed) /\ \A k \in 1..Len(known) : known[k] = pushed[k]

\* The first n changes of the batch cs are in the history, in their order.
Recorded(n, cs, hist) ==
  \E at \in [1..n -> 1..Len(hist)] :
    \A i \in 1..n : hist[at[i]] = cs[i] /\ (i > 1 => at[i - 1] < at[i])

\* While a Response is recorded, what is left of it is the end of its batch, and
\* what is not left is in the history.
Recording ==
  spc \in {"record", "push"} =>
    /\ req.type = "Response" /\ Len(todo) <= Len(req.changes)
    /\ \A i \in 1..Len(todo) : todo[i] = req.changes[Len(req.changes) - Len(todo) + i]
    /\ Recorded(Len(req.changes) - Len(todo), req.changes, pushed)
    /\ spc = "push" => todo # <<>>

\* The batch cs for offset o holds all that was known from o on ...
HoldsAll(o, cs, known) ==
  \A k \in 1..Len(known) : (k > o /\ k > Len(known) - MaxChanges) => known[k] \in Range(cs)
\* ... if the counter, read at any later time, is not ahead of it.
Final(o, limit, cs, known, current) ==
  (cs = <<>> \/ current <= o + Len(cs)) /\ limit # 0 => HoldsAll(o, cs, known)

\* Whoever goes on from the end of the batch misses nothing.
Resume(o, cs, s) ==
  s.quiet => \A k \in 1..(o + Len(cs)) :
               (k > o /\ k > s.trimmed) => k <= Len(s.known) /\ s.known[k] \in Range(cs)

\* Between the gathering of a batch and the second look at the counter.
Gathering ==
  spc = "isFinal" =>
    /\ req.type = "Request" /\ reply.type = "Response"
    /\ reply.offset = req.offset + Len(reply.changes)
    /\ Final(req.offset, req.limit, reply.changes, seen.known, offset)
    /\ Resume(req.offset, reply.changes, seen)
    /\ Prefix(seen.known)

RequestAnswered(a) ==
  a.req.type = "Request" =>
    /\ a.reply.type = "Response"
    /\ a.reply.offset = a.req.offset + Len(a.reply.changes)
    /\ a.reply.is_final /\ a.req.limit # 0 => HoldsAll(a.req.offset, a.reply.changes, a.seen.known)
    /\ Resume(a.req.offset, a.reply.changes, a.seen)
    /\ Prefix(a.seen.known)
ResponseAnswered(a) ==
  a.req.type = "Response" =>
    /\ a.reply = Ack(a.req.offset)
    /\ Recorded(Len(a.req.changes), a.req.changes, a.seen.known)
Answered == \A i \in DOMAIN answers : RequestAnswered(answers[i]) /\ ResponseAnswered(answers[i])

ServerInv ==
  ServerType /\ Counted /\ LogIs(log, pushed) /\ Recording /\ Gathering /\ Answered

\* The requesting end: it takes the session for ended only if the server ended it
\* or the connection is down.
ClientInv ==
  /\ ours \subseteq {"client", "server"}
  /\ "client" \notin ours => cstate = "Unknown"
  /\ conn = "none" => cpc \in {"connect", "failed"}
  /\ cpc = "connect" => ours # {"client", "server"} \/ conn = "none"
  /\ cpc = "end" => ended \/ conn = "down"
  /\ cstate = "Synchronized" =>
       ended /\ cpc = "done" /\ \E i \in 1..Len(c2s) : c2s[i] = EndMarker

\* The repository's two ends together: one request, one answer to it, and nobody
\* ends the session while the connection lives.
Exchange ==
  /\ cpc \in {"connect", "open", "request"} =>
       /\ c2s = <<>> /\ spc \in {"accept", "failed"} /\ answers = <<>>
  /\ c2s # <<>> => /\ Len(c2s) = 1 /\ c2s[1].type = "Request"
                   /\ spc \in {"accept", "read", "finish", "closed", "done", "failed"}
                   /\ answers = <<>>
  /\ spc \notin {"record", "push"}
  /\ spc \in {"accept", "isFinal"} => answers = <<>>
  /\ spc = "write" => /\ answers # <<>> /\ reply = answers[1].reply
                      /\ s2c = <<>>
  /\ answers = <<>> => s2c = <<>>
  /\ answers # <<>> => /\ Len(answers) = 1 /\ answers[1].req.type = "Request"
                       /\ answers[1].reply.type = "Response"
  /\ s2c # <<>> => s2c = <<answers[1].reply>>
  /\ spc \in {"finish", "closed", "done"} => conn = "down"
  /\ cpc = "end" => conn = "down"
  /\ ~ended /\ cstate # "Synchronized" /\ cpc # "done"
OneExchange == ours = {"client", "server"} => Exchange

(* ------------------------- frames and the log's operators ---------------- *)

\* A decoded frame has the fields of its kind (SyncMessage, src/change.rs).
LEMMA FrameFields ==
  ASSUME NEW m \in Frame
  PROVE  /\ m.type = "Request" => m.offset \in Nat /\ m.limit \in Nat \cup {NoLimit}
         /\ m.type = "Response" =>
              m.offset \in Nat /\ m.is_final \in BOOLEAN /\ m.changes \in Seq(Nat)
         /\ m.type = "Ack" => m.offset \in Nat
  BY DEF Frame

\* The server's replies are frames.
LEMMA ReplyFrames ==
  ASSUME NEW o \in Nat, NEW b \in BOOLEAN, NEW cs \in Seq(Nat)
  PROVE  /\ Response(o, b, cs) \in Frame /\ Ack(o) \in Frame /\ Ping \in Frame
         /\ Pong \in Frame /\ Fin \in Frame /\ EndMarker \in Frame
  BY DEF Frame, Response, Ack, Ping, Pong, Fin, EndMarker

\* record_change keeps the log the newest part of its history: push_back, and
\* pop_front when the capacity is exceeded (src/sync.rs).
LEMMA PushNewest ==
  ASSUME NEW l \in Seq(Nat), NEW hist \in Seq(Nat), NEW c \in Nat, LogIs(l, hist)
  PROVE  /\ PushBounded(l, c, MaxChanges) \in Seq(Nat)
         /\ LogIs(PushBounded(l, c, MaxChanges), Append(hist, c))
<1> DEFINE grown == Append(l, c)
           longer == Append(hist, c)
<1>1. /\ grown \in Seq(Nat) /\ grown # <<>> /\ Len(grown) = Len(l) + 1
      /\ \A i \in 1..Len(l) : grown[i] = l[i]
      /\ grown[Len(l) + 1] = c
  BY AppendProperties
<1>2. /\ longer \in Seq(Nat) /\ Len(longer) = Len(hist) + 1
      /\ \A i \in 1..Len(hist) : longer[i] = hist[i]
      /\ longer[Len(hist) + 1] = c
  BY AppendProperties
<1>3. Len(l) \in Nat /\ Len(hist) \in Nat /\ Len(l) <= Len(hist)
  BY LenProperties DEF LogIs
<1> HIDE DEF grown, longer
<1>4. \A i \in 1..Len(grown) : grown[i] = longer[Len(longer) - Len(grown) + i]
  <2> TAKE i \in 1..Len(grown)
  <2>1. CASE i = Len(l) + 1
    BY <2>1, <1>1, <1>2, <1>3
  <2>2. CASE i \in 1..Len(l)
    <3>1. Len(longer) - Len(grown) + i = Len(hist) - Len(l) + i
      BY <1>1, <1>2, <1>3
    <3>2. Len(hist) - Len(l) + i \in 1..Len(hist)
      BY <2>2, <1>3
    <3> QED BY <3>1, <3>2, <2>2, <1>1, <1>2 DEF LogIs
  <2> QED BY <2>1, <2>2, <1>1, <1>3
<1>5. CASE Len(grown) > MaxChanges
  <2>1. PushBounded(l, c, MaxChanges) = Tail(grown)
    BY <1>5 DEF PushBounded, grown
  <2>2. /\ Tail(grown) \in Seq(Nat) /\ Len(Tail(grown)) = Len(l)
        /\ \A i \in 1..Len(l) : Tail(grown)[i] = grown[i + 1]
    BY <1>1, <1>3, HeadTailProperties
  <2>3. Len(l) = MaxChanges
    BY <1>5, <1>1, <1>3 DEF LogIs
  <2>4. \A i \in 1..Len(l) : grown[i + 1] = longer[Len(longer) - Len(l) + i]
    <3> TAKE i \in 1..Len(l)
    <3>1. i + 1 \in 1..Len(grown)
      BY <1>1, <1>3
    <3>2. Len(longer) - Len(grown) + (i + 1) = Len(longer) - Len(l) + i
      BY <1>1, <1>2, <1>3
    <3> QED BY <3>1, <3>2, <1>4
  <2>5. Len(longer) > MaxChanges
    BY <2>3, <1>2, <1>3
  <2> QED BY <2>1, <2>2, <2>3, <2>4, <2>5 DEF LogIs, longer
<1>6. CASE ~(Len(grown) > MaxChanges)
  <2>1. PushBounded(l, c, MaxChanges) = grown
    BY <1>6 DEF PushBounded, grown
  <2>2. Len(hist) = Len(l)
    BY <1>6, <1>1, <1>3 DEF LogIs
  <2> QED BY <2>1, <2>2, <1>1, <1>2, <1>3, <1>4, <1>6 DEF LogIs, longer
<1> QED BY <1>5, <1>6

\* The batch process_message gathers for a Request, and how many changes
\* get_changes_since would give without a limit.
Batch(l, current, o, limit) ==
  LET all == GetChangesSince(l, current, o)
  IN  IF limit = NoLimit THEN all ELSE Truncate(all, limit)
Wanted(l, current, o) ==
  IF o >= current THEN 0 ELSE IF Len(l) > current - o THEN current - o ELSE Len(l)

\* get_changes_since(o) answers with the newest changes of the log.
LEMMA SinceIsSuffix ==
  ASSUME NEW l \in Seq(Nat), NEW current \in Nat, NEW o \in Nat
  PROVE  /\ GetChangesSince(l, current, o) \in Seq(Nat)
         /\ Len(GetChangesSince(l, current, o)) = Wanted(l, current, o)
         /\ \A i \in 1..Wanted(l, current, o) :
              GetChangesSince(l, current, o)[i] = l[Len(l) - Wanted(l, current, o) + i]
<1>1. Len(l) \in Nat /\ \A i \in 1..Len(l) : l[i] \in Nat
  BY LenProperties, ElementOfSeq
<1>2. CASE o >= current
  <2>1. GetChangesSince(l, current, o) = <<>> /\ Wanted(l, current, o) = 0
    BY <1>2 DEF GetChangesSince, Wanted
  <2> QED BY <2>1
<1>3. CASE ~(o >= current)
  <2> DEFINE skip == SkipCount(Len(l), current - o)
             w == Wanted(l, current, o)
             from == skip + 1
             n == Len(l)
             answer == SubSeq(l, from, n)
  <2>1. skip \in Nat /\ skip = Len(l) - w /\ w \in Nat /\ w <= Len(l)
    BY <1>1, <1>3 DEF SkipCount, Wanted
  <2>2. GetChangesSince(l, current, o) = answer
    BY <1>3, Zenon DEF GetChangesSince
  <2> HIDE DEF skip, w
  <2>3. from \in Int /\ n \in Int /\ \A i \in from..n : l[i] \in Nat
    BY <2>1, <1>1
  <2>4. from = Len(l) - w + 1 /\ n = Len(l)
    BY <2>1, <1>1
  <2> HIDE DEF from, n
  <2>5. /\ answer \in Seq(Nat)
        /\ Len(answer) = IF from <= n THEN n - from + 1 ELSE 0
        /\ \A i \in 1..(n - from + 1) : answer[i] = l[from + i - 1]
    BY <2>3, SubSeqProperties
  <2> HIDE DEF answer
  <2>6. Len(answer) = w /\ n - from + 1 = w
    BY <2>1, <2>4, <2>5, <1>1
  <2>7. \A i \in 1..w : answer[i] = l[Len(l) - w + i]
    <3> TAKE i \in 1..w
    <3>1. i \in 1..(n - from + 1) /\ from + i - 1 = Len(l) - w + i
      BY <2>1, <2>4, <2>6, <1>1
    <3> QED BY <3>1, <2>5
  <2> QED BY <2>2, <2>5, <2>6, <2>7 DEF w
<1> QED BY <1>2, <1>3

\* The batch is a run of the history that ends where the log ends, unless the
\* limit cut it short.
LEMMA BatchIsRun ==
  ASSUME NEW l \in Seq(Nat), NEW hist \in Seq(Nat), LogIs(l, hist),
         NEW current \in Nat, NEW o \in Nat, NEW limit \in Nat \cup {NoLimit}
  PROVE  LET cs == Batch(l, current, o, limit)
             w == Wanted(l, current, o)
         IN  /\ cs \in Seq(Nat) /\ Len(cs) <= w /\ w \in Nat /\ w <= Len(l)
             /\ \A i \in 1..Len(cs) : cs[i] = hist[Len(hist) - w + i]
             /\ Len(cs) < w => Len(cs) = limit
<1> DEFINE cs == Batch(l, current, o, limit)
           w == Wanted(l, current, o)
           all == GetChangesSince(l, current, o)
<1>1. Len(l) \in Nat /\ Len(hist) \in Nat /\ Len(l) <= Len(hist)
  BY LenProperties DEF LogIs
<1>2. w \in Nat /\ w <= Len(l)
  BY <1>1 DEF Wanted
<1>3. all \in Seq(Nat) /\ Len(all) = w /\ \A i \in 1..w : all[i] = l[Len(l) - w + i]
  BY SinceIsSuffix
<1>4. cs = IF limit = NoLimit THEN all ELSE Truncate(all, limit)
  BY DEF Batch
<1> HIDE DEF cs, w, all
<1>5. \A i \in 1..w : all[i] = hist[Len(hist) - w + i]
  <2> TAKE i \in 1..w
  <2>1. Len(l) - w + i \in 1..Len(l) /\ Len(hist) - Len(l) + (Len(l) - w + i) = Len(hist) - w + i
    BY <1>1, <1>2
  <2> QED BY <2>1, <1>3 DEF LogIs
<1>6. CASE limit = NoLimit \/ w <= limit
  <2>1. cs = all
    BY <1>4, <1>6, <1>3, <1>2 DEF Truncate
  <2> QED BY <2>1, <1>2, <1>3, <1>5 DEF cs, w
<1>7. CASE limit # NoLimit /\ ~(w <= limit)
  <2>1. limit \in Nat /\ limit < w
    BY <1>7, <1>2
  <2>2. cs = SubSeq(all, 1, limit)
    BY <2>1, <1>4, <1>7, <1>3 DEF Truncate
  <2>3. \A i \in 1..limit : all[i] \in Nat
    BY <2>1, <1>2, <1>3, LenProperties
  <2>4. cs \in Seq(Nat) /\ Len(cs) = limit /\ \A i \in 1..limit : cs[i] = all[i]
    <3>1. /\ SubSeq(all, 1, limit) \in Seq(Nat)
          /\ Len(SubSeq(all, 1, limit)) = IF 1 <= limit THEN limit - 1 + 1 ELSE 0
          /\ \A i \in 1..(limit - 1 + 1) : SubSeq(all, 1, limit)[i] = all[1 + i - 1]
      BY <2>1, <2>3, SubSeqProperties
    <3> QED BY <3>1, <2>1, <2>2
  <2>5. \A i \in 1..Len(cs) : cs[i] = hist[Len(hist) - w + i]
    <3> TAKE i \in 1..Len(cs)
    <3>1. i \in 1..limit /\ i \in 1..w
      BY <2>1, <2>4, <1>2
    <3> QED BY <3>1, <2>4, <1>5
  <2> QED BY <2>1, <2>4, <2>5, <1>2 DEF cs, w
<1> QED BY <1>6, <1>7

\* process_message, first look at the counter: the batch is final, or can be
\* resumed from, as the properties say.
LEMMA BatchIsSound ==
  ASSUME NEW l \in Seq(Nat), NEW hist \in Seq(Nat), LogIs(l, hist),
         NEW current \in Nat, Len(hist) <= current,
         NEW o \in Nat, NEW limit \in Nat \cup {NoLimit}
  PROVE  LET cs == Batch(l, current, o, limit)
         IN  /\ Final(o, limit, cs, hist, current)
             /\ current = Len(hist) =>
                  \A k \in 1..(o + Len(cs)) : (k > o /\ k > Len(hist) - Len(l))
                     => k <= Len(hist) /\ hist[k] \in Range(cs)
<1> DEFINE cs == Batch(l, current, o, limit)
           w == Wanted(l, current, o)
<1>1. Len(l) \in Nat /\ Len(hist) \in Nat /\ Len(l) <= Len(hist)
  BY LenProperties DEF LogIs
<1>2. /\ cs \in Seq(Nat) /\ Len(cs) <= w /\ w \in Nat /\ w <= Len(l)
      /\ \A i \in 1..Len(cs) : cs[i] = hist[Len(hist) - w + i]
      /\ Len(cs) < w => Len(cs) = limit
  BY BatchIsRun
<1>3. w = IF o >= current THEN 0 ELSE IF Len(l) > current - o THEN current - o ELSE Len(l)
  BY DEF Wanted
<1>4. Len(cs) \in Nat /\ DOMAIN cs = 1..Len(cs) /\ (cs = <<>> => Len(cs) = 0)
  BY <1>2, LenProperties
<1> HIDE DEF cs, w
<1>8. PICK n \in Nat : n = Len(cs)
  BY <1>4
<1>9. n <= w /\ w \in Nat /\ w <= Len(l)
  BY <1>2, <1>8
<1>10. o < current => w <= current - o /\ (w = current - o \/ w = Len(l))
  BY <1>1, <1>3
<1>5. ASSUME NEW k \in Nat, k - (Len(hist) - w) \in 1..Len(cs)
      PROVE  hist[k] \in Range(cs)
  <2>1. PICK i \in 1..Len(cs) : i = k - (Len(hist) - w)
    BY <1>5
  <2>2. Len(hist) - w + i = k
    BY <2>1, <1>1, <1>2
  <2>3. cs[i] = hist[k]
    BY <2>2, <1>2
  <2> QED BY <2>3, <1>4 DEF Range
<1>6. Final(o, limit, cs, hist, current)
  <2> SUFFICES ASSUME cs = <<>> \/ current <= o + Len(cs), limit # 0,
                      NEW k \in 1..Len(hist), k > o, k > Len(hist) - MaxChanges
               PROVE  hist[k] \in Range(cs)
    BY DEF Final, HoldsAll
  <2>1. k > Len(hist) - Len(l)
    BY <1>1 DEF LogIs
  <2>2. o < current
    BY <1>1
  <2>3. Len(cs) = w /\ w = current - o
    <3>1. CASE cs = <<>>
      <4>1. Len(cs) = 0 /\ w = 0
        BY <3>1, <1>2, <1>4
      <4> QED BY <4>1, <2>1, <2>2, <1>1, <1>3
    <3>2. CASE current <= o + Len(cs)
      <4>1. current <= o + n /\ w <= current - o
        BY <3>2, <2>2, <1>8, <1>10
      <4> QED BY <4>1, <1>8, <1>9
    <3> QED BY <3>1, <3>2
  <2>4. k - (Len(hist) - w) \in 1..Len(cs)
    BY <2>2, <2>3, <1>1, <1>2, <1>4
  <2> QED BY <2>4, <1>5
<1>7. ASSUME current = Len(hist), NEW k \in 1..(o + Len(cs)), k > o, k > Len(hist) - Len(l)
      PROVE  k <= Len(hist) /\ hist[k] \in Range(cs)
  <2>1. k \in Nat /\ o < current
    BY <1>7, <1>3, <1>8, <1>9
  <2>2. k <= Len(hist) /\ k - (Len(hist) - w) \in 1..Len(cs)
    <3>1. k <= o + n /\ w <= Len(hist) - o /\ (w = Len(hist) - o \/ w = Len(l))
      BY <1>7, <2>1, <1>8, <1>10
    <3>2. k <= Len(hist) /\ k - (Len(hist) - w) \in 1..n
      BY <3>1, <1>7, <2>1, <1>1, <1>9
    <3> QED BY <3>2, <1>8
  <2> QED BY <2>1, <2>2, <1>5
<1> QED BY <1>6, <1>7 DEF cs

(* ------------------------- the serving end, step by step ----------------- *)

\* What was in the history stays in it when a change is pushed.
LEMMA PrefixGrows ==
  ASSUME pushed \in Seq(Nat), NEW c \in Nat, pushed' = Append(pushed, c),
         NEW known \in Seq(Nat), Prefix(known)
  PROVE  Prefix(known)'
<1>1. /\ Len(pushed') = Len(pushed) + 1 /\ Len(pushed) \in Nat /\ Len(known) \in Nat
      /\ \A i \in 1..Len(pushed) : pushed'[i] = pushed[i]
  BY AppendProperties, LenProperties
<1>2. Len(known) <= Len(pushed')
  BY <1>1 DEF Prefix
<1>3. \A k \in 1..Len(known) : known[k] = pushed'[k]
  BY <1>1 DEF Prefix
<1> QED BY <1>2, <1>3 DEF Prefix

\* So do the places of the recorded changes of a batch.
LEMMA RecordedGrows ==
  ASSUME NEW hist \in Seq(Nat), NEW c \in Nat, NEW n \in Nat, NEW cs, Recorded(n, cs, hist)
  PROVE  Recorded(n, cs, Append(hist, c))
<1> DEFINE longer == Append(hist, c)
<1>1. /\ Len(longer) = Len(hist) + 1 /\ Len(hist) \in Nat
      /\ \A i \in 1..Len(hist) : longer[i] = hist[i]
  BY AppendProperties, LenProperties
<1> HIDE DEF longer
<1>2. PICK at \in [1..n -> 1..Len(hist)] :
        \A i \in 1..n : hist[at[i]] = cs[i] /\ (i > 1 => at[i - 1] < at[i])
  BY DEF Recorded
<1>3. at \in [1..n -> 1..Len(longer)]
  BY <1>1
<1>4. \A i \in 1..n : longer[at[i]] = cs[i] /\ (i > 1 => at[i - 1] < at[i])
  BY <1>1, <1>2
<1> QED BY <1>3, <1>4 DEF Recorded, longer

\* The change of the batch that is pushed next gets the next place.
LEMMA RecordedNext ==
  ASSUME NEW hist \in Seq(Nat), NEW c \in Nat, NEW n \in Nat, NEW cs,
         Recorded(n, cs, hist), cs[n + 1] = c
  PROVE  Recorded(n + 1, cs, Append(hist, c))
<1> DEFINE longer == Append(hist, c)
           last == Len(hist) + 1
<1>1. /\ Len(longer) = last /\ Len(hist) \in Nat /\ longer[last] = c
      /\ \A i \in 1..Len(hist) : longer[i] = hist[i]
  BY AppendProperties, LenProperties
<1>2. PICK at \in [1..n -> 1..Len(hist)] :
        \A i \in 1..n : hist[at[i]] = cs[i] /\ (i > 1 => at[i - 1] < at[i])
  BY DEF Recorded
<1> DEFINE at2 == [i \in 1..(n + 1) |-> IF i = n + 1 THEN last ELSE at[i]]
<1>3. last \in Nat /\ at2 \in [1..(n + 1) -> 1..last]
  BY <1>1
<1>4. \A i \in 1..(n + 1) : i = n + 1 \/ i \in 1..n
  OBVIOUS
<1>5. at2[n + 1] = last /\ \A i \in 1..n : at2[i] = at[i] /\ at[i] \in 1..Len(hist)
  OBVIOUS
<1> HIDE DEF at2, longer, last
<1>6. \A i \in 1..(n + 1) : longer[at2[i]] = cs[i]
  <2> TAKE i \in 1..(n + 1)
  <2>1. CASE i = n + 1
    BY <2>1, <1>1, <1>5
  <2>2. CASE i \in 1..n
    BY <2>2, <1>1, <1>2, <1>5
  <2> QED BY <2>1, <2>2, <1>4
<1>7. \A i \in 1..(n + 1) : i > 1 => at2[i - 1] < at2[i]
  <2> SUFFICES ASSUME NEW i \in 1..(n + 1), i > 1 PROVE at2[i - 1] < at2[i]
    OBVIOUS
  <2>1. i - 1 \in 1..n /\ at2[i - 1] = at[i - 1] /\ at[i - 1] \in 1..Len(hist)
    BY <1>5
  <2>2. CASE i = n + 1
    <3>1. at2[i] = last
      BY <2>2, <1>5
    <3>2. at2[i - 1] < last
      BY <2>1, <1>1 DEF last
    <3> QED BY <3>1, <3>2
  <2>3. CASE i \in 1..n
    BY <2>3, <2>1, <1>2, <1>5
  <2> QED BY <2>2, <2>3, <1>4
<1> QED BY <1>1, <1>3, <1>6, <1>7 DEF Recorded, longer

\* Nothing of an empty batch needs recording.
LEMMA RecordedNone ==
  ASSUME NEW hist, NEW cs
  PROVE  Recorded(0, cs, hist)
<1>1. [i \in 1..0 |-> 1] \in [1..0 -> 1..Len(hist)]
  OBVIOUS
<1>2. \A i \in 1..0 : FALSE
  OBVIOUS
<1> QED BY <1>1, <1>2 DEF Recorded

\* What was true of the answers given so far stays true of them.
LEMMA AnswersKept ==
  ASSUME ServerType, Answered, NEW c \in Nat,
         pushed' = pushed \/ pushed' = Append(pushed, c), answers' = answers
  PROVE  Answered'
<1> SUFFICES ASSUME NEW i \in DOMAIN answers
             PROVE  RequestAnswered(answers[i])' /\ ResponseAnswered(answers[i])'
  BY DEF Answered
<1>1. PICK a \in AnswerType : a = answers[i]
  BY LenProperties, ElementOfSeq DEF ServerType
<1>2. a.seen.known \in Seq(Nat)
  BY <1>1 DEF AnswerType, SeenType
<1>3. RequestAnswered(a) /\ ResponseAnswered(a)
  BY <1>1 DEF Answered
<1>4. Prefix(a.seen.known) => Prefix(a.seen.known)'
  <2>1. CASE pushed' = pushed
    BY <2>1 DEF Prefix
  <2>2. CASE pushed' = Append(pushed, c)
    BY <2>2, <1>2, PrefixGrows DEF ServerType
  <2> QED BY <2>1, <2>2
<1>5. RequestAnswered(a)' /\ ResponseAnswered(a)'
  BY <1>3, <1>4 DEF RequestAnswered, ResponseAnswered
<1>6. answers'[i] = a
  BY <1>1
<1> QED BY <1>5, <1>6

\* A sound answer added to sound answers.
LEMMA AnswerAdded ==
  ASSUME ServerType, Answered, pushed' = pushed, NEW a \in AnswerType,
         RequestAnswered(a), ResponseAnswered(a), answers' = Append(answers, a)
  PROVE  answers' \in Seq(AnswerType) /\ Answered'
<1>1. /\ answers' \in Seq(AnswerType) /\ Len(answers') = Len(answers) + 1 /\ Len(answers) \in Nat
      /\ \A i \in 1..Len(answers) : answers'[i] = answers[i]
      /\ answers'[Len(answers) + 1] = a
  BY AppendProperties, LenProperties DEF ServerType
<1>2. DOMAIN answers = 1..Len(answers) /\ DOMAIN answers' = 1..(Len(answers) + 1)
  BY <1>1, LenProperties DEF ServerType
<1>3. ASSUME NEW i \in DOMAIN answers'
      PROVE  RequestAnswered(answers[i])' /\ ResponseAnswered(answers[i])'
  <2>1. PICK b : b = answers'[i] /\ RequestAnswered(b) /\ ResponseAnswered(b)
    <3>1. CASE i \in 1..Len(answers)
      BY <3>1, <1>1, <1>2 DEF Answered
    <3>2. CASE i = Len(answers) + 1
      BY <3>2, <1>1
    <3> QED BY <3>1, <3>2, <1>1, <1>2
  <2>2. RequestAnswered(b)' /\ ResponseAnswered(b)'
    BY <2>1 DEF RequestAnswered, ResponseAnswered, Prefix
  <2> QED BY <2>1, <2>2
<1>4. Answered'
  BY <1>3 DEF Answered
<1> QED BY <1>1, <1>4

\* A step that leaves the node's log and counter alone and ends in a place where
\* nothing is being gathered or recorded keeps the invariant.
LEMMA QuietStep ==
  ASSUME ServerInv, UNCHANGED managerVars, spc # "push",
         spc' \notin {"record", "push", "isFinal"}, ServerType', Answered'
  PROVE  ServerInv'
<1>1. Counted' /\ LogIs(log, pushed)'
  BY DEF ServerInv, Counted, LogIs, managerVars
<1>2. Recording' /\ Gathering'
  BY DEF Recording, Gathering
<1> QED BY <1>1, <1>2 DEF ServerInv

\* A step of anyone but the server.
LEMMA ElsewhereKeeps ==
  ASSUME ServerInv, UNCHANGED serverVars, c2s' \in Seq(Frame), coffset' \in Nat
  PROVE  ServerInv'
<1> USE DEF serverVars, managerVars, handlerVars
<1>1. ServerType'
  BY DEF ServerInv, ServerType
<1>2. Counted' /\ LogIs(log, pushed)'
  BY DEF ServerInv, Counted, LogIs
<1>3. Recording'
  BY DEF ServerInv, Recording, Recorded
<1>4. Gathering'
  BY DEF ServerInv, Gathering, Prefix
<1>5. Answered'
  BY AnswersKept DEF ServerInv
<1> QED BY <1>1, <1>2, <1>3, <1>4, <1>5 DEF ServerInv

\* What Tail(c2s) leaves is still frames, and the frame read was one.
LEMMA ReadFrame ==
  ASSUME ServerType, c2s # <<>>
  PROVE  Head(c2s) \in Frame /\ Tail(c2s) \in Seq(Frame)
  BY HeadTailProperties DEF ServerType

\* The steps of handle_connection that read or write without answering.
LEMMA PlainStepKeeps ==
  ASSUME ServerInv, UNCHANGED clientVars,
         \/ Accept \/ AcceptFails \/ ReadEnd \/ ReadFails \/ ReadOversized
         \/ WriteReply \/ WriteFails \/ Finish \/ Closed
  PROVE  ServerInv'
<1> USE DEF managerVars, transport, clientVars
<1>1. /\ UNCHANGED <<managerVars, req, todo, reply, seen, answers, coffset>> /\ spc # "push"
      /\ c2s' = c2s \/ (c2s # <<>> /\ c2s' = Tail(c2s))
      /\ localOffset' = localOffset \/ localOffset' = offset
      /\ spc' \in {"read", "failed", "finish", "closed", "done"}
  <2>1. CASE Accept
    BY <2>1 DEF Accept
  <2>2. CASE AcceptFails
    BY <2>2 DEF AcceptFails
  <2>3. CASE ReadEnd
    BY <2>3 DEF ReadEnd
  <2>4. CASE ReadFails
    BY <2>4 DEF ReadFails
  <2>5. CASE ReadOversized
    BY <2>5 DEF ReadOversized
  <2>6. CASE WriteReply
    BY <2>6 DEF WriteReply
  <2>7. CASE WriteFails
    BY <2>7 DEF WriteFails
  <2>8. CASE Finish
    BY <2>8 DEF Finish
  <2>9. CASE Closed
    BY <2>9 DEF Closed
  <2> QED BY <2>1, <2>2, <2>3, <2>4, <2>5, <2>6, <2>7, <2>8, <2>9
<1>2. c2s' \in Seq(Frame)
  BY <1>1, ReadFrame DEF ServerInv, ServerType
<1>3. ServerType'
  BY <1>1, <1>2 DEF ServerInv, ServerType
<1>4. Answered'
  BY <1>1, AnswersKept DEF ServerInv
<1> QED BY <1>1, <1>3, <1>4, QuietStep

\* What the log is can be told in the history.
LEMMA SeenTyped ==
  ASSUME ServerInv
  PROVE  /\ Seen \in SeenType /\ Seen.known = pushed /\ Seen.trimmed = Len(pushed) - Len(log)
         /\ Seen.quiet = (inflight = None)
<1>1. Len(log) \in Nat /\ Len(pushed) \in Nat /\ Len(log) <= Len(pushed)
  BY LenProperties DEF ServerInv, ServerType, LogIs
<1>2. Len(pushed) - Len(log) \in Nat /\ pushed \in Seq(Nat)
  BY <1>1 DEF ServerInv, ServerType
<1> QED BY <1>2 DEF Seen, SeenType

\* Where the counter is: at or ahead of the history, and level with it when the
\* handler reads and no record is in between.
LEMMA CounterAhead ==
  ASSUME ServerInv
  PROVE  /\ offset \in Nat /\ Len(pushed) \in Nat /\ Len(pushed) <= offset
         /\ inflight = None /\ spc = "read" => offset = Len(pushed)
<1>1. offset \in Nat /\ Len(pushed) \in Nat
  BY LenProperties DEF ServerInv, ServerType
<1>2. PICK x \in {0, 1}, y \in {0, 1} :
        /\ x = (IF inflight = None THEN 0 ELSE 1) /\ y = (IF spc = "push" THEN 1 ELSE 0)
        /\ offset = Len(pushed) + x + y
  BY DEF ServerInv, Counted
<1>3. inflight = None /\ spc = "read" => x = 0 /\ y = 0
  BY <1>2
<1>4. Len(pushed) <= offset /\ (x = 0 /\ y = 0 => offset = Len(pushed))
  <2>1. x \in Nat /\ y \in Nat /\ offset = Len(pushed) + x + y
    BY <1>2
  <2> QED BY <1>1, <2>1
<1> QED BY <1>1, <1>3, <1>4

\* process_message on a Request, up to the second look at the counter.
LEMMA ReadRequestKeeps ==
  ASSUME ServerInv, UNCHANGED clientVars, ReadRequest
  PROVE  ServerInv'
<1> USE DEF managerVars
<1>1. PICK m \in Frame : m = Head(c2s) /\ m.type = "Request"
  BY ReadFrame DEF ReadRequest, ServerInv
<1>2. PICK o, limit : o = m.offset /\ limit = m.limit
  OBVIOUS
<1>3. o \in Nat /\ limit \in Nat \cup {NoLimit}
  BY <1>1, <1>2, FrameFields
<1>4. PICK cs : cs = Batch(log, offset, o, limit)
  OBVIOUS
<1>5. /\ reply' = Response(o + Len(cs), FALSE, cs) /\ req' = m /\ c2s' = Tail(c2s)
      /\ seen' = Seen /\ spc' = "isFinal" /\ spc = "read" /\ c2s # <<>>
      /\ UNCHANGED <<offset, log, pushed, inflight, localOffset, todo, answers, coffset>>
  BY <1>1, <1>2, <1>4 DEF ReadRequest, Batch, clientVars
<1>6. /\ log \in Seq(Nat) /\ pushed \in Seq(Nat) /\ LogIs(log, pushed)
      /\ offset \in Nat /\ Len(pushed) <= offset /\ Len(pushed) \in Nat
  BY CounterAhead DEF ServerInv, ServerType
<1>7. cs \in Seq(Nat)
  BY <1>3, <1>4, <1>6, BatchIsRun
<1>8. /\ Final(o, limit, cs, pushed, offset)
      /\ offset = Len(pushed) =>
           \A k \in 1..(o + Len(cs)) : (k > o /\ k > Len(pushed) - Len(log))
             => k <= Len(pushed) /\ pushed[k] \in Range(cs)
  BY <1>3, <1>4, <1>6, BatchIsSound
<1>9. Len(cs) \in Nat /\ o + Len(cs) \in Nat
  BY <1>3, <1>7, LenProperties
<1>10. reply' \in Frame /\ reply'.type = "Response" /\ reply'.offset = o + Len(cs) /\ reply'.changes = cs
  BY <1>5, <1>7, <1>9, ReplyFrames DEF Response
<1>11. /\ seen' \in SeenType /\ seen'.known = pushed /\ seen'.trimmed = Len(pushed) - Len(log)
       /\ seen'.quiet = (inflight = None)
  BY <1>5, SeenTyped
<1>12. ServerType'
  <2>1. c2s' \in Seq(Frame)
    BY <1>5, ReadFrame DEF ServerInv
  <2> QED BY <2>1, <1>5, <1>10, <1>11 DEF ServerInv, ServerType
<1>13. Counted' /\ LogIs(log, pushed)' /\ Recording'
  BY <1>5 DEF ServerInv, Counted, LogIs, Recording
<1>14. Answered'
  BY <1>5, AnswersKept DEF ServerInv
<1>15. Gathering'
  <2>1. Resume(o, cs, seen)'
    <3>1. inflight = None => offset = Len(pushed)
      BY <1>5, CounterAhead
    <3>2. o' = o /\ cs' = cs
      OBVIOUS
    <3>3. seen'.quiet => \A k \in 1..(o + Len(cs)) : (k > o /\ k > seen'.trimmed) => k <= Len(seen'.known) /\ seen'.known[k] \in Range(cs)
      BY <3>1, <1>8, <1>11
    <3> QED BY <3>3 DEF Resume
  <2>2. Prefix(seen.known)'
    BY <1>5, <1>6, <1>11 DEF Prefix
  <2>3. Final(o, limit, cs, seen.known, offset)'
    BY <1>5, <1>8, <1>11
  <2>4. req'.type = "Request" /\ req'.offset = o /\ req'.limit = limit
    BY <1>1, <1>2, <1>5
  <2> QED BY <2>1, <2>2, <2>3, <2>4, <1>10 DEF Gathering
<1> QED BY <1>12, <1>13, <1>14, <1>15 DEF ServerInv

\* is_final reads the counter again and answers.
LEMMA IsFinalKeeps ==
  ASSUME ServerInv, UNCHANGED clientVars, IsFinal
  PROVE  ServerInv'
<1> USE DEF managerVars, transport, clientVars
<1>1. PICK r : r = reply'
  OBVIOUS
<1>2. PICK b \in BOOLEAN : b = (reply.changes = <<>> \/ offset <= reply.offset)
  OBVIOUS
<1>3. /\ reply \in Frame /\ reply.type = "Response" /\ req \in Frame /\ seen \in SeenType
      /\ req.type = "Request" /\ reply.offset = req.offset + Len(reply.changes)
      /\ Final(req.offset, req.limit, reply.changes, seen.known, offset)
      /\ Resume(req.offset, reply.changes, seen)
      /\ Prefix(seen.known)
  BY DEF ServerInv, ServerType, Gathering, IsFinal
<1>4. r = [reply EXCEPT !.is_final = b]
  BY <1>1, <1>2 DEF IsFinal
<1>5. r \in Frame /\ r.type = "Response" /\ r.offset = reply.offset /\ r.changes = reply.changes /\ r.is_final = b
  BY <1>3, <1>4 DEF Frame
<1> DEFINE a == [req |-> req, reply |-> r, seen |-> seen]
<1>6. a \in AnswerType /\ a.req = req /\ a.reply = r /\ a.seen = seen
  BY <1>3, <1>5 DEF AnswerType
<1>7. answers' = Append(answers, a)
  BY <1>1 DEF IsFinal
<1> HIDE DEF a
<1>8. b /\ req.limit # 0 => HoldsAll(req.offset, reply.changes, seen.known)
  BY <1>2, <1>3 DEF Final
<1>9. RequestAnswered(a) /\ ResponseAnswered(a)
  BY <1>3, <1>5, <1>6, <1>8 DEF RequestAnswered, ResponseAnswered
<1>10. answers' \in Seq(AnswerType) /\ Answered'
  BY <1>6, <1>7, <1>9, AnswerAdded DEF ServerInv, IsFinal
<1>11. ServerType'
  BY <1>1, <1>5, <1>10 DEF ServerInv, ServerType, IsFinal
<1> QED BY <1>10, <1>11, QuietStep DEF IsFinal

\* process_message on a Response: nothing of it is recorded yet.
LEMMA ReadResponseKeeps ==
  ASSUME ServerInv, UNCHANGED clientVars, ReadResponse
  PROVE  ServerInv'
<1> USE DEF managerVars
<1>1. PICK m \in Frame : m = Head(c2s) /\ m.type = "Response"
  BY ReadFrame DEF ReadResponse, ServerInv
<1>2. m.changes \in Seq(Nat) /\ Len(m.changes) \in Nat
  BY <1>1, FrameFields, LenProperties
<1>3. /\ req' = m /\ todo' = m.changes /\ c2s' = Tail(c2s) /\ spc' = "record" /\ spc = "read"
      /\ c2s # <<>>
      /\ UNCHANGED <<offset, log, pushed, inflight, localOffset, reply, seen, answers, coffset>>
  BY <1>1 DEF ReadResponse, clientVars
<1>4. ServerType'
  <2>1. c2s' \in Seq(Frame)
    BY <1>3, ReadFrame DEF ServerInv
  <2> QED BY <2>1, <1>2, <1>3 DEF ServerInv, ServerType
<1>5. Counted' /\ LogIs(log, pushed)' /\ Gathering'
  BY <1>3 DEF ServerInv, Counted, LogIs, Gathering
<1>6. Answered'
  BY <1>3, AnswersKept DEF ServerInv
<1>7. Recording'
  <2>1. Recorded(0, m.changes, pushed')
    BY RecordedNone
  <2>2. Len(m.changes) - Len(m.changes) = 0 /\ Len(m.changes) <= Len(m.changes)
    BY <1>2
  <2>3. \A i \in 1..Len(m.changes) : m.changes[i] = m.changes[Len(m.changes) - Len(m.changes) + i]
    BY <1>2
  <2> QED BY <2>1, <2>2, <2>3, <1>1, <1>3 DEF Recording
<1> QED BY <1>4, <1>5, <1>6, <1>7 DEF ServerInv

\* record_change for a change of the batch takes its offset first.
LEMMA RecordFetchAddKeeps ==
  ASSUME ServerInv, UNCHANGED clientVars, RecordFetchAdd
  PROVE  ServerInv'
<1> USE DEF transport, clientVars
<1>1. ServerType'
  BY DEF ServerInv, ServerType, RecordFetchAdd
<1>2. LogIs(log, pushed)' /\ Gathering' /\ Recording'
  BY DEF ServerInv, LogIs, Gathering, Recording, RecordFetchAdd, Recorded
<1>3. Answered'
  BY AnswersKept DEF ServerInv, RecordFetchAdd
<1>4. Counted'
  <2>1. Len(pushed) \in Nat /\ offset \in Nat
    BY CounterAhead
  <2>2. PICK x \in {0, 1} : x = (IF inflight = None THEN 0 ELSE 1)
    OBVIOUS
  <2>3. offset = Len(pushed) + x + 0
    BY <2>2 DEF ServerInv, Counted, RecordFetchAdd
  <2>4. offset' = Len(pushed) + x + 1
    BY <2>1, <2>3 DEF RecordFetchAdd
  <2> QED BY <2>2, <2>4 DEF Counted, RecordFetchAdd
<1> QED BY <1>1, <1>2, <1>3, <1>4 DEF ServerInv

\* ... and pushes it, which gives it the next place in the history.
LEMMA RecordPushKeeps ==
  ASSUME ServerInv, UNCHANGED clientVars, RecordPush
  PROVE  ServerInv'
<1> USE DEF transport, clientVars
<1>1. /\ spc = "push" /\ spc' = "record" /\ todo' = Tail(todo)
      /\ pushed' = Append(pushed, Head(todo))
      /\ log' = PushBounded(log, Head(todo), MaxChanges)
      /\ UNCHANGED <<offset, inflight, localOffset, req, reply, seen, answers, c2s, coffset>>
  BY DEF RecordPush
<1>2. /\ req.type = "Response" /\ Len(todo) <= Len(req.changes) /\ todo # <<>>
      /\ \A i \in 1..Len(todo) : todo[i] = req.changes[Len(req.changes) - Len(todo) + i]
      /\ Recorded(Len(req.changes) - Len(todo), req.changes, pushed)
  BY <1>1 DEF ServerInv, Recording
<1>3. PICK c : c = Head(todo)
  OBVIOUS
<1>4. /\ c \in Nat /\ Tail(todo) \in Seq(Nat) /\ Len(Tail(todo)) = Len(todo) - 1 /\ c = todo[1]
      /\ \A i \in 1..(Len(todo) - 1) : Tail(todo)[i] = todo[i + 1]
  BY <1>2, <1>3, HeadTailProperties DEF ServerInv, ServerType
<1>5. /\ Len(todo) \in Nat \ {0} /\ Len(req.changes) \in Nat /\ log \in Seq(Nat)
      /\ pushed \in Seq(Nat) /\ LogIs(log, pushed)
  BY <1>2, EmptySeq, LenProperties, FrameFields DEF ServerInv, ServerType
<1>6. log' \in Seq(Nat) /\ LogIs(log, pushed)' /\ pushed' \in Seq(Nat) /\ Len(pushed') = Len(pushed) + 1
  BY <1>1, <1>3, <1>4, <1>5, PushNewest, AppendProperties
<1>7. ServerType'
  BY <1>1, <1>4, <1>6 DEF ServerInv, ServerType
<1>8. Answered'
  BY <1>1, <1>3, <1>4, AnswersKept DEF ServerInv
<1>9. Gathering'
  BY <1>1 DEF Gathering
<1>10. Counted'
  <2>1. Len(pushed) \in Nat /\ offset \in Nat
    BY CounterAhead
  <2>2. PICK x \in {0, 1} : x = (IF inflight = None THEN 0 ELSE 1)
    OBVIOUS
  <2>3. offset = Len(pushed) + x + 1
    BY <2>2, <1>1 DEF ServerInv, Counted
  <2>4. offset' = Len(pushed') + x + 0
    BY <2>1, <2>3, <1>1, <1>6
  <2> QED BY <2>2, <2>4, <1>1 DEF Counted
<1>11. Recording'
  <2> DEFINE n == Len(req.changes) - Len(todo)
  <2>1. n \in Nat /\ n + 1 = Len(req.changes) - Len(Tail(todo)) /\ Len(Tail(todo)) <= Len(req.changes)
    BY <1>2, <1>4, <1>5
  <2>2. req.changes[n + 1] = c
    BY <1>2, <1>4, <1>5
  <2>3. Recorded(n + 1, req.changes, Append(pushed, c))
    <3> HIDE DEF n
    <3>1. Recorded(n, req.changes, pushed)
      BY <1>2 DEF n
    <3> QED BY <2>1, <2>2, <3>1, <1>4, <1>5, RecordedNext
  <2>4. \A i \in 1..Len(Tail(todo)) : Tail(todo)[i] = req.changes[Len(req.changes) - Len(Tail(todo)) + i]
    <3> TAKE i \in 1..Len(Tail(todo))
    <3>1. /\ i \in 1..(Len(todo) - 1) /\ i + 1 \in 1..Len(todo)
          /\ Len(req.changes) - Len(todo) + (i + 1) = Len(req.changes) - Len(Tail(todo)) + i
      <4>1. Len(Tail(todo)) = Len(todo) - 1 /\ Len(todo) \in Nat \ {0} /\ Len(req.changes) \in Nat
        BY <1>4, <1>5
      <4>2. PICK p, q, r : p = Len(Tail(todo)) /\ q = Len(todo) /\ r = Len(req.changes)
        OBVIOUS
      <4>3. i \in 1..p /\ p = q - 1 /\ q \in Nat /\ r \in Nat
        BY <4>1, <4>2
      <4>4. i \in 1..(q - 1) /\ i + 1 \in 1..q /\ r - q + (i + 1) = r - p + i
        BY <4>3
      <4> QED BY <4>2, <4>4
    <3> QED BY <3>1, <1>2, <1>4
  <2>5. Recorded(Len(req'.changes) - Len(todo'), req'.changes, pushed')
    BY <2>1, <2>3, <1>1, <1>3
  <2> HIDE DEF n
  <2> QED BY <2>1, <2>4, <2>5, <1>1, <1>2 DEF Recording
<1> QED BY <1>6, <1>7, <1>8, <1>9, <1>10, <1>11 DEF ServerInv

\* When all of the batch is recorded, process_message acknowledges it.
LEMMA RecordDoneKeeps ==
  ASSUME ServerInv, UNCHANGED clientVars, RecordDone
  PROVE  ServerInv'
<1> USE DEF managerVars, transport, clientVars
<1>1. /\ spc = "record" /\ todo = <<>> /\ spc' = "write" /\ reply' = Ack(req.offset)
      /\ answers' = Append(answers, [req |-> req, reply |-> Ack(req.offset), seen |-> Seen])
      /\ UNCHANGED <<offset, log, pushed, inflight, localOffset, req, todo, seen, c2s, coffset>>
  BY DEF RecordDone, Answer
<1>2. /\ req \in Frame /\ req.type = "Response"
      /\ Recorded(Len(req.changes) - Len(todo), req.changes, pushed)
  BY <1>1 DEF ServerInv, ServerType, Recording
<1>3. req.offset \in Nat /\ req.changes \in Seq(Nat) /\ Len(req.changes) \in Nat /\ Ack(req.offset) \in Frame
  BY <1>2, FrameFields, LenProperties, ReplyFrames
<1>4. Len(req.changes) - Len(todo) = Len(req.changes)
  BY <1>1, <1>3
<1> DEFINE a == [req |-> req, reply |-> Ack(req.offset), seen |-> Seen]
<1>5. a \in AnswerType /\ a.req = req /\ a.reply = Ack(req.offset) /\ a.seen.known = pushed
  BY <1>2, <1>3, SeenTyped DEF AnswerType
<1> HIDE DEF a
<1>6. RequestAnswered(a) /\ ResponseAnswered(a)
  BY <1>2, <1>4, <1>5 DEF RequestAnswered, ResponseAnswered
<1>7. answers' \in Seq(AnswerType) /\ Answered'
  BY <1>1, <1>5, <1>6, AnswerAdded DEF ServerInv, a
<1>8. ServerType'
  BY <1>1, <1>3, <1>7 DEF ServerInv, ServerType
<1> QED BY <1>1, <1>7, <1>8, QuietStep

\* process_message on an Ack, a Ping or a Pong.
LEMMA ReadOtherKeeps ==
  ASSUME ServerInv, UNCHANGED clientVars, ReadOther
  PROVE  ServerInv'
<1> USE DEF managerVars, transport, clientVars
<1>1. PICK m \in Frame : m = Head(c2s) /\ m.type \in {"Ack", "Ping", "Pong"}
  BY ReadFrame DEF ReadOther, ServerInv
<1>2. localOffset \in Nat
  BY DEF ServerInv, ServerType
<1>3. PICK r \in Frame : Answer(m, r)
  <2>1. Ack(localOffset) \in Frame /\ Ping \in Frame /\ Pong \in Frame
    BY <1>2 DEF Frame, Ack, Ping, Pong
  <2>2. Answer(m, Ack(localOffset)) \/ Answer(m, Pong) \/ Answer(m, Ping)
    BY <1>1 DEF ReadOther
  <2> QED BY <2>1, <2>2
<1> DEFINE a == [req |-> m, reply |-> r, seen |-> Seen]
<1>4. a \in AnswerType /\ a.req = m
  BY SeenTyped DEF AnswerType
<1>5. answers' = Append(answers, a) /\ reply' = r /\ spc' = "write"
  BY <1>3 DEF Answer
<1> HIDE DEF a
<1>6. RequestAnswered(a) /\ ResponseAnswered(a)
  BY <1>1, <1>4 DEF RequestAnswered, ResponseAnswered
<1>7. /\ spc = "read" /\ c2s # <<>> /\ req' = m /\ c2s' = Tail(c2s)
      /\ UNCHANGED <<offset, log, pushed, inflight, localOffset, todo, seen, coffset>>
  BY <1>1 DEF ReadOther
<1>8. answers' \in Seq(AnswerType) /\ Answered'
  BY <1>4, <1>5, <1>6, <1>7, AnswerAdded DEF ServerInv
<1>9. c2s' \in Seq(Frame)
  BY <1>7, ReadFrame DEF ServerInv
<1>10. ServerType'
  BY <1>5, <1>7, <1>8, <1>9 DEF ServerInv, ServerType
<1> QED BY <1>5, <1>7, <1>8, <1>10, QuietStep

\* The node's own recorder takes an offset: the counter moves away from the log.
LEMMA LocalFetchAddKeeps ==
  ASSUME ServerInv, UNCHANGED clientVars, LocalFetchAdd
  PROVE  ServerInv'
<1> USE DEF transport, clientVars, handlerVars
<1>1. /\ inflight = None /\ inflight' = offset /\ offset' = offset + 1
      /\ UNCHANGED <<log, pushed, spc, localOffset, req, todo, reply, seen, answers, c2s, coffset>>
  BY DEF LocalFetchAdd
<1>2. offset \in Nat /\ Len(pushed) \in Nat
  BY CounterAhead
<1>3. ServerType'
  BY <1>1, <1>2 DEF ServerInv, ServerType
<1>4. LogIs(log, pushed)' /\ Recording'
  BY <1>1 DEF ServerInv, LogIs, Recording, Recorded
<1>5. Answered'
  BY <1>1, AnswersKept DEF ServerInv
<1>6. Counted'
  <2>1. PICK y \in {0, 1} : y = (IF spc = "push" THEN 1 ELSE 0)
    OBVIOUS
  <2>2. offset = Len(pushed) + 0 + y /\ inflight' # None
    BY <2>1, <1>1, <1>2 DEF ServerInv, Counted
  <2>3. offset' = Len(pushed) + 1 + y
    BY <2>2, <1>1, <1>2
  <2> QED BY <2>1, <2>2, <2>3, <1>1 DEF Counted
<1>7. Gathering'
  <2> SUFFICES ASSUME spc = "isFinal" PROVE Gathering'
    BY <1>1 DEF Gathering
  <2>1. /\ req \in Frame /\ req.type = "Request" /\ reply \in Frame /\ reply.type = "Response"
        /\ reply.offset = req.offset + Len(reply.changes)
        /\ Final(req.offset, req.limit, reply.changes, seen.known, offset)
        /\ Resume(req.offset, reply.changes, seen) /\ Prefix(seen.known)
    BY DEF ServerInv, ServerType, Gathering
  <2>2. req.offset + Len(reply.changes) \in Nat
    BY <2>1, FrameFields
  <2>3. offset + 1 <= req.offset + Len(reply.changes) => offset <= req.offset + Len(reply.changes)
    BY <2>2, <1>2
  <2>4. Final(req.offset, req.limit, reply.changes, seen.known, offset + 1)
    BY <2>1, <2>3 DEF Final
  <2>5. Prefix(seen.known)'
    BY <2>1, <1>1 DEF Prefix
  <2> QED BY <2>1, <2>4, <2>5, <1>1 DEF Gathering
<1> QED BY <1>3, <1>4, <1>5, <1>6, <1>7 DEF ServerInv

\* The node's own recorder pushes: batches keep their places, answers what they saw.
LEMMA LocalPushKeeps ==
  ASSUME ServerInv, UNCHANGED clientVars, LocalPush
  PROVE  ServerInv'
<1> USE DEF transport, clientVars, handlerVars
<1>1. PICK c : c = inflight
  OBVIOUS
<1>2. /\ inflight' = None /\ pushed' = Append(pushed, c) /\ log' = PushBounded(log, c, MaxChanges)
      /\ inflight # None
      /\ UNCHANGED <<offset, spc, localOffset, req, todo, reply, seen, answers, c2s, coffset>>
  BY <1>1 DEF LocalPush
<1>3. c \in Nat /\ log \in Seq(Nat) /\ pushed \in Seq(Nat) /\ LogIs(log, pushed)
  BY <1>1, <1>2 DEF ServerInv, ServerType
<1>4. log' \in Seq(Nat) /\ LogIs(log, pushed)' /\ pushed' \in Seq(Nat) /\ Len(pushed') = Len(pushed) + 1
  BY <1>2, <1>3, PushNewest, AppendProperties
<1>5. ServerType'
  BY <1>2, <1>4 DEF ServerInv, ServerType
<1>6. Answered'
  BY <1>2, <1>3, AnswersKept DEF ServerInv
<1>7. Counted'
  <2>1. Len(pushed) \in Nat /\ offset \in Nat
    BY CounterAhead
  <2>2. PICK y \in {0, 1} : y = (IF spc = "push" THEN 1 ELSE 0)
    OBVIOUS
  <2>3. offset = Len(pushed) + 1 + y
    BY <2>2, <1>2 DEF ServerInv, Counted
  <2>4. offset' = Len(pushed') + 0 + y
    BY <2>1, <2>3, <1>2, <1>4
  <2> QED BY <2>2, <2>4, <1>2 DEF Counted
<1>8. Recording'
  <2> SUFFICES ASSUME spc \in {"record", "push"} PROVE Recording'
    BY <1>2 DEF Recording
  <2> DEFINE n == Len(req.changes) - Len(todo)
  <2>1. /\ req.type = "Response" /\ Len(todo) <= Len(req.changes)
        /\ \A i \in 1..Len(todo) : todo[i] = req.changes[Len(req.changes) - Len(todo) + i]
        /\ Recorded(n, req.changes, pushed)
        /\ spc = "push" => todo # <<>>
    BY DEF ServerInv, Recording
  <2>2. n \in Nat
    <3>1. Len(todo) \in Nat /\ Len(req.changes) \in Nat
      BY <2>1, LenProperties, FrameFields DEF ServerInv, ServerType
    <3> QED BY <3>1, <2>1
  <2> HIDE DEF n
  <2>3. Recorded(n, req.changes, pushed')
    BY <2>1, <2>2, <1>2, <1>3, RecordedGrows
  <2> QED BY <2>1, <2>3, <1>2 DEF Recording, n
<1>9. Gathering'
  <2> SUFFICES ASSUME spc = "isFinal" PROVE Gathering'
    BY <1>2 DEF Gathering
  <2>1. seen.known \in Seq(Nat) /\ Prefix(seen.known)
    BY DEF ServerInv, ServerType, SeenType, Gathering
  <2>2. PICK known \in Seq(Nat) : known = seen.known
    BY <2>1
  <2>3. Prefix(known)'
    BY <2>1, <2>2, <1>2, <1>3, PrefixGrows
  <2> QED BY <2>2, <2>3, <1>2 DEF ServerInv, Gathering
<1> QED BY <1>4, <1>5, <1>6, <1>7, <1>8, <1>9 DEF ServerInv

\* The steps of the client, of foreign peers and of the network leave the server
\* alone; all they put on the way to it are frames.
LEMMA OtherStepKeeps ==
  ASSUME ServerInv,
         \/ OurClient
         \/ \E frames \in FrameSequences(ClientFrames) : ForeignClient(frames)
         \/ \E frames \in FrameSequences(ServerFrames) : ForeignServer(frames)
         \/ Lose /\ UNCHANGED <<ours, serverVars, clientVars>>
         \/ UNCHANGED sessionVars
  PROVE  ServerInv'
<1> USE DEF transport, clientVars
<1>0. c2s \in Seq(Frame) /\ coffset \in Nat
  BY DEF ServerInv, ServerType
<1>1. CASE OurClient
  <2>1. UNCHANGED serverVars
    BY <1>1 DEF OurClient
  <2>2. c2s' \in Seq(Frame)
    <3>1. CASE SendRequest
      <4>1. Request(coffset, RequestLimit) \in Frame
        BY <1>0 DEF Frame, Request
      <4>2. PICK m \in Frame : m = Request(coffset, RequestLimit)
        BY <4>1
      <4> QED BY <3>1, <4>2, <1>0, AppendProperties DEF SendRequest
    <3>2. CASE SendEnd
      <4>1. <<EndMarker, Fin>> \in Seq(Frame)
        <5>1. EndMarker \in Frame /\ Fin \in Frame
          BY DEF Frame, EndMarker, Fin
        <5> QED BY <5>1
      <4>2. PICK e \in Seq(Frame) : e = <<EndMarker, Fin>>
        BY <4>1
      <4> QED BY <3>2, <4>2, <1>0, ConcatProperties DEF SendEnd
    <3>3. CASE ~SendRequest /\ ~SendEnd
      <4>1. c2s' = c2s
        BY <3>3, <1>1 DEF OurClient, Client, Connect, ConnectFails, OpenStream, WriteError, ReadBatch,
             ReadLast, ReadIgnored, ReadInvalid, ReadError
      <4> QED BY <4>1, <1>0
    <3> QED BY <3>1, <3>2, <3>3
  <2>3. coffset' \in Nat
    <3>1. CASE ReadBatch
      BY <3>1, <1>0 DEF ReadBatch
    <3>2. CASE ~ReadBatch
      BY <3>2, <1>0, <1>1 DEF OurClient, Client, Connect, ConnectFails, OpenStream, WriteError, SendRequest,
           ReadLast, ReadIgnored, ReadInvalid, ReadError, SendEnd
    <3> QED BY <3>1, <3>2
  <2> QED BY <2>1, <2>2, <2>3, ElsewhereKeeps
<1>2. CASE \E frames \in FrameSequences(ClientFrames) : ForeignClient(frames)
  <2>1. PICK frames \in FrameSequences(ClientFrames) : ForeignClient(frames)
    BY <1>2
  <2>2. frames \in Seq(Frame)
    BY DEF FrameSequences
  <2> QED BY <2>1, <2>2, <1>0, ElsewhereKeeps DEF ForeignClient
<1>3. CASE \E frames \in FrameSequences(ServerFrames) : ForeignServer(frames)
  BY <1>3, <1>0, ElsewhereKeeps DEF ForeignServer
<1>4. CASE Lose /\ UNCHANGED <<ours, serverVars, clientVars>>
  BY <1>4, <1>0, ElsewhereKeeps DEF Lose
<1>5. CASE UNCHANGED sessionVars
  BY <1>5, <1>0, ElsewhereKeeps DEF sessionVars
<1> QED BY <1>1, <1>2, <1>3, <1>4, <1>5

\* Before the session nothing was pushed, gathered or answered.
LEMMA InitServerInv == SessionInit => ServerInv
<1> SUFFICES ASSUME SessionInit PROVE ServerInv
  OBVIOUS
<1> USE DEF SessionInit, ServerInit, ClientInit, TransportInit
<1>1. LogIs(log, pushed)
  BY DEF LogIs
<1>2. ServerType
  <2>1. Ping \in Frame
    BY DEF Frame, Ping
  <2>2. seen \in SeenType
    BY DEF Seen, SeenType
  <2> QED BY <2>1, <2>2 DEF ServerType
<1> QED BY <1>1, <1>2 DEF ServerInv, Counted, Recording, Gathering, Answered

\* Every step of a session keeps the serving end's invariant.
LEMMA NextServerInv == ServerInv /\ [SessionNext]_sessionVars => ServerInv'
<1> SUFFICES ASSUME ServerInv, [SessionNext]_sessionVars PROVE ServerInv'
  OBVIOUS
<1>1. CASE OurServer
  <2>1. Handler /\ UNCHANGED clientVars
    BY <1>1 DEF OurServer
  <2> QED BY <2>1, PlainStepKeeps, ReadRequestKeeps, IsFinalKeeps, ReadResponseKeeps,
             RecordFetchAddKeeps, RecordPushKeeps, RecordDoneKeeps, ReadOtherKeeps DEF Handler
<1>2. CASE OurNode
  BY <1>2, LocalFetchAddKeeps, LocalPushKeeps DEF OurNode, LocalNode
<1>3. CASE ~OurServer /\ ~OurNode
  BY <1>3, OtherStepKeeps DEF SessionNext
<1> QED BY <1>1, <1>2, <1>3

\* The serving end's invariant, whatever the client sends and whatever the node
\* records meanwhile (handle_connection and process_message, src/protocol.rs).
THEOREM ServerInvariant == SessionSpec => []ServerInv
  BY InitServerInv, NextServerInv, PTL DEF SessionSpec

\* A Response is acknowledged with its own offset, and only once all its changes
\* are in the history in their order.
THEOREM AcksAreEarned == SessionSpec => []AckMeansRecorded
<1>1. ServerInv => AckMeansRecorded
  <2> SUFFICES ASSUME ServerInv, NEW a \in Range(answers), a.req.type = "Response"
               PROVE  a.reply = Ack(a.req.offset) /\ Recorded(Len(a.req.changes), a.req.changes, a.seen.known)
    BY DEF AckMeansRecorded, Recorded
  <2> QED BY DEF ServerInv, Answered, ResponseAnswered, Range
<1> QED BY <1>1, ServerInvariant, PTL

\* A batch marked final holds all that was in the log from the requested offset
\* on when it was gathered, although is_final reads the counter later.
THEOREM FinalBatchesComplete == SessionSpec => []FinalIsComplete
<1>1. ServerInv => FinalIsComplete
  BY DEF ServerInv, Answered, RequestAnswered, HoldsAll, Range, FinalIsComplete
<1> QED BY <1>1, ServerInvariant, PTL

\* Nothing retained is skipped by resuming from the offset of a batch that was
\* gathered while no record was between counter and log.
THEOREM ResumingIsSound == SessionSpec => []ResumePointSound
<1>1. ServerInv => ResumePointSound
  <2> SUFFICES ASSUME ServerInv, NEW a \in Range(answers), a.req.type = "Request", a.seen.quiet,
                      NEW k \in 1..Len(pushed), k > a.req.offset, k > a.seen.trimmed,
                      k <= a.reply.offset
               PROVE  pushed[k] \in Range(a.reply.changes)
    BY DEF ResumePointSound
  <2>1. PICK i \in DOMAIN answers : answers[i] = a
    BY DEF Range
  <2>2. RequestAnswered(a) /\ a \in AnswerType
    BY <2>1, LenProperties, ElementOfSeq DEF ServerInv, ServerType, Answered
  <2>3. /\ a.reply.offset = a.req.offset + Len(a.reply.changes)
        /\ Resume(a.req.offset, a.reply.changes, a.seen) /\ Prefix(a.seen.known)
    BY <2>2 DEF RequestAnswered
  <2>4. k \in 1..(a.req.offset + Len(a.reply.changes)) /\ k \in Nat
    <3>1. a.req.offset + Len(a.reply.changes) = a.reply.offset /\ k \in Nat /\ k >= 1
      BY <2>3
    <3>2. a.req.offset \in Nat /\ a.reply \in Frame
      BY <2>2, FrameFields DEF AnswerType
    <3>3. a.reply.offset \in Nat
      BY <3>2, <2>2 DEF Frame, RequestAnswered
    <3> QED BY <3>1, <3>3
  <2>5. k <= Len(a.seen.known) /\ a.seen.known[k] \in Range(a.reply.changes)
    BY <2>3, <2>4 DEF Resume
  <2>6. a.seen.known[k] = pushed[k]
    <3>1. k \in 1..Len(a.seen.known)
      BY <2>5, <2>2 DEF AnswerType, SeenType
    <3> QED BY <3>1, <2>3 DEF Prefix
  <2> QED BY <2>5, <2>6
<1> QED BY <1>1, ServerInvariant, PTL

(* ------------------------- the requesting end ---------------------------- *)

\* The client's own steps keep its invariant.
LEMMA ClientStepKeeps ==
  ASSUME ServerInv, ClientInv, OneExchange, OurClient
  PROVE  ClientInv'
<1> USE DEF transport, clientVars, ClientInv
<1>0. ours' = ours /\ "client" \in ours
  BY DEF OurClient
<1>1. CASE SendEnd
  <2>1. ended /\ cpc' = "done" /\ ended' = ended /\ conn' = "down"
    BY <1>1 DEF SendEnd
  <2>2. PICK e \in Seq(Frame) : e = <<EndMarker, Fin>> /\ Len(e) = 2 /\ e[1] = EndMarker
    <3>1. PICK m \in Frame, f \in Frame : m = EndMarker /\ f = Fin
      BY DEF Frame, EndMarker, Fin
    <3>2. <<m, f>> \in Seq(Frame) /\ Len(<<m, f>>) = 2 /\ <<m, f>>[1] = m
      OBVIOUS
    <3> QED BY <3>1, <3>2
  <2>3. /\ c2s' = c2s \o e /\ c2s \in Seq(Frame) /\ Len(c2s) \in Nat
    BY <1>1, <2>2, LenProperties DEF SendEnd, ServerInv, ServerType
  <2>4. Len(c2s') = Len(c2s) + 2 /\ c2s'[Len(c2s) + 1] = EndMarker
    BY <2>2, <2>3, ConcatProperties
  <2>5. \E i \in 1..Len(c2s') : c2s'[i] = EndMarker
    BY <2>3, <2>4
  <2> QED BY <1>0, <2>1, <2>5
<1>2. CASE Connect
  BY <1>0, <1>2 DEF Connect
<1>3. CASE SendRequest
  BY <1>0, <1>3 DEF SendRequest
<1>4. CASE ConnectFails \/ WriteError \/ OpenStream
  BY <1>0, <1>4 DEF ConnectFails, WriteError, OpenStream
<1>5. CASE ReadBatch \/ ReadIgnored
  BY <1>0, <1>5 DEF ReadBatch, ReadIgnored
<1>6. CASE ReadLast \/ ReadInvalid \/ ReadError
  BY <1>0, <1>6 DEF ReadLast, ReadInvalid, ReadError
<1> QED BY <1>1, <1>2, <1>3, <1>4, <1>5, <1>6 DEF OurClient, Client

\* So do all other steps: only a server that is ours takes frames from the client,
\* and against that one our client never gets as far as Synchronized.
LEMMA NextClientInv ==
  ServerInv /\ ClientInv /\ OneExchange /\ [SessionNext]_sessionVars => ClientInv'
<1> SUFFICES ASSUME ServerInv, ClientInv, OneExchange, [SessionNext]_sessionVars PROVE ClientInv'
  OBVIOUS
<1> USE DEF transport, clientVars
<1>1. CASE OurClient
  BY <1>1, ClientStepKeeps
<1>2. CASE OurServer \/ OurNode
  <2>1. /\ UNCHANGED <<ours, cstate, cpc, ended>> /\ "server" \in ours
        /\ conn' = conn \/ (spc = "read" /\ conn' = "down")
    <3>1. CASE OurNode
      BY <3>1 DEF OurNode, LocalNode, LocalFetchAdd, LocalPush
    <3>2. CASE OurServer
      <4>1. UNCHANGED <<ours, cstate, cpc, ended>> /\ "server" \in ours
        BY <3>2 DEF OurServer
      <4>2. conn' = conn \/ (spc = "read" /\ conn' = "down")
        BY <3>2 DEF OurServer, Handler, Accept, AcceptFails, ReadEnd, ReadFails, ReadOversized,
             ReadRequest, IsFinal, ReadResponse, RecordFetchAdd, RecordPush, RecordDone, ReadOther,
             WriteReply, WriteFails, Finish, Closed
      <4> QED BY <4>1, <4>2
    <3> QED BY <1>2, <3>1, <3>2
  <2>2. CASE "client" \notin ours
    BY <2>1, <2>2 DEF ClientInv
  <2>3. CASE "client" \in ours
    <3>1. ours = {"client", "server"}
      BY <2>1, <2>3, ZenonT(60) DEF ClientInv
    <3>2. /\ cstate # "Synchronized"
          /\ cpc = "end" => conn = "down"
          /\ cpc = "connect" => spc \in {"accept", "failed"}
      BY <3>1 DEF OneExchange, Exchange
    <3> QED BY <2>1, <3>1, <3>2 DEF ClientInv
  <2> QED BY <2>2, <2>3
<1>3. CASE \E frames \in FrameSequences(ClientFrames) : ForeignClient(frames)
  BY <1>3 DEF ForeignClient, ClientInv
<1>4. CASE \E frames \in FrameSequences(ServerFrames) : ForeignServer(frames)
  BY <1>4 DEF ForeignServer, ClientInv
<1>5. CASE Lose /\ UNCHANGED <<ours, serverVars, clientVars>>
  BY <1>5 DEF Lose, ClientInv
<1>6. CASE UNCHANGED sessionVars
  BY <1>6 DEF sessionVars, ClientInv
<1> QED BY <1>1, <1>2, <1>3, <1>4, <1>5, <1>6 DEF SessionNext

(* ------------------------- the two ends together ------------------------- *)

\* One frame on the way: reading it leaves nothing.
LEMMA OneFrame ==
  ASSUME NEW S, NEW s \in Seq(S), Len(s) = 1
  PROVE  s # <<>> /\ Head(s) = s[1] /\ Tail(s) = <<>>
<1>1. s # <<>>
  OBVIOUS
<1>2. Tail(s) \in Seq(S) /\ Len(Tail(s)) = 0 /\ Head(s) = s[1]
  BY <1>1, HeadTailProperties
<1>3. Tail(s) = <<>>
  BY <1>2, EmptySeq
<1> QED BY <1>1, <1>2, <1>3

\* The first element of a sequence.
LEMMA FirstAppended ==
  ASSUME NEW x
  PROVE  Append(<<>>, x) = <<x>> /\ Append(<<>>, x)[1] = x /\ Len(Append(<<>>, x)) = 1 /\ Append(<<>>, x) # <<>>
  OBVIOUS

\* The client's steps.
LEMMA ClientExchange ==
  ASSUME ServerInv, ClientInv, Exchange, ours = {"client", "server"}, OurClient
  PROVE  Exchange'
<1> USE DEF transport, clientVars, Exchange
<1>0. UNCHANGED <<spc, req, reply, answers>>
  BY DEF OurClient, serverVars, handlerVars
<1>1. CASE Connect
  BY <1>0, <1>1 DEF Connect
<1>2. CASE ConnectFails
  BY <1>0, <1>2 DEF ConnectFails
<1>3. CASE OpenStream
  BY <1>0, <1>3 DEF OpenStream
<1>4. CASE SendRequest
  <2>1. PICK m : m = Request(coffset, RequestLimit)
    OBVIOUS
  <2>2. c2s' = <<m>> /\ c2s'[1] = m /\ Len(c2s') = 1
    BY <1>4, <2>1, FirstAppended DEF SendRequest
  <2>3. m.type = "Request"
    BY <2>1 DEF Request
  <2> QED BY <1>0, <1>4, <2>2, <2>3 DEF SendRequest
<1>5. CASE WriteError
  BY <1>0, <1>5 DEF WriteError
<1>6. CASE ReadBatch
  <2>1. /\ answers # <<>> /\ s2c = <<answers[1].reply>>
    BY <1>6 DEF ReadBatch
  <2>2. s2c' = <<>>
    BY <1>6, <2>1 DEF ReadBatch
  <2> QED BY <1>0, <1>6, <2>1, <2>2 DEF ReadBatch
<1>7. CASE ReadLast \/ ReadIgnored \/ ReadInvalid
  <2>1. /\ answers # <<>> /\ s2c = <<answers[1].reply>>
    BY <1>7 DEF ReadLast, ReadIgnored, ReadInvalid
  <2>2. Head(s2c).type = "Response"
    BY <2>1
  <2> QED BY <1>7, <2>2 DEF ReadLast, ReadIgnored, ReadInvalid
<1>8. CASE ReadError
  BY <1>0, <1>8 DEF ReadError
<1>9. CASE SendEnd
  BY <1>9 DEF SendEnd
<1> QED BY <1>1, <1>2, <1>3, <1>4, <1>5, <1>6, <1>7, <1>8, <1>9 DEF OurClient, Client

\* The server's steps.
LEMMA ServerExchange ==
  ASSUME ServerInv, ClientInv, Exchange, ours = {"client", "server"}, OurServer
  PROVE  Exchange'
<1> USE DEF transport, clientVars, Exchange
<1>0. UNCHANGED <<coffset, cstate, cpc, ended>>
  BY DEF OurServer
<1>1. CASE Accept
  BY <1>0, <1>1 DEF Accept
<1>2. CASE AcceptFails
  BY <1>0, <1>2 DEF AcceptFails
<1>3. CASE ReadEnd \/ ReadOversized \/ ReadResponse \/ ReadOther
  <2>1. c2s # <<>> /\ c2s \in Seq(Frame) /\ Len(c2s) = 1
    BY <1>3 DEF ReadEnd, ReadOversized, ReadResponse, ReadOther, ServerInv, ServerType
  <2>2. Head(c2s).type = "Request"
    BY <2>1, OneFrame
  <2> QED BY <1>3, <2>2 DEF ReadEnd, ReadOversized, ReadResponse, ReadOther
<1>4. CASE ReadFails
  BY <1>0, <1>4 DEF ReadFails
<1>5. CASE ReadRequest
  <2>1. c2s # <<>> /\ c2s \in Seq(Frame) /\ Len(c2s) = 1
    BY <1>5 DEF ReadRequest, ServerInv, ServerType
  <2>2. Head(c2s) = c2s[1] /\ Tail(c2s) = <<>>
    BY <2>1, OneFrame
  <2>3. /\ c2s' = <<>> /\ spc' = "isFinal" /\ spc = "read" /\ req' = c2s[1]
        /\ UNCHANGED <<answers, conn, s2c>>
    BY <1>5, <2>2 DEF ReadRequest
  <2> QED BY <1>0, <2>1, <2>3
<1>6. CASE IsFinal
  <2>1. PICK a : a = [req |-> req, reply |-> reply', seen |-> seen]
    OBVIOUS
  <2>2. /\ answers' = Append(<<>>, a) /\ spc = "isFinal" /\ spc' = "write"
        /\ UNCHANGED <<req, conn, c2s, s2c>>
    BY <1>6, <2>1 DEF IsFinal
  <2>3. answers' = <<a>> /\ answers'[1] = a /\ Len(answers') = 1 /\ answers' # <<>>
    BY <2>2, FirstAppended
  <2>4. reply'.type = "Response" /\ req.type = "Request"
    <3>1. reply \in Frame /\ reply.type = "Response" /\ req.type = "Request"
      BY <2>2 DEF ServerInv, ServerType, Gathering
    <3> QED BY <3>1, <1>6 DEF IsFinal, Frame
  <2>5. a.req = req /\ a.reply = reply'
    BY <2>1
  <2>6. c2s = <<>> /\ s2c = <<>>
    BY <2>2
  <2> QED BY <1>0, <2>2, <2>3, <2>4, <2>5, <2>6
<1>7. CASE RecordFetchAdd \/ RecordPush \/ RecordDone
  BY <1>7 DEF RecordFetchAdd, RecordPush, RecordDone
<1>8. CASE WriteReply
  <2>1. s2c' = <<reply>>
    BY <1>8, FirstAppended DEF WriteReply
  <2> QED BY <1>0, <1>8, <2>1 DEF WriteReply
<1>9. CASE WriteFails
  BY <1>0, <1>9 DEF WriteFails
<1>10. CASE Finish
  BY <1>0, <1>10 DEF Finish
<1>11. CASE Closed
  BY <1>0, <1>11 DEF Closed
<1> QED BY <1>1, <1>2, <1>3, <1>4, <1>5, <1>6, <1>7, <1>8, <1>9, <1>10, <1>11 DEF OurServer, Handler

\* Every step of a session keeps it to one exchange when both ends are ours.
LEMMA NextOneExchange ==
  ServerInv /\ ClientInv /\ OneExchange /\ [SessionNext]_sessionVars => OneExchange'
<1> SUFFICES ASSUME ServerInv, ClientInv, OneExchange, [SessionNext]_sessionVars,
                    ours' = {"client", "server"}
             PROVE  Exchange'
  BY DEF OneExchange
<1>1. ours = {"client", "server"}
  BY DEF SessionNext, OurClient, OurServer, OurNode, ForeignClient, ForeignServer, sessionVars
<1>2. Exchange
  BY <1>1 DEF OneExchange
<1>3. CASE OurClient
  BY <1>1, <1>2, <1>3, ClientExchange
<1>4. CASE OurServer
  BY <1>1, <1>2, <1>4, ServerExchange
<1>5. CASE OurNode
  <2>1. UNCHANGED <<spc, req, reply, answers, clientVars, transport>>
    BY <1>5 DEF OurNode, LocalNode, LocalFetchAdd, LocalPush, handlerVars
  <2> QED BY <2>1, <1>2 DEF Exchange, clientVars, transport
<1>6. CASE \E frames \in FrameSequences(ClientFrames) : ForeignClient(frames)
  BY <1>1, <1>6 DEF ForeignClient
<1>7. CASE \E frames \in FrameSequences(ServerFrames) : ForeignServer(frames)
  BY <1>1, <1>7 DEF ForeignServer
<1>8. CASE Lose /\ UNCHANGED <<ours, serverVars, clientVars>>
  BY <1>2, <1>8 DEF Lose, Exchange, serverVars, handlerVars, clientVars
<1>9. CASE UNCHANGED sessionVars
  BY <1>2, <1>9 DEF sessionVars, Exchange, serverVars, handlerVars, clientVars, transport
<1> QED BY <1>3, <1>4, <1>5, <1>6, <1>7, <1>8, <1>9 DEF SessionNext

\* Before the session the client has sent nothing and takes nobody for synchronized.
LEMMA InitClientInv == SessionInit => ClientInv /\ OneExchange
<1> SUFFICES ASSUME SessionInit PROVE ClientInv /\ OneExchange
  OBVIOUS
<1>1. ours \subseteq {"client", "server"}
  BY DEF SessionInit
<1> QED BY <1>1 DEF SessionInit, ServerInit, ClientInit, TransportInit, ClientInv, OneExchange, Exchange

\* The invariants of both ends of a session (connect_and_sync and
\* handle_connection, src/protocol.rs).
THEOREM SessionInvariant == SessionSpec => [](ServerInv /\ ClientInv /\ OneExchange)
  BY InitServerInv, InitClientInv, NextServerInv, NextClientInv, NextOneExchange, PTL DEF SessionSpec

\* connect_and_sync takes the peer for synchronized only when the server ended
\* the session and the end marker went out on a live connection.
THEOREM SuccessIsEarned == SessionSpec => []SynchronizedOnlyWhenEnded
<1>1. ClientInv => SynchronizedOnlyWhenEnded
  BY DEF ClientInv, SynchronizedOnlyWhenEnded
<1> QED BY <1>1, SessionInvariant, PTL

\* Against the repository's own server connect_and_sync never returns Ok, whatever
\* the log holds, the node records and the connection does: no Ack and no end of
\* the stream ever reaches the client, so all it can do is wait or fail. This is
\* the finding of the run SyncSessionEnds for every value of the constants
\* (src/protocol.rs:342-398 against 107-190).
THEOREM OwnEndsNeverFinish ==
  SessionSpec => [](ours = {"client", "server"} =>
                      ~ended /\ cpc # "done" /\ cstate # "Synchronized")
<1>1. OneExchange =>
        (ours = {"client", "server"} => ~ended /\ cpc # "done" /\ cstate # "Synchronized")
  BY DEF OneExchange, Exchange
<1> QED BY <1>1, SessionInvariant, PTL
=============================================================================
