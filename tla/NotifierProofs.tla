--------------------------- MODULE NotifierProofs ---------------------------
(***************************************************************************)
(* Proofs about ChangeNotifier, for every set of publishers, every finite  *)
(* set of subscriptions and every size of the channels.                    *)
(***************************************************************************)
EXTENDS ChangeNotifier, FiniteSetTheorems, SequenceTheorems, TLAPS

USE NotifierAssumption

(* ------------------------- the inductive invariants ---------------------- *)

NotifierType ==
  /\ DOMAIN subscribers \subseteq Nat \ {0} /\ IsFiniteSet(DOMAIN subscribers)
  /\ subscribers \in [DOMAIN subscribers -> Subscriptions]
  /\ sequence \in Nat /\ published \in Nat
  /\ status \in [Subscriptions -> {"new", "held", "dropped"}]
  /\ id \in [Subscriptions -> Nat]
  /\ buffer \in [Subscriptions -> Seq(Event)]
  /\ lagged \in [Subscriptions -> BOOLEAN]
  /\ sent \in [Subscriptions -> Seq(Event)]
  /\ heard \in [Subscriptions -> Seq(Event \cup {Missed})]
  /\ pc \in [Tasks -> {"idle", "publish", "send"}]
  /\ event \in [Tasks -> Event \cup {NoEvent}]
  /\ todo \in [Tasks -> SUBSET Nat]

\* A subscription that was made has one entry at most; a task publishes an event
\* of its own, to entries that stay while it does.
EntriesInStep ==
  /\ \A i \in DOMAIN subscribers : status[subscribers[i]] # "new"
  /\ \A i, j \in DOMAIN subscribers : subscribers[i] = subscribers[j] => i = j
  /\ \A t \in Tasks : pc[t] # "idle" => event[t] \in Event /\ event[t].task = t
  /\ \A t \in Tasks : pc[t] = "send" => todo[t] \subseteq DOMAIN subscribers

\* As long as only the newest id is given up, the ids are the numbers 1..n.
IdsDense == lifo => /\ displaced = {}
                    /\ DOMAIN subscribers = 1..Cardinality(DOMAIN subscribers)

\* The events that are sent or being published.
Events == (UNION {Range(sent[s]) : s \in Subscriptions})
          \cup {event[t] : t \in {u \in Tasks : pc[u] # "idle"}}

EventsKnown == \A e \in Events : e.seq <= sequence /\ e.n <= published
SeqsUnique == \A e, f \in Events : e.seq = f.seq /\ e.seq # 0 => e = f

\* Event e of its task comes after all that subscription s was sent by it.
After(d, e) == d.task = e.task => /\ d.n < e.n
                                  /\ 0 \notin {d.seq, e.seq} => d.seq < e.seq
Fresh(s, e) == \A i \in DOMAIN sent[s] : After(sent[s][i], e)
PublishedInOrder ==
  /\ \A s \in Subscriptions : \A i, j \in DOMAIN sent[s] : i < j => After(sent[s][i], sent[s][j])
  /\ \A t \in Tasks : pc[t] = "publish" => \A s \in Subscriptions : Fresh(s, event[t])
  /\ \A t \in Tasks : pc[t] = "send" => \A i \in todo[t] : Fresh(subscribers[i], event[t])

\* S was sent to a subscription, B is in its channel, H was heard, L says that
\* a gap is to be reported. The channel holds the newest of what was sent.
Newest(S, B, L) ==
  /\ Len(B) <= Len(S) /\ Len(B) <= BufferSize /\ (L => Len(B) = BufferSize)
  /\ \A i \in 1..Len(B) : B[i] = S[Len(S) - Len(B) + i]

\* What was heard has left the channel, in order and without a silent gap.
InOrder(S, B, H) ==
  \A j \in 1..Len(H) : H[j] # Missed =>
    /\ \E q \in 1..(Len(S) - Len(B)) : S[q] = H[j]
    /\ j = 1 => H[j] = S[1]
    /\ \A i \in 1..(j - 1) : \A p, q \in 1..Len(S) :
         S[p] = H[i] /\ S[q] = H[j] => p < q /\ (i = j - 1 => q = p + 1)

\* Unless a gap is to be reported, the next event follows what was heard last.
UpToDate(S, B, H, L) ==
  /\ ~L /\ H = <<>> => Len(S) = Len(B)
  /\ ~L /\ H # <<>> /\ H[Len(H)] # Missed =>
       Len(S) > Len(B) /\ H[Len(H)] = S[Len(S) - Len(B)]
  /\ H # <<>> /\ H[Len(H)] = Missed => B # <<>>

StreamOK(S, B, H, L) == Newest(S, B, L) /\ InOrder(S, B, H) /\ UpToDate(S, B, H, L)
StreamInv == \A s \in Subscriptions : StreamOK(sent[s], buffer[s], heard[s], lagged[s])
NotifierInv ==
  /\ NotifierType /\ EntriesInStep /\ IdsDense /\ EventsKnown /\ SeqsUnique
  /\ PublishedInOrder /\ StreamInv

(* ---------------------------- types and entries -------------------------- *)

\* A notifier starts with no subscriber, no event and no task under way (ChangeNotifier::new).
LEMMA TypeInit == Init => NotifierType /\ EntriesInStep /\ IdsDense
<1> SUFFICES ASSUME Init PROVE NotifierType /\ EntriesInStep /\ IdsDense
  OBVIOUS
<1>1. DOMAIN subscribers = {} /\ IsFiniteSet({}) /\ Cardinality({}) = 0
  BY FS_EmptySet DEF Init
<1>2. <<>> \in Seq(Event) /\ <<>> \in Seq(Event \cup {Missed})
  OBVIOUS
<1>3. NotifierType
  BY <1>1, <1>2 DEF Init, NotifierType
<1>4. EntriesInStep
  BY <1>1 DEF Init, EntriesInStep
<1>5. IdsDense
  BY <1>1 DEF Init, IdsDense
<1> QED BY <1>3, <1>4, <1>5

\* subscribe puts an entry under the number of entries plus one.
LEMMA SubscribeEntry ==
  ASSUME NotifierType, NEW s \in Subscriptions, Subscribe(s)
  PROVE  LET i == Cardinality(DOMAIN subscribers) + 1
         IN  /\ i \in Nat \ {0} /\ i - 1 \in Nat
             /\ DOMAIN subscribers' = DOMAIN subscribers \cup {i}
             /\ IsFiniteSet(DOMAIN subscribers')
             /\ subscribers'[i] = s /\ \A j \in DOMAIN subscribers : j # i => subscribers'[j] = subscribers[j]
             /\ subscribers' \in [DOMAIN subscribers' -> Subscriptions]
<1> DEFINE i == Cardinality(DOMAIN subscribers) + 1
<1>1. Cardinality(DOMAIN subscribers) \in Nat /\ IsFiniteSet(DOMAIN subscribers)
  BY FS_CardinalityType DEF NotifierType
<1>2. i \in Nat \ {0} /\ i - 1 \in Nat
  BY <1>1
<1>3. subscribers' = [j \in DOMAIN subscribers \cup {i} |-> IF j = i THEN s ELSE subscribers[j]]
  BY DEF Subscribe
<1> HIDE DEF i
<1>4. IsFiniteSet(DOMAIN subscribers \cup {i})
  BY <1>1, FS_AddElement
<1>5. /\ DOMAIN subscribers' = DOMAIN subscribers \cup {i}
      /\ subscribers'[i] = s /\ \A j \in DOMAIN subscribers : j # i => subscribers'[j] = subscribers[j]
  BY <1>3
<1>6. subscribers' \in [DOMAIN subscribers' -> Subscriptions]
  BY <1>3, <1>5 DEF NotifierType
<1> QED BY <1>2, <1>4, <1>5, <1>6 DEF i

\* What a send does to the channel it goes to: it grows, or its oldest event goes.
LEMMA SendEffect ==
  ASSUME NotifierType, EntriesInStep, NEW t \in Tasks, NotifySend(t)
  PROVE  \E i \in todo[t] :
           /\ i \in DOMAIN subscribers /\ subscribers[i] \in Subscriptions /\ event[t] \in Event
           /\ Deliver(subscribers[i], event[t])
           /\ todo' = [todo EXCEPT ![t] = todo[t] \ {i}]
           /\ pc' = [pc EXCEPT ![t] = IF todo[t] = {i} THEN "idle" ELSE "send"]
           /\ event' = [event EXCEPT ![t] = IF todo[t] = {i} THEN NoEvent ELSE event[t]]
<1>1. pc[t] = "send" /\ event[t] \in Event /\ todo[t] \subseteq DOMAIN subscribers
  BY DEF NotifySend, EntriesInStep
<1>2. PICK i \in todo[t] :
        /\ Deliver(subscribers[i], event[t])
        /\ todo' = [todo EXCEPT ![t] = @ \ {i}]
        /\ pc' = [pc EXCEPT ![t] = IF todo[t] = {i} THEN "idle" ELSE "send"]
        /\ event' = [event EXCEPT ![t] = IF todo[t] = {i} THEN NoEvent ELSE @]
  BY DEF NotifySend
<1>3. i \in DOMAIN subscribers /\ subscribers[i] \in Subscriptions
  BY <1>1 DEF NotifierType
<1> QED BY <1>1, <1>2, <1>3

\* A publication takes the next sequence number, or the number 0.
LEMMA PrepareEffect ==
  ASSUME NotifierType, NEW t \in Tasks, IncSequence(t) \/ NotifySync(t)
  PROVE  \E q \in Nat : /\ Prepare(t, q) /\ sequence' \in Nat /\ sequence <= sequence' /\ q <= sequence'
                        /\ q # 0 => q > sequence
<1>1. sequence \in Nat /\ sequence + 1 \in Nat
  BY DEF NotifierType
<1>2. CASE IncSequence(t)
  <2>1. Prepare(t, sequence + 1) /\ sequence' = sequence + 1
    BY <1>2 DEF IncSequence
  <2> QED BY <1>1, <2>1
<1>3. CASE NotifySync(t)
  <2>1. Prepare(t, 0) /\ sequence' = sequence
    BY <1>3 DEF NotifySync
  <2> QED BY <1>1, <2>1
<1> QED BY <1>2, <1>3

\* The types of what a delivery changes.
LEMMA DeliverType ==
  ASSUME NotifierType, NEW s \in Subscriptions, NEW e \in Event, Deliver(s, e)
  PROVE  /\ buffer' \in [Subscriptions -> Seq(Event)] /\ sent' \in [Subscriptions -> Seq(Event)]
         /\ lagged' \in [Subscriptions -> BOOLEAN]
<1>1. CASE status[s] = "dropped"
  BY <1>1 DEF Deliver, NotifierType, channels
<1>2. CASE status[s] # "dropped"
  <2> DEFINE b == IF Len(buffer[s]) < BufferSize THEN Append(buffer[s], e) ELSE Append(Tail(buffer[s]), e)
  <2>1. /\ sent' = [sent EXCEPT ![s] = Append(sent[s], e)]
        /\ buffer' = [buffer EXCEPT ![s] = b]
        /\ lagged' = [lagged EXCEPT ![s] = lagged[s] \/ Len(buffer[s]) = BufferSize]
    BY <1>2 DEF Deliver
  <2>2. sent[s] \in Seq(Event) /\ buffer[s] \in Seq(Event) /\ lagged[s] \in BOOLEAN
    BY DEF NotifierType
  <2>3. Append(sent[s], e) \in Seq(Event)
    BY <2>2, AppendProperties
  <2>4. b \in Seq(Event)
    <3>1. CASE Len(buffer[s]) < BufferSize
      BY <2>2, <3>1, AppendProperties
    <3>2. CASE ~(Len(buffer[s]) < BufferSize)
      <4>1. buffer[s] # <<>>
        BY <2>2, <3>2
      <4>2. Tail(buffer[s]) \in Seq(Event)
        BY <2>2, <4>1, HeadTailProperties
      <4> QED BY <3>2, <4>2, AppendProperties
    <3> QED BY <3>1, <3>2
  <2> HIDE DEF b
  <2> QED BY <2>1, <2>2, <2>3, <2>4 DEF NotifierType
<1> QED BY <1>1, <1>2

\* Every step keeps types, entries and the publications under way in step.
LEMMA TypeKept ==
  ASSUME NotifierType, EntriesInStep, [Next]_vars
  PROVE  NotifierType' /\ EntriesInStep'
<1>1. ASSUME NEW s \in Subscriptions, Subscribe(s) PROVE NotifierType' /\ EntriesInStep'
  <2> DEFINE i == Cardinality(DOMAIN subscribers) + 1
  <2>1. /\ i \in Nat \ {0}
        /\ DOMAIN subscribers' = DOMAIN subscribers \cup {i}
        /\ IsFiniteSet(DOMAIN subscribers')
        /\ subscribers'[i] = s /\ \A j \in DOMAIN subscribers : j # i => subscribers'[j] = subscribers[j]
        /\ subscribers' \in [DOMAIN subscribers' -> Subscriptions]
    BY <1>1, SubscribeEntry
  <2>2. /\ status[s] = "new" /\ NoReader /\ id' = [id EXCEPT ![s] = i]
        /\ status' = [status EXCEPT ![s] = "held"]
        /\ UNCHANGED <<sequence, channels, tasks, published, sent, heard>>
    BY <1>1 DEF Subscribe
  <2> HIDE DEF i
  <2>3. NotifierType'
    BY <2>1, <2>2 DEF NotifierType, channels, tasks
  <2>4. EntriesInStep'
    <3>1. ASSUME NEW j \in DOMAIN subscribers' PROVE status'[subscribers'[j]] # "new"
      BY <2>1, <2>2 DEF EntriesInStep, NotifierType
    <3>2. ASSUME NEW j \in DOMAIN subscribers, j # i PROVE subscribers'[j] # s
      BY <2>1, <2>2, <3>2 DEF EntriesInStep
    <3>3. \A j, k \in DOMAIN subscribers' : subscribers'[j] = subscribers'[k] => j = k
      BY <2>1, <3>2 DEF EntriesInStep
    <3>4. \A t \in Tasks : pc'[t] # "idle" => event'[t] \in Event /\ event'[t].task = t
      BY <2>2 DEF EntriesInStep, tasks
    <3>5. \A t \in Tasks : pc'[t] # "send"
      BY <2>2 DEF NoReader, tasks
    <3> QED BY <3>1, <3>3, <3>4, <3>5 DEF EntriesInStep
  <2> QED BY <2>3, <2>4
<1>2. ASSUME NEW s \in Subscriptions, Unsubscribe(s) PROVE NotifierType' /\ EntriesInStep'
  <2>1. /\ DOMAIN subscribers' = DOMAIN subscribers \ {id[s]}
        /\ \A j \in DOMAIN subscribers' : subscribers'[j] = subscribers[j]
        /\ subscribers' \in [DOMAIN subscribers' -> Subscriptions]
    BY <1>2 DEF Unsubscribe, Restrict, NotifierType
  <2>2. IsFiniteSet(DOMAIN subscribers')
    <3>1. IsFiniteSet(DOMAIN subscribers) /\ DOMAIN subscribers' \subseteq DOMAIN subscribers
      BY <2>1 DEF NotifierType
    <3> QED BY <3>1, FS_Subset
  <2>3. NoReader /\ UNCHANGED <<sequence, handles, channels, tasks, published, sent, heard>>
    BY <1>2 DEF Unsubscribe
  <2>4. NotifierType'
    BY <2>1, <2>2, <2>3 DEF NotifierType, channels, tasks, handles
  <2>5. EntriesInStep'
    BY <2>1, <2>3 DEF EntriesInStep, NoReader, tasks, handles
  <2> QED BY <2>4, <2>5
<1>3. ASSUME NEW s \in Subscriptions, DropSubscription(s) PROVE NotifierType' /\ EntriesInStep'
  <2>1. <<>> \in Seq(Event) /\ <<>> \in Seq(Event \cup {Missed})
    OBVIOUS
  <2>2. NotifierType'
    BY <1>3, <2>1 DEF DropSubscription, NotifierType, tasks
  <2>3. EntriesInStep'
    BY <1>3 DEF DropSubscription, EntriesInStep, NotifierType, tasks
  <2> QED BY <2>2, <2>3
<1>4. ASSUME NEW t \in Tasks, IncSequence(t) \/ NotifySync(t) PROVE NotifierType' /\ EntriesInStep'
  <2>1. PICK q \in Nat : Prepare(t, q) /\ sequence' \in Nat
    BY <1>4, PrepareEffect
  <2> DEFINE e == [seq |-> q, task |-> t, n |-> published + 1]
  <2>2. e \in Event /\ e.task = t
    BY DEF Event, NotifierType
  <2>3. /\ pc[t] = "idle" /\ published' = published + 1 /\ event' = [event EXCEPT ![t] = e]
        /\ pc' = [pc EXCEPT ![t] = "publish"]
        /\ UNCHANGED <<subscribers, handles, channels, todo, sent, heard>>
    BY <2>1 DEF Prepare
  <2> HIDE DEF e
  <2>4. NotifierType'
    BY <2>1, <2>2, <2>3 DEF NotifierType, handles, channels
  <2>5. EntriesInStep'
    BY <2>2, <2>3 DEF EntriesInStep, NotifierType, handles
  <2> QED BY <2>4, <2>5
<1>5. ASSUME NEW t \in Tasks, NotifyBegin(t) PROVE NotifierType' /\ EntriesInStep'
  <2>1. NotifierType'
    BY <1>5 DEF NotifyBegin, NotifierType, handles, channels, history
  <2>2. EntriesInStep'
    BY <1>5 DEF NotifyBegin, EntriesInStep, NotifierType, handles
  <2> QED BY <2>1, <2>2
<1>6. ASSUME NEW t \in Tasks, NotifySend(t) PROVE NotifierType' /\ EntriesInStep'
  <2>1. PICK i \in todo[t] :
          /\ i \in DOMAIN subscribers /\ subscribers[i] \in Subscriptions /\ event[t] \in Event
          /\ Deliver(subscribers[i], event[t])
          /\ todo' = [todo EXCEPT ![t] = todo[t] \ {i}]
          /\ pc' = [pc EXCEPT ![t] = IF todo[t] = {i} THEN "idle" ELSE "send"]
          /\ event' = [event EXCEPT ![t] = IF todo[t] = {i} THEN NoEvent ELSE event[t]]
    BY <1>6, SendEffect
  <2>2. /\ buffer' \in [Subscriptions -> Seq(Event)] /\ sent' \in [Subscriptions -> Seq(Event)]
        /\ lagged' \in [Subscriptions -> BOOLEAN]
    BY <2>1, DeliverType
  <2>3. UNCHANGED <<subscribers, sequence, handles, published, heard>> /\ pc[t] = "send"
    BY <1>6 DEF NotifySend
  <2>4. NotifierType'
    BY <2>1, <2>2, <2>3 DEF NotifierType, handles
  <2>5. EntriesInStep'
    BY <2>1, <2>3 DEF EntriesInStep, NotifierType, handles
  <2> QED BY <2>4, <2>5
<1>7. ASSUME NEW s \in Subscriptions, Recv(s) PROVE NotifierType' /\ EntriesInStep'
  <2>1. buffer[s] \in Seq(Event) /\ heard[s] \in Seq(Event \cup {Missed}) /\ buffer[s] # <<>>
    BY <1>7 DEF Recv, NotifierType
  <2>2. Head(buffer[s]) \in Event /\ Tail(buffer[s]) \in Seq(Event)
    BY <2>1, HeadTailProperties
  <2>3. Append(heard[s], Head(buffer[s])) \in Seq(Event \cup {Missed})
    BY <2>1, <2>2, AppendProperties
  <2>4. NotifierType'
    BY <1>7, <2>2, <2>3 DEF Recv, NotifierType, handles, tasks
  <2>5. EntriesInStep'
    BY <1>7 DEF Recv, EntriesInStep, handles, tasks
  <2> QED BY <2>4, <2>5
<1>8. ASSUME NEW s \in Subscriptions, RecvLagged(s) PROVE NotifierType' /\ EntriesInStep'
  <2>1. Append(heard[s], Missed) \in Seq(Event \cup {Missed})
    BY AppendProperties DEF NotifierType
  <2>2. NotifierType'
    BY <1>8, <2>1 DEF RecvLagged, NotifierType, handles, tasks
  <2>3. EntriesInStep'
    BY <1>8 DEF RecvLagged, EntriesInStep, handles, tasks
  <2> QED BY <2>2, <2>3
<1>9. CASE UNCHANGED vars
  BY <1>9 DEF vars, handles, channels, tasks, history, NotifierType, EntriesInStep
<1> QED BY <1>1, <1>2, <1>3, <1>4, <1>5, <1>6, <1>7, <1>8, <1>9 DEF Next

(* -------------------------------- the ids -------------------------------- *)

\* Ids given up in the reverse order of their making leave no gap, so that the
\* number of entries plus one is an id that no entry has.
LEMMA IdsDenseKept ==
  ASSUME NotifierType, IdsDense, [Next]_vars
  PROVE  IdsDense'
<1> DEFINE n == Cardinality(DOMAIN subscribers)
<1>0. n \in Nat /\ IsFiniteSet(DOMAIN subscribers)
  BY FS_CardinalityType DEF NotifierType
<1>1. ASSUME NEW s \in Subscriptions, Subscribe(s), lifo' PROVE IdsDense'
  <2>1. lifo /\ displaced = {} /\ DOMAIN subscribers = 1..n
    BY <1>1 DEF Subscribe, IdsDense
  <2>2. DOMAIN subscribers' = DOMAIN subscribers \cup {n + 1}
    BY <1>1, SubscribeEntry
  <2>3. displaced' = displaced \cup {subscribers[j] : j \in DOMAIN subscribers \cap {n + 1}}
    BY <1>1 DEF Subscribe
  <2> HIDE DEF n
  <2>4. DOMAIN subscribers \cap {n + 1} = {}
    BY <1>0, <2>1
  <2>5. displaced' = {}
    BY <2>1, <2>3, <2>4
  <2>6. DOMAIN subscribers' = 1..(n + 1)
    BY <1>0, <2>1, <2>2
  <2>7. Cardinality(DOMAIN subscribers') = n + 1
    <3> DEFINE m == n + 1
    <3>1. 1 \in Int /\ m \in Int /\ m - 1 + 1 = n + 1 /\ ~(1 > m)
      BY <1>0
    <3> HIDE DEF m
    <3>2. Cardinality(1..m) = m - 1 + 1
      BY <3>1, FS_Interval
    <3> QED BY <2>6, <3>1, <3>2 DEF m
  <2> QED BY <2>5, <2>6, <2>7 DEF IdsDense
<1>2. ASSUME NEW s \in Subscriptions, Unsubscribe(s), lifo' PROVE IdsDense'
  <2>1. lifo /\ displaced = {} /\ DOMAIN subscribers = 1..n
    BY <1>2 DEF Unsubscribe, IdsDense
  <2>2. /\ DOMAIN subscribers' = DOMAIN subscribers \ {id[s]} /\ displaced' = displaced
        /\ id[s] \in DOMAIN subscribers /\ \A i \in DOMAIN subscribers : i <= id[s]
    BY <1>2 DEF Unsubscribe, Restrict
  <2> HIDE DEF n
  <2>3. id[s] = n /\ n >= 1
    <3>1. id[s] \in 1..n
      BY <2>1, <2>2
    <3>2. n \in 1..n
      BY <1>0, <3>1
    <3>3. n <= id[s]
      BY <2>1, <2>2, <3>2
    <3> QED BY <1>0, <3>1, <3>3
  <2>4. DOMAIN subscribers' = 1..(n - 1)
    BY <1>0, <2>1, <2>2, <2>3
  <2>5. Cardinality(DOMAIN subscribers') = n - 1
    BY <1>0, <2>2, <2>3, FS_RemoveElement DEF n
  <2> QED BY <2>1, <2>2, <2>4, <2>5 DEF IdsDense
<1>3. ASSUME UNCHANGED <<subscribers, lifo, displaced>> PROVE IdsDense'
  BY <1>3 DEF IdsDense
<1>4. ASSUME NEW s \in Subscriptions, DropSubscription(s) \/ Recv(s) \/ RecvLagged(s)
      PROVE  UNCHANGED <<subscribers, lifo, displaced>>
  BY <1>4 DEF DropSubscription, Recv, RecvLagged
<1>5. ASSUME NEW t \in Tasks, IncSequence(t) \/ NotifySync(t) \/ NotifyBegin(t) \/ NotifySend(t)
      PROVE  UNCHANGED <<subscribers, lifo, displaced>>
  BY <1>5 DEF IncSequence, NotifySync, Prepare, NotifyBegin, NotifySend, history
<1>6. CASE UNCHANGED vars
  BY <1>3, <1>6 DEF vars, history
<1>7. CASE ~lifo'
  BY <1>7 DEF IdsDense
<1> QED BY <1>1, <1>2, <1>3, <1>4, <1>5, <1>6, <1>7 DEF Next


(* ------------------------ events and their numbers ----------------------- *)

\* What an event that is sent or being published is.
LEMMA EventsAre ==
  ASSUME NotifierType, EntriesInStep
  PROVE  /\ Events \subseteq Event
         /\ \A s \in Subscriptions : \A i \in DOMAIN sent[s] : sent[s][i] \in Events
         /\ \A t \in Tasks : pc[t] # "idle" => event[t] \in Events
<1>1. \A s \in Subscriptions : \A i \in DOMAIN sent[s] : sent[s][i] \in Event
  BY DEF NotifierType
<1>2. \A s \in Subscriptions : \A i \in DOMAIN sent[s] : sent[s][i] \in Events
  BY DEF Events, Range
<1>3. \A t \in Tasks : pc[t] # "idle" => event[t] \in Events
  BY DEF Events
<1>4. Events \subseteq Event
  BY <1>1 DEF Events, Range, EntriesInStep
<1> QED BY <1>2, <1>3, <1>4

\* A delivery appends to what was sent to one subscription, unless it was dropped.
LEMMA DeliverSent ==
  ASSUME NotifierType, NEW s \in Subscriptions, NEW e \in Event, Deliver(s, e)
  PROVE  /\ \A r \in Subscriptions : r # s => sent'[r] = sent[r]
         /\ sent'[s] = sent[s] \/ sent'[s] = Append(sent[s], e)
BY DEF Deliver, NotifierType

\* The elements of a sequence and of what it is after an append.
LEMMA AppendElements ==
  ASSUME NEW T, NEW q \in Seq(T), NEW e \in T
  PROVE  /\ Len(Append(q, e)) = Len(q) + 1 /\ Len(q) \in Nat /\ DOMAIN q = 1..Len(q)
         /\ DOMAIN Append(q, e) = 1..(Len(q) + 1) /\ Append(q, e) \in Seq(T)
         /\ \A i \in DOMAIN q : Append(q, e)[i] = q[i]
         /\ Append(q, e)[Len(q) + 1] = e
OBVIOUS

\* A step adds no event, or one with the next number of the publications.
LEMMA EventsStep ==
  ASSUME NotifierType, EntriesInStep, [Next]_vars
  PROVE  \/ Events' \subseteq Events /\ sequence' = sequence /\ published' = published
         \/ \E t \in Tasks, q \in Nat :
              /\ Events' \subseteq Events \cup {[seq |-> q, task |-> t, n |-> published + 1]}
              /\ published' = published + 1 /\ sequence <= sequence' /\ sequence' \in Nat
              /\ q <= sequence' /\ (q # 0 => q > sequence)
<1>1. ASSUME UNCHANGED <<sent, event, pc, sequence, published>>
      PROVE  Events' \subseteq Events /\ sequence' = sequence /\ published' = published
  BY <1>1 DEF Events, Range
<1>2. ASSUME NEW s \in Subscriptions,
             Subscribe(s) \/ Unsubscribe(s) \/ Recv(s) \/ RecvLagged(s)
      PROVE  UNCHANGED <<sent, event, pc, sequence, published>>
  BY <1>2 DEF Subscribe, Unsubscribe, Recv, RecvLagged, tasks
<1>3. ASSUME NEW s \in Subscriptions, DropSubscription(s)
      PROVE  Events' \subseteq Events /\ sequence' = sequence /\ published' = published
  <2>1. /\ sent' = [sent EXCEPT ![s] = <<>>]
        /\ UNCHANGED <<event, pc, sequence, published>>
    BY <1>3 DEF DropSubscription, tasks
  <2>2. \A r \in Subscriptions : Range(sent'[r]) \subseteq Range(sent[r])
    BY <2>1 DEF NotifierType, Range
  <2> QED BY <2>1, <2>2 DEF Events
<1>4. ASSUME NEW t \in Tasks, NotifyBegin(t)
      PROVE  Events' \subseteq Events /\ sequence' = sequence /\ published' = published
  <2>1. /\ UNCHANGED <<sent, sequence, published>>
        /\ \A u \in Tasks : pc'[u] # "idle" => pc[u] # "idle" /\ event'[u] = event[u]
    BY <1>4 DEF NotifyBegin, history, NotifierType
  <2> QED BY <2>1 DEF Events
<1>5. ASSUME NEW t \in Tasks, NotifySend(t)
      PROVE  Events' \subseteq Events /\ sequence' = sequence /\ published' = published
  <2>1. PICK i \in todo[t] :
          /\ i \in DOMAIN subscribers /\ subscribers[i] \in Subscriptions /\ event[t] \in Event
          /\ Deliver(subscribers[i], event[t])
          /\ todo' = [todo EXCEPT ![t] = todo[t] \ {i}]
          /\ pc' = [pc EXCEPT ![t] = IF todo[t] = {i} THEN "idle" ELSE "send"]
          /\ event' = [event EXCEPT ![t] = IF todo[t] = {i} THEN NoEvent ELSE event[t]]
    BY <1>5, SendEffect
  <2>2. UNCHANGED <<sequence, published>> /\ pc[t] = "send"
    BY <1>5 DEF NotifySend
  <2>3. \A u \in Tasks : pc'[u] # "idle" => pc[u] # "idle" /\ event'[u] = event[u]
    BY <2>1, <2>2 DEF NotifierType
  <2>4. event[t] \in Events
    BY <2>2, EventsAre
  <2>5. \A r \in Subscriptions : Range(sent'[r]) \subseteq Range(sent[r]) \cup {event[t]}
    <3> SUFFICES ASSUME NEW r \in Subscriptions
                 PROVE  Range(sent'[r]) \subseteq Range(sent[r]) \cup {event[t]}
      OBVIOUS
    <3>1. sent[r] \in Seq(Event)
      BY DEF NotifierType
    <3>2. sent'[r] = sent[r] \/ sent'[r] = Append(sent[r], event[t])
      BY <2>1, DeliverSent
    <3>3. Range(Append(sent[r], event[t])) \subseteq Range(sent[r]) \cup {event[t]}
      BY <2>1, <3>1, AppendElements DEF Range
    <3> QED BY <3>2, <3>3
  <2> QED BY <2>2, <2>3, <2>4, <2>5 DEF Events
<1>6. ASSUME NEW t \in Tasks, IncSequence(t) \/ NotifySync(t)
      PROVE  \E q \in Nat :
              /\ Events' \subseteq Events \cup {[seq |-> q, task |-> t, n |-> published + 1]}
              /\ published' = published + 1 /\ sequence <= sequence' /\ sequence' \in Nat
              /\ q <= sequence' /\ (q # 0 => q > sequence)
  <2>1. PICK q \in Nat : /\ Prepare(t, q) /\ sequence' \in Nat /\ sequence <= sequence' /\ q <= sequence'
                         /\ q # 0 => q > sequence
    BY <1>6, PrepareEffect
  <2> DEFINE e == [seq |-> q, task |-> t, n |-> published + 1]
  <2>2. /\ published' = published + 1 /\ sent' = sent
        /\ event' = [event EXCEPT ![t] = e] /\ pc' = [pc EXCEPT ![t] = "publish"]
    BY <2>1 DEF Prepare
  <2> HIDE DEF e
  <2>3. \A u \in Tasks : pc'[u] # "idle" => event'[u] = e \/ (pc[u] # "idle" /\ event'[u] = event[u])
    BY <2>2 DEF NotifierType
  <2>4. Events' \subseteq Events \cup {e}
    BY <2>2, <2>3 DEF Events
  <2> QED BY <2>1, <2>2, <2>4 DEF e
<1>7. CASE UNCHANGED vars
  BY <1>1, <1>7 DEF vars, tasks, history
<1> QED BY <1>1, <1>2, <1>3, <1>4, <1>5, <1>6, <1>7 DEF Next

\* No number is given to two events, and none is ahead of the counters.
LEMMA NumbersKept ==
  ASSUME NotifierType, EntriesInStep, EventsKnown, SeqsUnique, [Next]_vars
  PROVE  EventsKnown' /\ SeqsUnique'
<1>1. Events \subseteq Event /\ sequence \in Nat /\ published \in Nat
  BY EventsAre DEF NotifierType
<1>2. CASE Events' \subseteq Events /\ sequence' = sequence /\ published' = published
  BY <1>2 DEF EventsKnown, SeqsUnique
<1>3. ASSUME NEW t \in Tasks, NEW q \in Nat,
             Events' \subseteq Events \cup {[seq |-> q, task |-> t, n |-> published + 1]},
             published' = published + 1, sequence <= sequence', sequence' \in Nat,
             q <= sequence', q # 0 => q > sequence
      PROVE  EventsKnown' /\ SeqsUnique'
  <2> DEFINE e == [seq |-> q, task |-> t, n |-> published + 1]
  <2>1. e.seq = q /\ e.n = published + 1
    OBVIOUS
  <2>2. \A d \in Events : d.seq \in Nat /\ d.n \in Nat /\ d.seq <= sequence /\ d.n <= published
    BY <1>1 DEF EventsKnown, Event
  <2>3. Events' \subseteq Events \cup {e}
    BY <1>3
  <2> HIDE DEF e
  <2>4. EventsKnown'
    BY <1>1, <1>3, <2>1, <2>2, <2>3 DEF EventsKnown
  <2>5. \A d \in Events : d.seq # 0 => d.seq # e.seq
    BY <1>1, <1>3, <2>1, <2>2
  <2>6. SeqsUnique'
    BY <2>3, <2>5 DEF SeqsUnique
  <2> QED BY <2>4, <2>6
<1> QED BY <1>2, <1>3, EventsStep


(* ------------------------- the order of one task ------------------------- *)

\* What is sent to a subscription by one task is sent in the order in which the
\* task published it.
LEMMA OrderKept ==
  ASSUME NotifierType, EntriesInStep, EventsKnown, PublishedInOrder, [Next]_vars
  PROVE  PublishedInOrder'
<1>1. ASSUME NEW s \in Subscriptions, Recv(s) \/ RecvLagged(s) PROVE PublishedInOrder'
  <2>1. UNCHANGED <<sent, pc, event, todo, subscribers>>
    BY <1>1 DEF Recv, RecvLagged, tasks
  <2> QED BY <2>1 DEF PublishedInOrder, Fresh
<1>2. ASSUME NEW s \in Subscriptions, Subscribe(s) \/ Unsubscribe(s) PROVE PublishedInOrder'
  <2>1. UNCHANGED <<sent, pc, event, todo>> /\ NoReader
    BY <1>2 DEF Subscribe, Unsubscribe, tasks
  <2>2. \A t \in Tasks : pc'[t] # "send"
    BY <2>1 DEF NoReader
  <2> QED BY <2>1, <2>2 DEF PublishedInOrder, Fresh
<1>3. ASSUME NEW s \in Subscriptions, DropSubscription(s) PROVE PublishedInOrder'
  <2>1. sent' = [sent EXCEPT ![s] = <<>>] /\ UNCHANGED <<pc, event, todo, subscribers>>
    BY <1>3 DEF DropSubscription, tasks
  <2>2. \A r \in Subscriptions : \A i \in DOMAIN sent'[r] : i \in DOMAIN sent[r] /\ sent'[r][i] = sent[r][i]
    BY <2>1 DEF NotifierType
  <2>3. \A r \in Subscriptions : \A e : Fresh(r, e) => Fresh(r, e)'
    BY <2>2 DEF Fresh
  <2>4. \A t \in Tasks : pc[t] = "send" => \A i \in todo[t] : subscribers[i] \in Subscriptions
    BY DEF EntriesInStep, NotifierType
  <2>5. \A r \in Subscriptions : \A i, j \in DOMAIN sent'[r] : i < j => After(sent'[r][i], sent'[r][j])
    BY <2>2 DEF PublishedInOrder
  <2> QED BY <2>1, <2>2, <2>3, <2>4, <2>5 DEF PublishedInOrder, Fresh
<1>4. ASSUME NEW t \in Tasks, IncSequence(t) \/ NotifySync(t) PROVE PublishedInOrder'
  <2>1. PICK q \in Nat : /\ Prepare(t, q) /\ sequence' \in Nat /\ sequence <= sequence' /\ q <= sequence'
                         /\ q # 0 => q > sequence
    BY <1>4, PrepareEffect
  <2> DEFINE e == [seq |-> q, task |-> t, n |-> published + 1]
  <2>2. /\ UNCHANGED <<sent, todo, subscribers>>
        /\ event' = [event EXCEPT ![t] = e] /\ pc' = [pc EXCEPT ![t] = "publish"]
    BY <2>1 DEF Prepare
  <2>3. e.seq = q /\ e.n = published + 1 /\ published \in Nat /\ sequence \in Nat
    BY DEF NotifierType
  <2> HIDE DEF e
  <2>4. \A s \in Subscriptions : \A i \in DOMAIN sent[s] : After(sent[s][i], e)
    <3> SUFFICES ASSUME NEW s \in Subscriptions, NEW i \in DOMAIN sent[s] PROVE After(sent[s][i], e)
      OBVIOUS
    <3> DEFINE d == sent[s][i]
    <3>1. d \in Events /\ d \in Event
      BY EventsAre
    <3>2. d.seq \in Nat /\ d.n \in Nat /\ d.seq <= sequence /\ d.n <= published
      BY <3>1 DEF EventsKnown, Event
    <3> HIDE DEF d
    <3>3. After(d, e)
      BY <2>1, <2>3, <3>2 DEF After
    <3> QED BY <3>3 DEF d
  <2>5. ASSUME NEW u \in Tasks PROVE IF u = t THEN pc'[u] = "publish" /\ event'[u] = e
                                              ELSE pc'[u] = pc[u] /\ event'[u] = event[u]
    BY <2>2 DEF NotifierType
  <2> QED BY <2>2, <2>4, <2>5 DEF PublishedInOrder, Fresh
<1>5. ASSUME NEW t \in Tasks, NotifyBegin(t) PROVE PublishedInOrder'
  <2>1. /\ UNCHANGED <<sent, subscribers>> /\ pc[t] = "publish" /\ todo'[t] = DOMAIN subscribers
        /\ \A u \in Tasks : u # t => pc'[u] = pc[u] /\ event'[u] = event[u] /\ todo'[u] = todo[u]
        /\ pc'[t] # "idle" => pc'[t] = "send" /\ event'[t] = event[t]
        /\ pc'[t] # "publish"
    BY <1>5 DEF NotifyBegin, history, NotifierType
  <2>2. \A i \in DOMAIN subscribers : subscribers[i] \in Subscriptions
    BY DEF NotifierType
  <2>3. \A i \in DOMAIN subscribers : Fresh(subscribers[i], event[t])
    BY <2>1, <2>2 DEF PublishedInOrder
  <2> QED BY <2>1, <2>3 DEF PublishedInOrder, Fresh
<1>6. ASSUME NEW t \in Tasks, NotifySend(t) PROVE PublishedInOrder'
  <2>1. PICK i \in todo[t] :
          /\ i \in DOMAIN subscribers /\ subscribers[i] \in Subscriptions /\ event[t] \in Event
          /\ Deliver(subscribers[i], event[t])
          /\ todo' = [todo EXCEPT ![t] = todo[t] \ {i}]
          /\ pc' = [pc EXCEPT ![t] = IF todo[t] = {i} THEN "idle" ELSE "send"]
          /\ event' = [event EXCEPT ![t] = IF todo[t] = {i} THEN NoEvent ELSE event[t]]
    BY <1>6, SendEffect
  <2> DEFINE s == subscribers[i]
             e == event[t]
  <2>2. subscribers' = subscribers /\ pc[t] = "send" /\ e.task = t /\ Fresh(s, e)
    BY <1>6, <2>1 DEF NotifySend, EntriesInStep, PublishedInOrder
  <2>3. /\ \A r \in Subscriptions : r # s => sent'[r] = sent[r]
        /\ sent'[s] = sent[s] \/ sent'[s] = Append(sent[s], e)
    BY <2>1, DeliverSent
  <2>4. /\ \A u \in Tasks : u # t => pc'[u] = pc[u] /\ event'[u] = event[u] /\ todo'[u] = todo[u]
        /\ pc'[t] # "idle" => pc'[t] = "send" /\ event'[t] = event[t]
        /\ pc'[t] # "publish" /\ todo'[t] = todo[t] \ {i}
    BY <2>1 DEF NotifierType
  <2>5. s \in Subscriptions /\ e \in Event /\ sent[s] \in Seq(Event)
    BY <2>1 DEF NotifierType
  <2> HIDE DEF e, s
  <2>6. \A j \in DOMAIN sent'[s] : \/ j \in DOMAIN sent[s] /\ sent'[s][j] = sent[s][j]
                                   \/ j = Len(sent[s]) + 1 /\ sent'[s][j] = e
    BY <2>3, <2>5, AppendElements
  <2>8. ASSUME NEW r \in Subscriptions, NEW j \in DOMAIN sent'[r], NEW k \in DOMAIN sent'[r], j < k
        PROVE  After(sent'[r][j], sent'[r][k])
    <3>1. CASE r # s
      BY <2>3, <2>8, <3>1 DEF PublishedInOrder
    <3>2. CASE r = s
      <4>1. DOMAIN sent[s] = 1..Len(sent[s]) /\ Len(sent[s]) \in Nat
        BY <2>5
      <4>2. j \in DOMAIN sent[s] /\ sent'[s][j] = sent[s][j]
        BY <2>6, <2>8, <3>2, <4>1
      <4>3. CASE k \in DOMAIN sent[s] /\ sent'[s][k] = sent[s][k]
        BY <2>5, <2>8, <3>2, <4>2, <4>3 DEF PublishedInOrder
      <4>4. CASE sent'[s][k] = e
        BY <2>2, <3>2, <4>2, <4>4 DEF Fresh
      <4> QED BY <2>6, <2>8, <3>2, <4>3, <4>4
    <3> QED BY <3>1, <3>2
  <2>9. ASSUME NEW u \in Tasks, pc'[u] = "publish", NEW r \in Subscriptions PROVE Fresh(r, event[u])' 
    <3>1. u # t /\ pc[u] = "publish" /\ event'[u] = event[u] /\ event[u].task = u
      BY <2>4, <2>9 DEF EntriesInStep
    <3> DEFINE f == event[u]
    <3>2. f.task # t /\ Fresh(r, f)
      BY <3>1 DEF PublishedInOrder
    <3> HIDE DEF f
    <3>3. \A k \in DOMAIN sent'[r] : After(sent'[r][k], f)
      BY <2>2, <2>3, <2>6, <3>2 DEF Fresh, After
    <3> QED BY <3>1, <3>3 DEF f, Fresh
  <2>10. ASSUME NEW u \in Tasks, pc'[u] = "send", NEW j \in todo'[u] PROVE Fresh(subscribers[j], event[u])'
    <3>1. pc[u] = "send" /\ j \in todo[u] /\ event'[u] = event[u] /\ event[u].task = u /\ (u = t => j # i)
      BY <2>2, <2>4, <2>10 DEF EntriesInStep
    <3>2. j \in DOMAIN subscribers /\ subscribers[j] \in Subscriptions /\ Fresh(subscribers[j], event[u])
      BY <3>1 DEF EntriesInStep, NotifierType, PublishedInOrder
    <3> DEFINE f == event[u]
               r == subscribers[j]
    <3>3. f.task # t \/ r # s
      BY <2>1, <3>1, <3>2 DEF s, EntriesInStep
    <3>4. r \in Subscriptions /\ Fresh(r, f) /\ r = subscribers'[j] /\ f = event'[u]
      BY <2>2, <3>1, <3>2
    <3> HIDE DEF f, r
    <3>5. \A k \in DOMAIN sent'[r] : After(sent'[r][k], f)
      BY <2>2, <2>3, <2>6, <3>3, <3>4 DEF Fresh, After
    <3> QED BY <3>4, <3>5 DEF Fresh
  <2> QED BY <2>8, <2>9, <2>10 DEF PublishedInOrder
<1>7. CASE UNCHANGED vars
  BY <1>7 DEF vars, tasks, history, PublishedInOrder, Fresh
<1> QED BY <1>1, <1>2, <1>3, <1>4, <1>5, <1>6, <1>7 DEF Next


(* -------------------------------- streams -------------------------------- *)

Distinct(S) == \A p, q \in 1..Len(S) : S[p] = S[q] => p = q

\* Events in the order of their publication are different.
LEMMA OrderedIsDistinct ==
  ASSUME NEW S \in Seq(Event), \A i, j \in DOMAIN S : i < j => After(S[i], S[j])
  PROVE  Distinct(S)
<1>2. ASSUME NEW i \in 1..Len(S), NEW j \in 1..Len(S), i < j PROVE S[i] # S[j]
  <2>1. S[i] \in Event /\ S[j] \in Event /\ After(S[i], S[j])
    BY <1>2
  <2> QED BY <2>1 DEF After, Event
<1>3. Len(S) \in Nat
  OBVIOUS
<1> QED BY <1>2, <1>3 DEF Distinct

\* A subscription is sent no event twice.
LEMMA SentDistinct ==
  ASSUME NotifierType, PublishedInOrder, NEW s \in Subscriptions
  PROVE  Distinct(sent[s])
<1>1. sent[s] \in Seq(Event) /\ \A i, j \in DOMAIN sent[s] : i < j => After(sent[s][i], sent[s][j])
  BY DEF NotifierType, PublishedInOrder
<1> QED BY <1>1, OrderedIsDistinct

\* recv without a gap: the oldest event moves from the channel to what was heard.
LEMMA RecvKeepsStream ==
  ASSUME NEW S \in Seq(Event), NEW B \in Seq(Event), NEW H \in Seq(Event \cup {Missed}),
         Distinct(S), StreamOK(S, B, H, FALSE), B # <<>>
  PROVE  StreamOK(S, Tail(B), Append(H, Head(B)), FALSE)
<1> DEFINE C == Tail(B)
           e == Head(B)
           G == Append(H, e)
           g == Len(S) - Len(B)
<1>1. /\ Len(S) \in Nat /\ Len(B) \in Nat /\ Len(B) > 0 /\ Len(H) \in Nat /\ Len(B) <= Len(S)
      /\ g \in Nat /\ \A i \in 1..Len(B) : B[i] = S[g + i]
      /\ \A i \in 1..Len(S) : S[i] \in Event /\ S[i] # Missed
  BY DEF StreamOK, Newest
<1>2. Len(C) = Len(B) - 1 /\ \A i \in 1..Len(C) : C[i] = B[i + 1]
  OBVIOUS
<1>3. e = S[g + 1] /\ g + 1 \in 1..Len(S) /\ e \in Event /\ e # Missed
  BY <1>1
<1>4. /\ G \in Seq(Event \cup {Missed}) /\ Len(G) = Len(H) + 1 /\ G[Len(H) + 1] = e
      /\ \A i \in 1..Len(H) : G[i] = H[i]
  BY <1>3
<1>g. g = Len(S) - Len(B) /\ Len(S) - Len(C) = g + 1
  BY <1>1, <1>2
<1> HIDE DEF C, e, G, g
<1>5. Newest(S, C, FALSE)
  <2>1. \A i \in 1..Len(C) : C[i] = S[g + 1 + i]
    <3> SUFFICES ASSUME NEW i \in 1..Len(C) PROVE C[i] = S[g + 1 + i]
      OBVIOUS
    <3>1. i + 1 \in 1..Len(B) /\ g + (i + 1) = g + 1 + i /\ C[i] = B[i + 1]
      BY <1>1, <1>2
    <3>2. B[i + 1] = S[g + (i + 1)]
      BY <1>1, <3>1
    <3> QED BY <3>1, <3>2
  <2> QED BY <1>1, <1>2, <1>g, <2>1 DEF Newest, StreamOK
<1>6. ASSUME NEW j \in 1..Len(G), G[j] # Missed
      PROVE  /\ \E q \in 1..(g + 1) : S[q] = G[j]
             /\ j = 1 => G[j] = S[1]
             /\ \A i \in 1..(j - 1) : \A p, q \in 1..Len(S) :
                  S[p] = G[i] /\ S[q] = G[j] => p < q /\ (i = j - 1 => q = p + 1)
  <2>1. CASE j \in 1..Len(H)
    <3>1. G[j] = H[j] /\ \A i \in 1..(j - 1) : G[i] = H[i]
      BY <1>1, <1>4, <2>1
    <3>2. /\ \E q \in 1..g : S[q] = H[j]
          /\ j = 1 => H[j] = S[1]
          /\ \A i \in 1..(j - 1) : \A p, q \in 1..Len(S) :
               S[p] = H[i] /\ S[q] = H[j] => p < q /\ (i = j - 1 => q = p + 1)
      BY <1>6, <1>g, <2>1, <3>1 DEF StreamOK, InOrder
    <3>3. 1..g \subseteq 1..(g + 1)
      BY <1>1
    <3> QED BY <3>1, <3>2, <3>3
  <2>2. CASE j = Len(H) + 1
    <3>1. G[j] = S[g + 1]
      BY <1>3, <1>4, <2>2
    <3>2. \E q \in 1..(g + 1) : S[q] = G[j]
      BY <1>1, <3>1
    <3>3. ASSUME j = 1 PROVE G[j] = S[1]
      <4>1. H = <<>>
        BY <1>1, <2>2, <3>3
      <4>2. g = 0
        BY <1>1, <1>g, <4>1 DEF StreamOK, UpToDate
      <4> QED BY <3>1, <4>2
    <3>4. ASSUME NEW i \in 1..(j - 1), NEW p \in 1..Len(S), NEW q \in 1..Len(S), S[p] = G[i], S[q] = G[j]
          PROVE  p < q /\ (i = j - 1 => q = p + 1)
      <4>1. q = g + 1
        BY <1>3, <3>1, <3>4 DEF Distinct
      <4>2. i \in 1..Len(H) /\ G[i] = H[i] /\ H[i] # Missed
        BY <1>1, <1>4, <2>2, <3>4
      <4>3. PICK r \in 1..g : S[r] = H[i]
        BY <1>g, <4>2 DEF StreamOK, InOrder
      <4>4. r \in 1..Len(S)
        BY <1>1, <1>3
      <4>5. p = r
        BY <3>4, <4>2, <4>3, <4>4 DEF Distinct
      <4>6. ASSUME i = j - 1 PROVE p = g
        <5>1. i = Len(H) /\ H # <<>>
          BY <1>1, <2>2, <4>2, <4>6
        <5>2. g >= 1 /\ H[i] = S[g]
          BY <1>1, <1>g, <4>2, <5>1 DEF StreamOK, UpToDate
        <5> QED BY <1>1, <1>3, <3>4, <4>2, <5>2 DEF Distinct
      <4> QED BY <1>1, <4>1, <4>3, <4>5, <4>6
    <3> QED BY <3>2, <3>3, <3>4
  <2> QED BY <1>1, <1>4, <2>1, <2>2
<1>7. InOrder(S, C, G)
  BY <1>6, <1>g DEF InOrder
<1>8. UpToDate(S, C, G, FALSE)
  <2>1. G # <<>> /\ G[Len(G)] = e
    BY <1>1, <1>4
  <2> QED BY <1>1, <1>3, <1>g, <2>1 DEF UpToDate
<1> QED BY <1>5, <1>7, <1>8 DEF StreamOK, C, G, e

\* recv after an overflow: the gap is reported, and the channel is not empty.
LEMMA LagKeepsStream ==
  ASSUME NEW S \in Seq(Event), NEW B \in Seq(Event), NEW H \in Seq(Event \cup {Missed}),
         StreamOK(S, B, H, TRUE)
  PROVE  StreamOK(S, B, Append(H, Missed), FALSE)
<1> DEFINE G == Append(H, Missed)
<1>1. /\ Len(G) = Len(H) + 1 /\ G[Len(H) + 1] = Missed /\ Len(H) \in Nat
      /\ \A i \in 1..Len(H) : G[i] = H[i]
  OBVIOUS
<1>2. Len(B) = BufferSize /\ B # <<>>
  BY DEF StreamOK, Newest
<1> HIDE DEF G
<1>3. Newest(S, B, FALSE)
  BY DEF StreamOK, Newest
<1>4. InOrder(S, B, G)
  <2> SUFFICES ASSUME NEW j \in 1..Len(G), G[j] # Missed
               PROVE  /\ \E q \in 1..(Len(S) - Len(B)) : S[q] = G[j]
                      /\ j = 1 => G[j] = S[1]
                      /\ \A i \in 1..(j - 1) : \A p, q \in 1..Len(S) :
                           S[p] = G[i] /\ S[q] = G[j] => p < q /\ (i = j - 1 => q = p + 1)
    BY DEF InOrder
  <2>1. j \in 1..Len(H) /\ G[j] = H[j] /\ \A i \in 1..(j - 1) : G[i] = H[i]
    BY <1>1
  <2> QED BY <2>1 DEF InOrder, StreamOK
<1>5. UpToDate(S, B, G, FALSE)
  <2>1. G # <<>> /\ G[Len(G)] = Missed
    BY <1>1
  <2> QED BY <1>2, <2>1 DEF UpToDate
<1> QED BY <1>3, <1>4, <1>5 DEF StreamOK, G

\* What was heard stays in order when an event is sent that was not sent before.
LEMMA SendKeepsOrder ==
  ASSUME NEW S \in Seq(Event), NEW B \in Seq(Event), NEW C \in Seq(Event),
         NEW H \in Seq(Event \cup {Missed}), NEW e \in Event, InOrder(S, B, H),
         Distinct(Append(S, e)), Len(B) <= Len(S),
         Len(C) \in {Len(B), Len(B) + 1}
  PROVE  InOrder(Append(S, e), C, H)
<1> DEFINE R == Append(S, e)
<1>1. /\ Len(R) = Len(S) + 1 /\ R[Len(S) + 1] = e /\ Len(S) \in Nat /\ Len(B) \in Nat /\ Len(C) \in Nat
      /\ \A i \in 1..Len(S) : R[i] = S[i]
  OBVIOUS
<1>2. Distinct(R)
  OBVIOUS
<1> HIDE DEF R
<1>3. ASSUME NEW i \in 1..Len(H), NEW p \in 1..Len(R), R[p] = H[i], H[i] # Missed PROVE p \in 1..Len(S) /\ S[p] = H[i]
  <2>1. PICK q \in 1..(Len(S) - Len(B)) : S[q] = H[i]
    BY <1>3 DEF InOrder
  <2>2. q \in 1..Len(S) /\ q \in 1..Len(R)
    BY <1>1
  <2>3. R[q] = R[p]
    BY <1>1, <1>3, <2>1, <2>2
  <2> QED BY <1>2, <2>1, <2>2, <2>3 DEF Distinct
<1>4. ASSUME NEW i \in 1..Len(R) PROVE R[i] # Missed
  BY <1>1
<1> SUFFICES ASSUME NEW j \in 1..Len(H), H[j] # Missed
             PROVE  /\ \E q \in 1..(Len(R) - Len(C)) : R[q] = H[j]
                    /\ j = 1 => H[j] = R[1]
                    /\ \A i \in 1..(j - 1) : \A p, q \in 1..Len(R) :
                         R[p] = H[i] /\ R[q] = H[j] => p < q /\ (i = j - 1 => q = p + 1)
  BY DEF InOrder, R
<1>5. PICK q \in 1..(Len(S) - Len(B)) : S[q] = H[j]
  BY DEF InOrder
<1>6. q \in 1..(Len(R) - Len(C)) /\ q \in 1..Len(S) /\ R[q] = H[j] /\ 1 \in 1..Len(S)
  BY <1>1, <1>5
<1>7. j = 1 => H[j] = R[1]
  BY <1>1, <1>6 DEF InOrder
<1>8. ASSUME NEW i \in 1..(j - 1), NEW p \in 1..Len(R), NEW r \in 1..Len(R), R[p] = H[i], R[r] = H[j]
      PROVE  p < r /\ (i = j - 1 => r = p + 1)
  <2>1. i \in 1..Len(H) /\ H[i] # Missed
    BY <1>4, <1>8
  <2>2. p \in 1..Len(S) /\ S[p] = H[i] /\ r \in 1..Len(S) /\ S[r] = H[j]
    BY <1>3, <1>8, <2>1
  <2>3. \A k \in 1..(j - 1) : \A x, y \in 1..Len(S) :
          S[x] = H[k] /\ S[y] = H[j] => x < y /\ (k = j - 1 => y = x + 1)
    BY DEF InOrder
  <2> QED BY <2>2, <2>3
<1> QED BY <1>6, <1>7, <1>8

\* A send appends to the channel, and to a full one in place of its oldest event,
\* which is then a gap to report.
LEMMA SendKeepsStream ==
  ASSUME NEW S \in Seq(Event), NEW B \in Seq(Event), NEW H \in Seq(Event \cup {Missed}),
         NEW L \in BOOLEAN, NEW e \in Event, Distinct(Append(S, e)), StreamOK(S, B, H, L)
  PROVE  StreamOK(Append(S, e), IF Len(B) < BufferSize THEN Append(B, e) ELSE Append(Tail(B), e),
                  H, L \/ Len(B) = BufferSize)
<1> DEFINE R == Append(S, e)
<1>1. /\ Len(R) = Len(S) + 1 /\ R[Len(S) + 1] = e /\ Len(S) \in Nat /\ Len(B) \in Nat
      /\ \A i \in 1..Len(S) : R[i] = S[i]
  OBVIOUS
<1>2. /\ Len(B) <= Len(S) /\ Len(B) <= BufferSize /\ (L => Len(B) = BufferSize)
      /\ \A i \in 1..Len(B) : B[i] = S[Len(S) - Len(B) + i]
  BY DEF StreamOK, Newest
<1>3. Distinct(Append(S, e)) /\ InOrder(S, B, H) /\ UpToDate(S, B, H, L)
  BY DEF StreamOK
<1>4. CASE Len(B) < BufferSize
  <2> DEFINE C == Append(B, e)
  <2>1. C \in Seq(Event) /\ Len(C) = Len(B) + 1 /\ C[Len(B) + 1] = e /\ \A i \in 1..Len(B) : C[i] = B[i]
    OBVIOUS
  <2>2. L = FALSE /\ Len(B) # BufferSize
    BY <1>1, <1>2, <1>4
  <2> HIDE DEF C
  <2>3. InOrder(R, C, H)
    BY <1>2, <1>3, <2>1, SendKeepsOrder
  <2> HIDE DEF R
  <2>4. Len(R) - Len(C) = Len(S) - Len(B)
    BY <1>1, <2>1
  <2>5. \A i \in 1..Len(C) : C[i] = R[Len(S) - Len(B) + i]
    <3> SUFFICES ASSUME NEW i \in 1..Len(C) PROVE C[i] = R[Len(S) - Len(B) + i]
      OBVIOUS
    <3>1. CASE i \in 1..Len(B)
      <4>1. Len(S) - Len(B) + i \in 1..Len(S)
        BY <1>1, <1>2, <3>1
      <4> QED BY <1>1, <1>2, <2>1, <3>1, <4>1
    <3>2. CASE i = Len(B) + 1
      <4>1. Len(S) - Len(B) + i = Len(S) + 1
        BY <1>1, <3>2
      <4> QED BY <1>1, <2>1, <3>2, <4>1
    <3> QED BY <1>1, <2>1, <3>1, <3>2
  <2>6. Newest(R, C, FALSE)
    BY <1>1, <1>2, <1>4, <2>1, <2>4, <2>5 DEF Newest
  <2>7. UpToDate(R, C, H, FALSE)
    <3>1. C # <<>>
      BY <1>1, <2>1
    <3>2. ASSUME H # <<>>, H[Len(H)] # Missed PROVE Len(R) > Len(C) /\ H[Len(H)] = R[Len(R) - Len(C)]
      <4>1. Len(S) > Len(B) /\ H[Len(H)] = S[Len(S) - Len(B)]
        BY <1>3, <2>2, <3>2 DEF UpToDate
      <4>2. Len(S) - Len(B) \in 1..Len(S)
        BY <1>1, <4>1
      <4> QED BY <1>1, <2>1, <2>4, <4>1, <4>2
    <3>3. H = <<>> => Len(R) = Len(C)
      BY <1>1, <1>3, <2>1, <2>2 DEF UpToDate
    <3> QED BY <3>1, <3>2, <3>3 DEF UpToDate
  <2>8. StreamOK(R, C, H, FALSE)
    BY <2>3, <2>6, <2>7 DEF StreamOK
  <2> QED BY <1>4, <2>2, <2>8 DEF R, C
<1>5. CASE Len(B) = BufferSize
  <2> DEFINE T == Tail(B)
             C == Append(T, e)
  <2>1. B # <<>> /\ Len(B) > 0
    BY <1>1, <1>5
  <2>2. T \in Seq(Event) /\ Len(T) = Len(B) - 1 /\ \A i \in 1..Len(T) : T[i] = B[i + 1]
    BY <2>1
  <2> HIDE DEF T
  <2>3. C \in Seq(Event) /\ Len(C) = Len(B) /\ C[Len(B)] = e /\ \A i \in 1..(Len(B) - 1) : C[i] = B[i + 1]
    BY <1>1, <2>1, <2>2
  <2> HIDE DEF C
  <2>4. InOrder(R, C, H)
    BY <1>2, <1>3, <2>3, SendKeepsOrder
  <2> HIDE DEF R
  <2>5. Len(R) - Len(C) = Len(S) - Len(B) + 1
    BY <1>1, <2>3
  <2>6. \A i \in 1..Len(C) : C[i] = R[Len(S) - Len(B) + 1 + i]
    <3> SUFFICES ASSUME NEW i \in 1..Len(C) PROVE C[i] = R[Len(S) - Len(B) + 1 + i]
      OBVIOUS
    <3>1. CASE i \in 1..(Len(B) - 1)
      <4>1. i + 1 \in 1..Len(B) /\ Len(S) - Len(B) + (i + 1) \in 1..Len(S)
            /\ Len(S) - Len(B) + (i + 1) = Len(S) - Len(B) + 1 + i
        BY <1>1, <1>2, <3>1
      <4>2. B[i + 1] = S[Len(S) - Len(B) + (i + 1)]
        BY <1>2, <4>1
      <4> QED BY <1>1, <2>3, <3>1, <4>1, <4>2
    <3>2. CASE i = Len(B)
      <4>1. Len(S) - Len(B) + 1 + i = Len(S) + 1
        BY <1>1, <3>2
      <4> QED BY <1>1, <2>3, <3>2, <4>1
    <3> QED BY <1>1, <2>1, <2>3, <3>1, <3>2
  <2>7. Newest(R, C, TRUE)
    BY <1>1, <1>2, <1>5, <2>3, <2>5, <2>6 DEF Newest
  <2>8. C # <<>>
    BY <1>1, <2>1, <2>3
  <2>9. UpToDate(R, C, H, TRUE)
    BY <2>8 DEF UpToDate
  <2>10. StreamOK(R, C, H, TRUE)
    BY <2>4, <2>7, <2>9 DEF StreamOK
  <2>11. (L \/ Len(B) = BufferSize) = TRUE /\ ~(Len(B) < BufferSize)
    BY <1>5
  <2> QED BY <2>10, <2>11 DEF R, C, T
<1> QED BY <1>1, <1>2, <1>4, <1>5


\* Every step keeps what was sent, what is in the channel and what was heard of a
\* subscription in step.
LEMMA StreamKept ==
  ASSUME NotifierType, EntriesInStep, PublishedInOrder, StreamInv, [Next]_vars,
         NotifierType', PublishedInOrder'
  PROVE  StreamInv'
<1>1. ASSUME UNCHANGED <<sent, buffer, heard, lagged>> PROVE StreamInv'
  BY <1>1 DEF StreamInv
<1>2. ASSUME NEW s \in Subscriptions, Subscribe(s) \/ Unsubscribe(s) PROVE StreamInv'
  BY <1>1, <1>2 DEF Subscribe, Unsubscribe, channels
<1>3. ASSUME NEW t \in Tasks, IncSequence(t) \/ NotifySync(t) \/ NotifyBegin(t) PROVE StreamInv'
  BY <1>1, <1>3 DEF IncSequence, NotifySync, Prepare, NotifyBegin, channels, history
<1>4. ASSUME NEW s \in Subscriptions,
             \A r \in Subscriptions : r # s =>
               sent'[r] = sent[r] /\ buffer'[r] = buffer[r] /\ heard'[r] = heard[r] /\ lagged'[r] = lagged[r],
             StreamOK(sent'[s], buffer'[s], heard'[s], lagged'[s])
      PROVE  StreamInv'
  BY <1>4 DEF StreamInv
<1>5. ASSUME NEW s \in Subscriptions, DropSubscription(s) PROVE StreamInv'
  <2>1. /\ sent'[s] = <<>> /\ buffer'[s] = <<>> /\ heard'[s] = <<>> /\ lagged'[s] = FALSE
        /\ \A r \in Subscriptions : r # s =>
             sent'[r] = sent[r] /\ buffer'[r] = buffer[r] /\ heard'[r] = heard[r] /\ lagged'[r] = lagged[r]
    BY <1>5 DEF DropSubscription, NotifierType
  <2>2. StreamOK(<<>>, <<>>, <<>>, FALSE)
    BY DEF StreamOK, Newest, InOrder, UpToDate
  <2> QED BY <1>4, <2>1, <2>2
<1>6. ASSUME NEW s \in Subscriptions, Recv(s) PROVE StreamInv'
  <2>1. /\ buffer[s] # <<>> /\ lagged[s] = FALSE
        /\ sent'[s] = sent[s] /\ buffer'[s] = Tail(buffer[s]) /\ lagged'[s] = FALSE
        /\ heard'[s] = Append(heard[s], Head(buffer[s]))
        /\ \A r \in Subscriptions : r # s =>
             sent'[r] = sent[r] /\ buffer'[r] = buffer[r] /\ heard'[r] = heard[r] /\ lagged'[r] = lagged[r]
    BY <1>6 DEF Recv, NotifierType
  <2>2. sent[s] \in Seq(Event) /\ buffer[s] \in Seq(Event) /\ heard[s] \in Seq(Event \cup {Missed})
    BY DEF NotifierType
  <2>3. Distinct(sent[s]) /\ StreamOK(sent[s], buffer[s], heard[s], FALSE)
    BY <2>1, SentDistinct DEF StreamInv
  <2>4. StreamOK(sent'[s], buffer'[s], heard'[s], lagged'[s])
    BY <2>1, <2>2, <2>3, RecvKeepsStream
  <2> QED BY <1>4, <2>1, <2>4
<1>7. ASSUME NEW s \in Subscriptions, RecvLagged(s) PROVE StreamInv'
  <2>1. /\ lagged[s] = TRUE
        /\ sent'[s] = sent[s] /\ buffer'[s] = buffer[s] /\ lagged'[s] = FALSE
        /\ heard'[s] = Append(heard[s], Missed)
        /\ \A r \in Subscriptions : r # s =>
             sent'[r] = sent[r] /\ buffer'[r] = buffer[r] /\ heard'[r] = heard[r] /\ lagged'[r] = lagged[r]
    BY <1>7 DEF RecvLagged, NotifierType
  <2>2. sent[s] \in Seq(Event) /\ buffer[s] \in Seq(Event) /\ heard[s] \in Seq(Event \cup {Missed})
    BY DEF NotifierType
  <2>3. StreamOK(sent[s], buffer[s], heard[s], TRUE)
    BY <2>1 DEF StreamInv
  <2>4. StreamOK(sent'[s], buffer'[s], heard'[s], lagged'[s])
    BY <2>1, <2>2, <2>3, LagKeepsStream
  <2> QED BY <1>4, <2>1, <2>4
<1>8. ASSUME NEW t \in Tasks, NotifySend(t) PROVE StreamInv'
  <2>1. PICK i \in todo[t] :
          /\ i \in DOMAIN subscribers /\ subscribers[i] \in Subscriptions /\ event[t] \in Event
          /\ Deliver(subscribers[i], event[t])
          /\ todo' = [todo EXCEPT ![t] = todo[t] \ {i}]
          /\ pc' = [pc EXCEPT ![t] = IF todo[t] = {i} THEN "idle" ELSE "send"]
          /\ event' = [event EXCEPT ![t] = IF todo[t] = {i} THEN NoEvent ELSE event[t]]
    BY <1>8, SendEffect
  <2> DEFINE s == subscribers[i]
             e == event[t]
  <2>2. s \in Subscriptions /\ e \in Event /\ Deliver(s, e) /\ heard' = heard
    BY <1>8, <2>1 DEF NotifySend
  <2> HIDE DEF s, e
  <2>3. CASE status[s] = "dropped"
    BY <1>1, <2>2, <2>3 DEF Deliver, channels
  <2>4. CASE status[s] # "dropped"
    <3> DEFINE b == IF Len(buffer[s]) < BufferSize THEN Append(buffer[s], e) ELSE Append(Tail(buffer[s]), e)
               l == lagged[s] \/ Len(buffer[s]) = BufferSize
    <3>1. /\ sent' = [sent EXCEPT ![s] = Append(sent[s], e)]
          /\ buffer' = [buffer EXCEPT ![s] = b]
          /\ lagged' = [lagged EXCEPT ![s] = l]
      BY <2>2, <2>4 DEF Deliver
    <3>2. /\ sent[s] \in Seq(Event) /\ buffer[s] \in Seq(Event) /\ heard[s] \in Seq(Event \cup {Missed})
          /\ lagged[s] \in BOOLEAN
      BY <2>2 DEF NotifierType
    <3>3. sent'[s] = Append(sent[s], e)
      BY <2>2, <3>1 DEF NotifierType
    <3>4. Distinct(Append(sent[s], e))
      <4>1. Distinct(sent'[s])
        <5>1. \A j, k \in DOMAIN sent'[s] : j < k => After(sent'[s][j], sent'[s][k])
          BY <2>2 DEF PublishedInOrder
        <5>2. sent'[s] \in Seq(Event)
          BY <2>2 DEF NotifierType
        <5> QED BY <5>1, <5>2, OrderedIsDistinct
      <4> QED BY <3>3, <4>1
    <3>5. StreamOK(Append(sent[s], e), b, heard[s], l)
      <4>1. StreamOK(sent[s], buffer[s], heard[s], lagged[s])
        BY <2>2 DEF StreamInv
      <4> QED BY <2>2, <3>2, <3>4, <4>1, SendKeepsStream
    <3> HIDE DEF b, l
    <3>6. /\ buffer'[s] = b /\ lagged'[s] = l
          /\ \A r \in Subscriptions : r # s =>
               sent'[r] = sent[r] /\ buffer'[r] = buffer[r] /\ heard'[r] = heard[r] /\ lagged'[r] = lagged[r]
      BY <2>2, <3>1 DEF NotifierType
    <3> QED BY <1>4, <2>2, <3>3, <3>5, <3>6
  <2> QED BY <2>3, <2>4
<1>9. CASE UNCHANGED vars
  BY <1>1, <1>9 DEF vars, channels, history
<1> QED BY <1>2, <1>3, <1>5, <1>6, <1>7, <1>8, <1>9 DEF Next

(* -------------------------------- theorems ------------------------------- *)

\* The initial state satisfies every part of the inductive invariant.
LEMMA InitNotifierInv == Init => NotifierInv
<1> SUFFICES ASSUME Init PROVE NotifierInv
  OBVIOUS
<1>1. NotifierType /\ EntriesInStep /\ IdsDense
  BY TypeInit
<1>2. Events = {}
  BY DEF Init, Events, Range
<1>3. EventsKnown /\ SeqsUnique
  BY <1>2 DEF EventsKnown, SeqsUnique
<1>4. PublishedInOrder
  BY DEF Init, PublishedInOrder
<1>5. StreamOK(<<>>, <<>>, <<>>, FALSE)
  BY DEF StreamOK, Newest, InOrder, UpToDate
<1>6. StreamInv
  BY <1>5 DEF Init, StreamInv
<1> QED BY <1>1, <1>3, <1>4, <1>6 DEF NotifierInv

\* The inductive invariant of the notifier: entries, ids, numbers, order and streams
\* stay in step however publications, subscriptions and receivers interleave.
THEOREM NotifierInvariant == Spec => []NotifierInv
<1>1. NotifierInv /\ [Next]_vars => NotifierInv'
  <2> SUFFICES ASSUME NotifierInv, [Next]_vars PROVE NotifierInv'
    OBVIOUS
  <2>0. /\ NotifierType /\ EntriesInStep /\ IdsDense /\ EventsKnown /\ SeqsUnique
        /\ PublishedInOrder /\ StreamInv
    BY DEF NotifierInv
  <2>1. NotifierType' /\ EntriesInStep'
    BY <2>0, TypeKept
  <2>2. IdsDense'
    BY <2>0, IdsDenseKept
  <2>3. EventsKnown' /\ SeqsUnique'
    BY <2>0, NumbersKept
  <2>4. PublishedInOrder'
    BY <2>0, OrderKept
  <2>5. StreamInv'
    BY <2>0, <2>1, <2>4, StreamKept
  <2> QED BY <2>1, <2>2, <2>3, <2>4, <2>5 DEF NotifierInv
<1> QED BY <1>1, InitNotifierInv, PTL DEF Spec

\* Local events have different numbers, and a subscription is sent those of one
\* task in the order of their numbers (src/notify.rs, inc_sequence and notify).
THEOREM NumbersOrderEvents == Spec => []SequencesOrderATask
<1>1. NotifierInv => SequencesOrderATask
  <2> SUFFICES ASSUME NotifierInv PROVE SequencesOrderATask
    OBVIOUS
  <2>0. NotifierType /\ EntriesInStep /\ SeqsUnique /\ PublishedInOrder
    BY DEF NotifierInv
  <2>1. \A s \in Subscriptions : Range(sent[s]) \subseteq Events
    BY DEF Events
  <2>2. \A s, r \in Subscriptions : \A e \in Range(sent[s]), f \in Range(sent[r]) :
          (e.seq = f.seq /\ e.seq # 0) => e = f
    BY <2>0, <2>1 DEF SeqsUnique
  <2>3. \A s \in Subscriptions : \A i, j \in DOMAIN sent[s] :
          (i < j /\ sent[s][i].task = sent[s][j].task /\ 0 \notin {sent[s][i].seq, sent[s][j].seq})
            => sent[s][i].seq < sent[s][j].seq
    BY <2>0 DEF PublishedInOrder, After
  <2> QED BY <2>2, <2>3 DEF SequencesOrderATask
<1> QED BY <1>1, NotifierInvariant, PTL

\* Subscriptions given up in the reverse order of their making never take the
\* entry of another (src/notify.rs, subscribe's id from the length of the map).
THEOREM ReverseOrderIsSafe == Spec => []LastInFirstOutIsSafe
<1>1. NotifierInv => LastInFirstOutIsSafe
  BY DEF NotifierInv, IdsDense, LastInFirstOutIsSafe
<1> QED BY <1>1, NotifierInvariant, PTL

(* ------------------------------ no silent gap ---------------------------- *)

\* What a stream says of the events sent, stated without Place.
Reports(S, W) ==
  /\ \A i \in 1..Len(W) : W[i] # Missed =>
       /\ \E p \in 1..Len(S) : S[p] = W[i]
       /\ i = 1 => W[i] = S[1]
       /\ \A k \in 1..(i - 1) : \A p, q \in 1..Len(S) :
            S[p] = W[k] /\ S[q] = W[i] => p < q /\ (k = i - 1 => q = p + 1)
  /\ S # <<>> => W # <<>> /\ W[Len(W)] = S[Len(S)]

\* What was heard, the gap to report and the channel make up such a stream.
LEMMA StreamReports ==
  ASSUME NEW S \in Seq(Event), NEW B \in Seq(Event), NEW H \in Seq(Event \cup {Missed}),
         NEW L \in BOOLEAN, Distinct(S), StreamOK(S, B, H, L)
  PROVE  Reports(S, H \o (IF L THEN <<Missed>> ELSE <<>>) \o B)
<1> DEFINE M == IF L THEN <<Missed>> ELSE <<>>
           m == IF L THEN 1 ELSE 0
           W == H \o M \o B
           g == Len(S) - Len(B)
           h == Len(H)
<1>1. /\ Len(S) \in Nat /\ Len(B) \in Nat /\ h \in Nat /\ m \in {0, 1} /\ (m = 0 <=> ~L) /\ Len(B) <= Len(S)
      /\ g \in Nat /\ g = Len(S) - Len(B) /\ \A i \in 1..Len(B) : B[i] = S[g + i]
      /\ \A i \in 1..Len(S) : S[i] \in Event /\ S[i] # Missed
      /\ L => Len(B) > 0
  BY DEF StreamOK, Newest
<1>2. M \in Seq(Event \cup {Missed}) /\ Len(M) = m /\ (L => M[1] = Missed)
  <2>1. CASE L
    BY <2>1
  <2>2. CASE ~L
    BY <2>2
  <2> QED BY <2>1, <2>2
<1> HIDE DEF M
<1>3. /\ Len(W) = h + m + Len(B)
      /\ \A i \in 1..h : W[i] = H[i]
      /\ L => W[h + 1] = Missed
      /\ \A i \in 1..Len(B) : W[h + m + i] = B[i]
  <2>0. B \in Seq(Event \cup {Missed})
    OBVIOUS
  <2> DEFINE Q == H \o M
  <2>1. /\ Q \in Seq(Event \cup {Missed}) /\ Len(Q) = h + Len(M)
        /\ \A i \in 1..(h + Len(M)) : Q[i] = IF i <= h THEN H[i] ELSE M[i - h]
    BY <1>2, ConcatProperties
  <2>a. h \in Nat /\ m \in Nat /\ Len(Q) = h + m
    BY <1>1, <1>2, <2>1
  <2>2. \A i \in 1..h : Q[i] = H[i]
    BY <1>2, <2>1, <2>a
  <2>3. ASSUME L PROVE Q[h + 1] = Missed
    <3>1. m = 1 /\ h + 1 \in 1..(h + Len(M)) /\ ~(h + 1 <= h) /\ (h + 1) - h = 1
      BY <1>2, <2>a, <2>3
    <3>2. Q[h + 1] = M[(h + 1) - h]
      BY <2>1, <3>1
    <3> QED BY <1>2, <2>3, <3>1, <3>2
  <2> HIDE DEF Q
  <2>b. Len(Q \o B) = Len(Q) + Len(B) /\ Len(B) \in Nat
    BY <2>0, <2>1, <1>1, ConcatProperties
  <2>4. \A i \in 1..Len(Q) : (Q \o B)[i] = Q[i]
    BY <2>0, <2>1, <2>a, <2>b, ConcatProperties
  <2>5. \A i \in 1..Len(B) : (Q \o B)[Len(Q) + i] = B[i]
    BY <2>0, <2>1, <2>a, ConcatProperties
  <2>6. W = Q \o B
    BY DEF Q
  <2> HIDE DEF W, h, m
  <2>7. \A i \in 1..h : W[i] = H[i]
    BY <2>2, <2>4, <2>6, <2>a
  <2>8. ASSUME L PROVE W[h + 1] = Missed
    <3>1. h + 1 \in 1..Len(Q)
      BY <2>8, <2>a DEF m
    <3> QED BY <2>3, <2>4, <2>6, <2>8, <3>1
  <2> QED BY <2>5, <2>6, <2>7, <2>8, <2>a, <2>b
<1>4. h = Len(H)
  OBVIOUS
<1> HIDE DEF W, m, g, h
<1>5. ASSUME NEW i \in 1..Len(W), W[i] # Missed
      PROVE  \/ i \in 1..h /\ W[i] = H[i]
             \/ \E b \in 1..Len(B) : i = h + m + b /\ W[i] = S[g + b] /\ g + b \in 1..Len(S)
  <2>1. CASE i > h + m
    <3>1. i - h - m \in 1..Len(B) /\ i = h + m + (i - h - m)
      BY <1>1, <1>3, <2>1
    <3>2. g + (i - h - m) \in 1..Len(S)
      BY <1>1, <3>1
    <3>3. W[i] = S[g + (i - h - m)]
      BY <1>1, <1>3, <3>1
    <3> QED BY <3>1, <3>2, <3>3
  <2>2. CASE i <= h
    BY <1>1, <1>3, <2>2
  <2>3. CASE i > h /\ i <= h + m
    <3>1. m = 1 /\ i = h + 1
      BY <1>1, <2>3
    <3>2. L
      BY <3>1 DEF m
    <3> QED BY <1>3, <1>5, <3>1, <3>2
  <2> QED BY <1>1, <1>3, <2>1, <2>2, <2>3
<1>6. ASSUME NEW i \in 1..h, H[i] # Missed PROVE \E p \in 1..g : S[p] = H[i]
  BY <1>1, <1>4, <1>6 DEF StreamOK, InOrder
<1>7. ASSUME NEW i \in 1..Len(W), W[i] # Missed
      PROVE  /\ \E p \in 1..Len(S) : S[p] = W[i]
             /\ i = 1 => W[i] = S[1]
             /\ \A k \in 1..(i - 1) : \A p, q \in 1..Len(S) :
                  S[p] = W[k] /\ S[q] = W[i] => p < q /\ (k = i - 1 => q = p + 1)
  <2>1. CASE i \in 1..h /\ W[i] = H[i]
    <3>1. PICK p \in 1..g : S[p] = H[i]
      BY <1>6, <1>7, <2>1
    <3>2. p \in 1..Len(S)
      BY <1>1
    <3>3. \A k \in 1..(i - 1) : W[k] = H[k]
      BY <1>1, <1>3, <2>1
    <3>4. /\ i = 1 => H[i] = S[1]
          /\ \A k \in 1..(i - 1) : \A x, y \in 1..Len(S) :
               S[x] = H[k] /\ S[y] = H[i] => x < y /\ (k = i - 1 => y = x + 1)
      BY <1>4, <1>7, <2>1 DEF StreamOK, InOrder
    <3> QED BY <2>1, <3>1, <3>2, <3>3, <3>4
  <2>2. ASSUME NEW b \in 1..Len(B), i = h + m + b, W[i] = S[g + b], g + b \in 1..Len(S)
        PROVE  /\ \E p \in 1..Len(S) : S[p] = W[i]
               /\ i = 1 => W[i] = S[1]
               /\ \A k \in 1..(i - 1) : \A p, q \in 1..Len(S) :
                    S[p] = W[k] /\ S[q] = W[i] => p < q /\ (k = i - 1 => q = p + 1)
    <3>1. ASSUME i = 1 PROVE W[i] = S[1]
      <4>1. h = 0 /\ m = 0 /\ b = 1
        BY <1>1, <2>2, <3>1
      <4>2. H = <<>> /\ ~L
        <5>1. H = <<>>
          BY <1>4, <4>1, EmptySeq
        <5>2. ~L
          BY <4>1 DEF m
        <5> QED BY <5>1, <5>2
      <4>3. g = 0
        BY <1>1, <4>2 DEF StreamOK, UpToDate
      <4> QED BY <2>2, <4>1, <4>3
    <3>2. ASSUME NEW k \in 1..(i - 1), NEW p \in 1..Len(S), NEW q \in 1..Len(S), S[p] = W[k], S[q] = W[i]
          PROVE  p < q /\ (k = i - 1 => q = p + 1)
      <4>1. q = g + b
        BY <2>2, <3>2 DEF Distinct
      <4>2. k \in 1..Len(W) /\ W[k] # Missed
        BY <1>1, <1>3, <3>2
      <4>3. CASE k \in 1..h /\ W[k] = H[k]
        <5>1. PICK r \in 1..g : S[r] = H[k]
          BY <1>6, <4>2, <4>3
        <5>2. r \in 1..Len(S)
          BY <1>1
        <5>3. p = r
          BY <3>2, <4>3, <5>1, <5>2 DEF Distinct
        <5>4. ASSUME k = i - 1 PROVE p = g /\ b = 1
          <6>1. k = h /\ m = 0 /\ b = 1
            BY <1>1, <2>2, <4>3, <5>4
          <6>a. ~L
            BY <6>1 DEF m
          <6>2. H # <<>> /\ ~L /\ H[Len(H)] # Missed /\ k = Len(H)
            BY <1>1, <1>4, <4>2, <4>3, <6>1, <6>a
          <6>3. g >= 1 /\ H[k] = S[g]
            BY <1>1, <6>2 DEF StreamOK, UpToDate
          <6>4. g \in 1..Len(S)
            BY <1>1, <6>3
          <6> QED BY <3>2, <4>3, <6>1, <6>3, <6>4 DEF Distinct
        <5>5. p < q
          BY <1>1, <4>1, <5>1, <5>3
        <5>6. k = i - 1 => q = p + 1
          BY <4>1, <5>4
        <5> QED BY <5>5, <5>6
      <4>4. ASSUME NEW c \in 1..Len(B), k = h + m + c, W[k] = S[g + c], g + c \in 1..Len(S)
            PROVE  p < q /\ (k = i - 1 => q = p + 1)
        <5>1. p = g + c
          BY <3>2, <4>4 DEF Distinct
        <5>2. g \in Nat /\ h \in Nat /\ m \in Nat /\ b \in Nat /\ c \in Nat
          BY <1>1
        <5>3. c < b
          BY <2>2, <3>2, <4>4, <5>2
        <5>4. k = i - 1 => b = c + 1
          BY <2>2, <4>4, <5>2
        <5> QED BY <4>1, <5>1, <5>2, <5>3, <5>4
      <4> QED BY <1>5, <4>2, <4>3, <4>4
    <3> QED BY <2>2, <3>1, <3>2
  <2> QED BY <1>5, <1>7, <2>1, <2>2
<1>8. ASSUME S # <<>> PROVE W # <<>> /\ W[Len(W)] = S[Len(S)]
  <2>0. Len(S) > 0
    BY <1>8
  <2>1. CASE Len(B) > 0
    <3>1. Len(B) \in 1..Len(B) /\ g + Len(B) = Len(S) /\ Len(W) = h + m + Len(B)
      BY <1>1, <1>3, <2>1
    <3>2. W[h + m + Len(B)] = B[Len(B)] /\ B[Len(B)] = S[g + Len(B)]
      BY <1>1, <1>3, <3>1
    <3>3. Len(W) # 0
      BY <1>1, <2>1, <3>1
    <3> QED BY <3>1, <3>2, <3>3
  <2>2. CASE Len(B) = 0
    <3>1. ~L /\ B = <<>> /\ g = Len(S) /\ m = 0
      BY <1>1, <2>2
    <3>2. H # <<>>
      BY <1>1, <2>0, <2>2, <3>1 DEF StreamOK, UpToDate
    <3>3. H[Len(H)] # Missed
      BY <3>1, <3>2 DEF StreamOK, UpToDate
    <3>4. H[Len(H)] = S[Len(S)]
      BY <1>1, <3>1, <3>2, <3>3 DEF StreamOK, UpToDate
    <3>5. Len(W) = h /\ h > 0 /\ W[h] = H[h]
      BY <1>1, <1>3, <1>4, <2>2, <3>1, <3>2
    <3>6. Len(W) # 0
      BY <1>1, <3>5
    <3> QED BY <1>4, <3>4, <3>5, <3>6
  <2> QED BY <1>1, <2>1, <2>2
<1>9. Reports(S, W)
  BY <1>7, <1>8 DEF Reports
<1> QED BY <1>9 DEF W, M

\* The place of an event among those sent to a subscription.
LEMMA PlaceIs ==
  ASSUME NEW s \in Subscriptions, sent[s] \in Seq(Event), Distinct(sent[s]), NEW e,
         NEW p \in 1..Len(sent[s]), sent[s][p] = e
  PROVE  Place(s, e) = p
<1>1. DOMAIN sent[s] = 1..Len(sent[s])
  OBVIOUS
<1>2. \E i \in DOMAIN sent[s] : sent[s][i] = e
  BY <1>1
<1>3. Place(s, e) \in DOMAIN sent[s] /\ sent[s][Place(s, e)] = e
  BY <1>2 DEF Place
<1> QED BY <1>1, <1>3 DEF Distinct

\* A subscription gets every event sent to it once and in order, and is told of
\* every overflow of its channel (src/notify.rs, recv and tokio's Lagged).
THEOREM NoSilentGap == Spec => []GapsAreReported
<1>1. NotifierInv => GapsAreReported
  <2> SUFFICES ASSUME NotifierInv, NEW s \in Subscriptions
               PROVE  LET stream == Stream(s)
                      IN  /\ \A i \in DOMAIN stream : stream[i] # Missed =>
                               IF i = 1 THEN stream[i] = sent[s][1]
                               ELSE stream[i - 1] = Missed \/ Place(s, stream[i]) = Place(s, stream[i - 1]) + 1
                          /\ sent[s] # <<>> => /\ stream # <<>>
                                               /\ stream[Len(stream)] = sent[s][Len(sent[s])]
                          /\ \A i, j \in DOMAIN stream : i < j /\ Missed \notin {stream[i], stream[j]}
                               => Place(s, stream[i]) < Place(s, stream[j])
    BY DEF GapsAreReported
  <2> DEFINE S == sent[s]
             W == Stream(s)
  <2>1. /\ S \in Seq(Event) /\ buffer[s] \in Seq(Event) /\ heard[s] \in Seq(Event \cup {Missed})
        /\ lagged[s] \in BOOLEAN
    BY DEF NotifierInv, NotifierType
  <2>2. Distinct(S) /\ StreamOK(S, buffer[s], heard[s], lagged[s])
    BY SentDistinct DEF NotifierInv, StreamInv
  <2>3. Reports(S, W)
    BY <2>1, <2>2, StreamReports DEF Stream
  <2>4. W \in Seq(Event \cup {Missed})
    <3> DEFINE M == IF lagged[s] THEN <<Missed>> ELSE <<>>
    <3>1. M \in Seq(Event \cup {Missed}) /\ buffer[s] \in Seq(Event \cup {Missed})
      <4>1. <<Missed>> \in Seq(Event \cup {Missed}) /\ <<>> \in Seq(Event \cup {Missed})
        OBVIOUS
      <4>2. buffer[s] \in Seq(Event \cup {Missed})
        BY <2>1
      <4> QED BY <4>1, <4>2
    <3> HIDE DEF M
    <3>2. heard[s] \o M \o buffer[s] \in Seq(Event \cup {Missed})
      BY <2>1, <3>1
    <3> QED BY <3>2 DEF Stream, M
  <2>5. DOMAIN W = 1..Len(W) /\ Len(W) \in Nat
    BY <2>4
  <2>6. ASSUME NEW p \in 1..Len(S) PROVE Place(s, S[p]) = p
    BY <2>1, <2>2, PlaceIs
  <2> HIDE DEF W, S
  <2>7. ASSUME NEW i \in 1..Len(W), NEW k \in 1..(i - 1), W[i] # Missed, W[k] # Missed
        PROVE  Place(s, W[k]) < Place(s, W[i]) /\ (k = i - 1 => Place(s, W[i]) = Place(s, W[k]) + 1)
    <3>1. k \in 1..Len(W)
      BY <2>5
    <3>2. PICK p \in 1..Len(S) : S[p] = W[k]
      BY <2>3, <2>7, <3>1 DEF Reports
    <3>3. PICK q \in 1..Len(S) : S[q] = W[i]
      BY <2>3, <2>7 DEF Reports
    <3>4. p < q /\ (k = i - 1 => q = p + 1)
      BY <2>3, <2>7, <3>2, <3>3 DEF Reports
    <3>5. Place(s, W[k]) = p /\ Place(s, W[i]) = q
      BY <2>6, <3>2, <3>3
    <3> QED BY <3>4, <3>5
  <2>8. ASSUME NEW i \in DOMAIN W, W[i] # Missed
        PROVE  IF i = 1 THEN W[i] = S[1]
               ELSE W[i - 1] = Missed \/ Place(s, W[i]) = Place(s, W[i - 1]) + 1
    <3>1. CASE i = 1
      BY <2>3, <2>5, <2>8, <3>1 DEF Reports
    <3>2. CASE i # 1
      <4>1. i \in 1..Len(W) /\ i - 1 \in 1..(i - 1)
        BY <2>5, <3>2
      <4> QED BY <2>7, <2>8, <3>2, <4>1
    <3> QED BY <3>1, <3>2
  <2>9. S # <<>> => W # <<>> /\ W[Len(W)] = S[Len(S)]
    BY <2>3 DEF Reports
  <2>10. ASSUME NEW i \in DOMAIN W, NEW j \in DOMAIN W, i < j, Missed \notin {W[i], W[j]}
         PROVE  Place(s, W[i]) < Place(s, W[j])
    <3>1. j \in 1..Len(W) /\ i \in 1..(j - 1) /\ W[i] # Missed /\ W[j] # Missed
      BY <2>5, <2>10
    <3> QED BY <2>7, <3>1
  <2> QED BY <2>8, <2>9, <2>10 DEF W, S
<1> QED BY <1>1, NotifierInvariant, PTL
=============================================================================
