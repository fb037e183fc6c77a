--------------------------- MODULE ChangeNotifier ---------------------------
(***************************************************************************)
(* src/notify.rs: tasks that publish change events to subscriptions, each  *)
(* with a bounded broadcast channel of its own (tokio, external: a full    *)
(* channel overwrites its oldest event, which the receiver is told once).  *)
(* A publication holds the read lock of the subscriber map and sends to    *)
(* one entry after the other, so that publications overlap; subscribe and  *)
(* unsubscribe take the write lock.  notify does not look at the filters,  *)
(* so the model has none, and an event is its sequence number, its         *)
(* publisher and its number among the publications.                        *)
(***************************************************************************)
EXTENDS Naturals, Sequences, FiniteSets, Functions

CONSTANTS Subscriptions, \* the handles subscribe may return
          Tasks,         \* tasks that publish
          BufferSize,    \* buffer_size, as tokio rounds it up
          Missed,        \* what recv returns for Lagged and Closed: None
          MaxCalls       \* bound: publications and subscriptions together

Event == [seq : Nat, task : Tasks, n : Nat]

ASSUME NotifierAssumption ==
  /\ IsFiniteSet(Subscriptions) /\ BufferSize \in Nat \ {0} /\ MaxCalls \in Nat
  /\ Missed \notin Event

NoEvent == [seq |-> 0, task |-> Missed, n |-> 0]

VARIABLES
  subscribers, \* id -> the subscription whose sender the entry holds
  sequence,    \* the counter of the observer's events
  status,      \* subscription -> "new", "held" or "dropped"
  id,          \* subscription -> its id
  buffer,      \* subscription -> the events in its channel
  lagged,      \* subscription -> has an unread event been overwritten?
  pc,          \* task -> "idle", "publish" or "send"
  event,       \* task -> the event it publishes
  todo,        \* task -> the ids it has yet to send to
  published,   \* history: number of publications
  sent,        \* history: subscription -> the events sent to it
  heard,       \* history: subscription -> what recv returned
  lifo,        \* history: has unsubscribe only ever been given the newest id?
  displaced    \* history: subscriptions that lost their entry to another

channels == <<buffer, lagged>>
tasks == <<pc, event, todo>>
handles == <<status, id>>
history == <<published, sent, heard, lifo, displaced>>
vars == <<subscribers, sequence, handles, channels, tasks, history>>

Init ==
  /\ subscribers = [i \in {} |-> Missed] /\ sequence = 0
  /\ status = [s \in Subscriptions |-> "new"]
  /\ id = [s \in Subscriptions |-> 0]
  /\ buffer = [s \in Subscriptions |-> <<>>]
  /\ lagged = [s \in Subscriptions |-> FALSE]
  /\ pc = [t \in Tasks |-> "idle"]
  /\ event = [t \in Tasks |-> NoEvent]
  /\ todo = [t \in Tasks |-> {}]
  /\ published = 0
  /\ sent = [s \in Subscriptions |-> <<>>]
  /\ heard = [s \in Subscriptions |-> <<>>]
  /\ lifo = TRUE /\ displaced = {}

Made == {s \in Subscriptions : status[s] # "new"}
MayCall == published + Cardinality(Made) < MaxCalls

\* The write lock: no publication is under way.
NoReader == \A t \in Tasks : pc[t] # "send"

----------------------------------------------------------------------------
(* subscribe, unsubscribe and the end of a subscription                    *)

\* Faulty variant: the number of subscribers is read before the write lock is
\* taken, and another subscribe may come in between.
SubscribeEarlyId(s) ==
  /\ status[s] = "new" /\ MayCall /\ NoReader
  /\ LET n == Cardinality(DOMAIN subscribers)
     IN  \E i \in {n, n + 1} \ {0} :
       /\ subscribers' = [j \in DOMAIN subscribers \cup {i} |-> IF j = i THEN s ELSE subscribers[j]]
       /\ id' = [id EXCEPT ![s] = i]
       /\ displaced' = displaced \cup {subscribers[j] : j \in DOMAIN subscribers \cap {i}}
  /\ status' = [status EXCEPT ![s] = "held"]
  /\ UNCHANGED <<sequence, channels, tasks, published, sent, heard, lifo>>

\* insert replaces the entry that has the id already; its sender is dropped.
Subscribe(s) ==
  /\ status[s] = "new" /\ MayCall /\ NoReader
  /\ LET i == Cardinality(DOMAIN subscribers) + 1
     IN  /\ subscribers' = [j \in DOMAIN subscribers \cup {i} |-> IF j = i THEN s ELSE subscribers[j]]
         /\ id' = [id EXCEPT ![s] = i]
         /\ displaced' = displaced \cup {subscribers[j] : j \in DOMAIN subscribers \cap {i}}
  /\ status' = [status EXCEPT ![s] = "held"]
  /\ UNCHANGED <<sequence, channels, tasks, published, sent, heard, lifo>>

\* Whoever holds, or held, a subscription may unsubscribe its id.
Unsubscribe(s) ==
  /\ status[s] # "new" /\ NoReader
  /\ id[s] \in DOMAIN subscribers
  /\ subscribers' = Restrict(subscribers, DOMAIN subscribers \ {id[s]})
  /\ lifo' = (lifo /\ \A i \in DOMAIN subscribers : i <= id[s])
  /\ UNCHANGED <<sequence, handles, channels, tasks, published, sent, heard, displaced>>

\* A subscription has no drop of its own: its entry stays.
DropSubscription(s) ==
  /\ status[s] = "held"
  /\ status' = [status EXCEPT ![s] = "dropped"]
  /\ buffer' = [buffer EXCEPT ![s] = <<>>]
  /\ lagged' = [lagged EXCEPT ![s] = FALSE]
  /\ sent' = [sent EXCEPT ![s] = <<>>]
  /\ heard' = [heard EXCEPT ![s] = <<>>]
  /\ UNCHANGED <<subscribers, sequence, id, tasks, published, lifo, displaced>>

----------------------------------------------------------------------------
(* notify_local, notify_sync and notify                                    *)

Prepare(t, seq) ==
  /\ pc[t] = "idle" /\ MayCall
  /\ published' = published + 1
  /\ event' = [event EXCEPT ![t] = [seq |-> seq, task |-> t, n |-> published + 1]]
  /\ pc' = [pc EXCEPT ![t] = "publish"]
  /\ UNCHANGED <<subscribers, handles, channels, todo, sent, heard, lifo, displaced>>

\* Faulty variant: inc_sequence reads and writes under two locks, and the
\* increment of another task may be lost.
IncSequenceTwoLocks(t) ==
  /\ Prepare(t, sequence + 1)
  /\ sequence' \in {sequence, sequence + 1}

\* notify_local: the number first, the publication later.
IncSequence(t) ==
  /\ Prepare(t, sequence + 1)
  /\ sequence' = sequence + 1

\* notify_sync: all events of synchronization have the number 0.
NotifySync(t) ==
  /\ Prepare(t, 0)
  /\ UNCHANGED sequence

\* The read lock.
NotifyBegin(t) ==
  /\ pc[t] = "publish"
  /\ todo' = [todo EXCEPT ![t] = DOMAIN subscribers]
  /\ pc' = [pc EXCEPT ![t] = IF DOMAIN subscribers = {} THEN "idle" ELSE "send"]
  /\ event' = [event EXCEPT ![t] = IF DOMAIN subscribers = {} THEN NoEvent ELSE @]
  /\ UNCHANGED <<subscribers, sequence, handles, channels, history>>

\* send on one channel; without a receiver it fails, and that is ignored.
Deliver(s, e) ==
  IF status[s] = "dropped" THEN UNCHANGED <<channels, sent>>
  ELSE /\ sent' = [sent EXCEPT ![s] = Append(@, e)]
       /\ buffer' = [buffer EXCEPT ![s] = IF Len(@) < BufferSize THEN Append(@, e)
                                                                ELSE Append(Tail(@), e)]
       /\ lagged' = [lagged EXCEPT ![s] = @ \/ Len(buffer[s]) = BufferSize]

\* The next entry in the order of the HashMap; the lock is released after the last.
NotifySend(t) ==
  /\ pc[t] = "send"
  /\ \E i \in todo[t] :
       /\ Deliver(subscribers[i], event[t])
       /\ todo' = [todo EXCEPT ![t] = @ \ {i}]
       /\ pc' = [pc EXCEPT ![t] = IF todo[t] = {i} THEN "idle" ELSE "send"]
       /\ event' = [event EXCEPT ![t] = IF todo[t] = {i} THEN NoEvent ELSE @]
  /\ UNCHANGED <<subscribers, sequence, handles, published, heard, lifo, displaced>>

----------------------------------------------------------------------------
(* recv and try_recv; one that finds an empty channel, open or closed,     *)
(* changes nothing.                                                        *)

\* Faulty variant: recv goes on to the oldest event it can still get.
RecvSkipsLag(s) ==
  /\ status[s] = "held" /\ buffer[s] # <<>>
  /\ heard' = [heard EXCEPT ![s] = Append(@, Head(buffer[s]))]
  /\ buffer' = [buffer EXCEPT ![s] = Tail(@)]
  /\ lagged' = [lagged EXCEPT ![s] = FALSE]
  /\ UNCHANGED <<subscribers, sequence, handles, tasks, published, sent, lifo, displaced>>

Recv(s) ==
  /\ status[s] = "held" /\ ~lagged[s] /\ buffer[s] # <<>>
  /\ heard' = [heard EXCEPT ![s] = Append(@, Head(buffer[s]))]
  /\ buffer' = [buffer EXCEPT ![s] = Tail(@)]
  /\ UNCHANGED <<subscribers, sequence, handles, lagged, tasks, published, sent, lifo, displaced>>

\* Lagged, by ok() the same None as Closed, and for try_recv as Empty, too. Only
\* the None of a gap is recorded in heard: that of a try_recv on an empty channel
\* takes nothing from it.
RecvLagged(s) ==
  /\ status[s] = "held" /\ lagged[s]
  /\ heard' = [heard EXCEPT ![s] = Append(@, Missed)]
  /\ lagged' = [lagged EXCEPT ![s] = FALSE]
  /\ UNCHANGED <<subscribers, sequence, handles, buffer, tasks, published, sent, lifo, displaced>>

----------------------------------------------------------------------------
Next ==
  \/ \E s \in Subscriptions :
       \/ Subscribe(s) \/ Unsubscribe(s) \/ DropSubscription(s)
       \/ Recv(s) \/ RecvLagged(s)
  \/ \E t \in Tasks :
       \/ IncSequence(t) \/ NotifySync(t) \/ NotifyBegin(t) \/ NotifySend(t)

Spec == Init /\ [][Next]_vars

----------------------------------------------------------------------------
(* Properties                                                              *)

\* What a subscription has received and what it will, None where it missed events.
Stream(s) == heard[s] \o (IF lagged[s] THEN <<Missed>> ELSE <<>>) \o buffer[s]
Place(s, e) == CHOOSE i \in DOMAIN sent[s] : sent[s][i] = e

\* A subscription gets every event sent to it, once and in the order of the
\* sends, and where the channel overflowed recv returns None before it goes on
\* (src/notify.rs:156): no gap is silent, whoever publishes meanwhile. For
\* try_recv the None is there as well, but does not tell a gap from an empty
\* channel.
GapsAreReported ==
  \A s \in Subscriptions : status[s] = "held" =>
    LET stream == Stream(s)
    IN  /\ \A i \in DOMAIN stream : stream[i] # Missed =>
             IF i = 1 THEN stream[i] = sent[s][1]
             ELSE stream[i - 1] = Missed \/ Place(s, stream[i]) = Place(s, stream[i - 1]) + 1
        /\ sent[s] # <<>> => /\ stream # <<>>
                             /\ stream[Len(stream)] = sent[s][Len(sent[s])]
        /\ \A i, j \in DOMAIN stream : i < j /\ Missed \notin {stream[i], stream[j]}
             => Place(s, stream[i]) < Place(s, stream[j])

\* "Sequence number for ordering" (src/notify.rs:44): local events have
\* different numbers, and every subscription is sent those of one task in the
\* order of their numbers. (Those of two tasks can be overtaken between
\* inc_sequence and notify.)
SequencesOrderATask ==
  /\ \A s, r \in Subscriptions : \A e \in Range(sent[s]), f \in Range(sent[r]) :
       (e.seq = f.seq /\ e.seq # 0) => e = f
  /\ \A s \in Subscriptions : \A i, j \in DOMAIN sent[s] :
       (i < j /\ sent[s][i].task = sent[s][j].task /\ 0 \notin {sent[s][i].seq, sent[s][j].seq})
         => sent[s][i].seq < sent[s][j].seq

\* "Unique subscription ID" (src/notify.rs:146): as long as subscriptions are
\* given up in the reverse order of their making, no subscription loses its
\* entry to another. (Any other unsubscribe leaves a gap, and a later subscribe
\* takes the id, and with it the entry, of a subscription that is still held.)
LastInFirstOutIsSafe == lifo => displaced = {}
=============================================================================
