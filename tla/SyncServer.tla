----------------------------- MODULE SyncServer ----------------------------
(***************************************************************************)
(* The serving end of a session (src/protocol.rs): handle_connection with  *)
(* process_message, running against the node's SyncManager while another   *)
(* task of the node records changes.  SyncSession puts a client at the     *)
(* other end: the repository's own, or one that sends any frames.          *)
(*                                                                         *)
(* A change recorded by the node itself is named by the offset it was      *)
(* given: no two changes are given the same one (SyncManager's             *)
(* UniqueOffsets).                                                         *)
(***************************************************************************)
EXTENDS Transport, ChangeLog, Functions

CONSTANTS
  None,           \* no change in flight
  MaxChanges,     \* capacity of the node's change log
  MaxOffset       \* bound: the counter below which a change is recorded

ASSUME ServerAssumption ==
  /\ MaxChanges \in Nat /\ MaxOffset \in Nat /\ None \notin Nat

VARIABLES
  offset, log,  \* the node's SyncManager: counter and retained changes
  pushed,       \* history: all changes pushed into the log
  inflight,     \* the change of a local recorder between counter and log
  sstate,       \* peer_states entry of the client
  spc,          \* position of handle_connection
  localOffset,  \* its local_offset
  req,          \* the message being processed
  todo,         \* changes of a received Response still to be recorded
  reply,        \* the response being put together
  seen,         \* history: what the log was when its changes were gathered
  answers       \* history: messages with their replies, and the log they saw

managerVars == <<offset, log, pushed, inflight>>
handlerVars == <<sstate, spc, localOffset, req, todo, reply, seen, answers>>
serverVars == <<managerVars, handlerVars>>

\* The log's history, how much of it was dropped, and whether no record was
\* between counter and log.
Seen == [known |-> pushed, trimmed |-> Len(pushed) - Len(log), quiet |-> inflight = None]

ServerInit ==
  /\ offset = 0 /\ log = <<>> /\ pushed = <<>> /\ inflight = None
  /\ sstate = "Unknown" /\ spc = "accept" /\ localOffset = 0
  /\ req = Ping /\ todo = <<>> /\ reply = Ping /\ seen = Seen /\ answers = <<>>

----------------------------------------------------------------------------
(* The rest of the node: one local recorder.  (The node is not the client  *)
(* of another session: apply_changes is part of SyncManager.)              *)

LocalFetchAdd ==
  /\ inflight = None /\ offset < MaxOffset
  /\ inflight' = offset
  /\ offset' = offset + 1
  /\ UNCHANGED <<log, pushed, handlerVars, transport>>

LocalPush ==
  /\ inflight # None
  /\ log' = PushBounded(log, inflight, MaxChanges)
  /\ pushed' = Append(pushed, inflight)
  /\ inflight' = None
  /\ UNCHANGED <<offset, handlerVars, transport>>

----------------------------------------------------------------------------
(* handle_connection                                                       *)

\* accept_bi returns once the client has written to the stream.
Accept ==
  /\ spc = "accept" /\ conn # "none" /\ c2s # <<>>
  /\ sstate' = "Syncing"
  /\ localOffset' = offset
  /\ spc' = "read"
  /\ UNCHANGED <<managerVars, req, todo, reply, seen, answers, transport>>

AcceptFails ==
  /\ spc = "accept" /\ conn = "down"
  /\ spc' = "failed"
  /\ UNCHANGED <<managerVars, sstate, localOffset, req, todo, reply, seen,
                 answers, transport>>

\* The loop ends on a zero length, a finished stream or an undecodable body.
ReadEnd ==
  /\ spc = "read" /\ c2s # <<>>
  /\ Head(c2s).type \in {"EndMarker", "Fin", "Garbled"}
  /\ c2s' = Tail(c2s)
  /\ spc' = "finish"
  /\ UNCHANGED <<managerVars, sstate, localOffset, req, todo, reply, seen,
                 answers, conn, s2c>>

\* Faulty variant: the loop tries again after a failed read.
ReadFailsRetried ==
  /\ spc = "read" /\ conn = "down"
  /\ UNCHANGED <<serverVars, transport>>

\* A read fails on a connection that is down; the loop ends the same way.
ReadFails ==
  /\ spc = "read" /\ conn = "down"
  /\ spc' = "finish"
  /\ UNCHANGED <<managerVars, sstate, localOffset, req, todo, reply, seen,
                 answers, transport>>

\* An oversized length returns an error; the dropped connection closes.
ReadOversized ==
  /\ spc = "read" /\ c2s # <<>> /\ Head(c2s).type = "Oversized"
  /\ c2s' = Tail(c2s)
  /\ conn' = "down"
  /\ spc' = "failed"
  /\ UNCHANGED <<managerVars, sstate, localOffset, req, todo, reply, seen,
                 answers, s2c>>

\* Faulty variant: the batch carries the counter as its offset.
ReadRequestCounter ==
  /\ spc = "read" /\ c2s # <<>> /\ Head(c2s).type = "Request"
  /\ LET all == GetChangesSince(log, offset, Head(c2s).offset)
         limit == Head(c2s).limit
     IN  reply' = Response(offset, FALSE,
                           IF limit = NoLimit THEN all ELSE Truncate(all, limit))
  /\ req' = Head(c2s)
  /\ c2s' = Tail(c2s)
  /\ seen' = Seen
  /\ spc' = "isFinal"
  /\ UNCHANGED <<managerVars, sstate, localOffset, todo, answers, conn, s2c>>

\* process_message, Request: gather the changes, truncate them to the limit.
ReadRequest ==
  /\ spc = "read" /\ c2s # <<>> /\ Head(c2s).type = "Request"
  /\ LET o == Head(c2s).offset
         limit == Head(c2s).limit
         all == GetChangesSince(log, offset, o)
         cs == IF limit = NoLimit THEN all ELSE Truncate(all, limit)
     IN  reply' = Response(o + Len(cs), FALSE, cs)
  /\ req' = Head(c2s)
  /\ c2s' = Tail(c2s)
  /\ seen' = Seen
  /\ spc' = "isFinal"
  /\ UNCHANGED <<managerVars, sstate, localOffset, todo, answers, conn, s2c>>

\* Faulty variant: the offset read when the session began decides.
IsFinalStale ==
  /\ spc = "isFinal"
  /\ reply' = [reply EXCEPT
       !.is_final = (reply.changes = <<>> \/ localOffset <= reply.offset)]
  /\ spc' = "write"
  /\ answers' = Append(answers, [req |-> req, reply |-> reply', seen |-> seen])
  /\ UNCHANGED <<managerVars, sstate, localOffset, req, todo, seen, transport>>

\* is_final reads the counter a second time.
IsFinal ==
  /\ spc = "isFinal"
  /\ reply' = [reply EXCEPT
       !.is_final = (reply.changes = <<>> \/ offset <= reply.offset)]
  /\ spc' = "write"
  /\ answers' = Append(answers, [req |-> req, reply |-> reply', seen |-> seen])
  /\ UNCHANGED <<managerVars, sstate, localOffset, req, todo, seen, transport>>

\* process_message, Response: record every change, then acknowledge.
ReadResponse ==
  /\ spc = "read" /\ c2s # <<>> /\ Head(c2s).type = "Response"
  /\ req' = Head(c2s)
  /\ todo' = Head(c2s).changes
  /\ c2s' = Tail(c2s)
  /\ spc' = "record"
  /\ UNCHANGED <<managerVars, sstate, localOffset, reply, seen, answers,
                 conn, s2c>>

RecordFetchAdd ==
  /\ spc = "record" /\ todo # <<>>
  /\ offset' = offset + 1
  /\ spc' = "push"
  /\ UNCHANGED <<log, pushed, inflight, sstate, localOffset, req, todo, reply,
                 seen, answers, transport>>

\* Faulty variant: only the first change of a batch is recorded.
RecordFirstOnly ==
  /\ spc = "push"
  /\ log' = PushBounded(log, Head(todo), MaxChanges)
  /\ pushed' = Append(pushed, Head(todo))
  /\ todo' = <<>>
  /\ spc' = "record"
  /\ UNCHANGED <<offset, inflight, sstate, localOffset, req, reply, seen,
                 answers, transport>>

RecordPush ==
  /\ spc = "push"
  /\ log' = PushBounded(log, Head(todo), MaxChanges)
  /\ pushed' = Append(pushed, Head(todo))
  /\ todo' = Tail(todo)
  /\ spc' = "record"
  /\ UNCHANGED <<offset, inflight, sstate, localOffset, req, reply, seen,
                 answers, transport>>

\* The answer to a message other than a Request.
Answer(m, r) ==
  /\ reply' = r
  /\ answers' = Append(answers, [req |-> m, reply |-> r, seen |-> Seen])
  /\ spc' = "write"

RecordDone ==
  /\ spc = "record" /\ todo = <<>>
  /\ Answer(req, Ack(req.offset))
  /\ UNCHANGED <<managerVars, sstate, localOffset, req, todo, seen, transport>>

\* process_message, Ack, Ping and Pong.
ReadOther ==
  /\ spc = "read" /\ c2s # <<>>
  /\ \/ Head(c2s).type = "Ack" /\ Answer(Head(c2s), Ack(localOffset))
     \/ Head(c2s).type = "Ping" /\ Answer(Head(c2s), Pong)
     \/ Head(c2s).type = "Pong" /\ Answer(Head(c2s), Ping)
  /\ req' = Head(c2s)
  /\ c2s' = Tail(c2s)
  /\ UNCHANGED <<managerVars, sstate, localOffset, todo, seen, conn, s2c>>

WriteReply ==
  /\ spc = "write" /\ conn = "up"
  /\ s2c' = Append(s2c, reply)
  /\ spc' = "read"
  /\ UNCHANGED <<managerVars, sstate, localOffset, req, todo, reply, seen,
                 answers, conn, c2s>>

WriteFails ==
  /\ spc = "write" /\ conn = "down"
  /\ spc' = "failed"
  /\ UNCHANGED <<managerVars, sstate, localOffset, req, todo, reply, seen,
                 answers, transport>>

\* send.finish(); on a connection that is down it may report an error.
Finish ==
  /\ spc = "finish"
  /\ \/ /\ spc' = "closed"
        /\ s2c' = IF conn = "up" THEN Append(s2c, Fin) ELSE s2c
     \/ /\ conn = "down"
        /\ spc' = "failed"
        /\ UNCHANGED s2c
  /\ UNCHANGED <<managerVars, sstate, localOffset, req, todo, reply, seen,
                 answers, conn, c2s>>

\* conn.closed() returns, however the connection ended.
Closed ==
  /\ spc = "closed" /\ conn = "down"
  /\ sstate' = "Synchronized"
  /\ spc' = "done"
  /\ UNCHANGED <<managerVars, localOffset, req, todo, reply, seen, answers,
                 transport>>

Handler ==
  \/ Accept \/ AcceptFails \/ ReadEnd \/ ReadFails \/ ReadOversized
  \/ ReadRequest \/ IsFinal \/ ReadResponse \/ RecordFetchAdd \/ RecordPush
  \/ RecordDone \/ ReadOther \/ WriteReply \/ WriteFails \/ Finish \/ Closed

LocalNode == LocalFetchAdd \/ LocalPush

----------------------------------------------------------------------------
(* Properties                                                              *)

\* "Acknowledgment of received changes" (src/change.rs:162): a Response the
\* client sent is acknowledged with its own offset, and only once every change
\* in it is in the log's history, in the order sent, whatever the node's own
\* recorder does in between.
AckMeansRecorded ==
  \A a \in Range(answers) :
    a.req.type = "Response" =>
      /\ a.reply = Ack(a.req.offset)
      /\ \E at \in [1..Len(a.req.changes) -> 1..Len(a.seen.known)] :
           \A i \in 1..Len(a.req.changes) :
             /\ a.seen.known[at[i]] = a.req.changes[i]
             /\ i > 1 => at[i - 1] < at[i]

\* "Whether this is the final batch" (src/change.rs:121): when is_final is
\* set, the batch holds every change from the requested offset on that was in
\* the log when the batch was gathered, although the counter is read again
\* later and the node records all along. (A request with limit 0 is answered
\* with an empty batch that is final, whatever the log holds.)
FinalIsComplete ==
  \A a \in Range(answers) :
    (a.req.type = "Request" /\ a.reply.is_final /\ a.req.limit # 0) =>
      \A k \in 1..Len(a.seen.known) :
        (k > a.req.offset /\ k > Len(a.seen.known) - MaxChanges)
          => a.seen.known[k] \in Range(a.reply.changes)

\* "Offset in the change log (for resumable sync)" (src/change.rs:117): a
\* client that resumes from the offset of a batch has been given every change
\* before it, from its last request on, that was still retained, if no record
\* was between counter and log when the batch was gathered. (Otherwise it need not
\* have been.)
ResumePointSound ==
  \A a \in Range(answers) :
    (a.req.type = "Request" /\ a.seen.quiet) =>
      \A k \in 1..Len(pushed) :
        (k > a.req.offset /\ k > a.seen.trimmed /\ k <= a.reply.offset)
          => pushed[k] \in Range(a.reply.changes)
=============================================================================
