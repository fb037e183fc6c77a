----------------------------- MODULE SyncClient ----------------------------
(***************************************************************************)
(* The requesting end of a session (src/protocol.rs): connect_and_sync.    *)
(* SyncSession puts a server at the other end: the repository's own, or    *)
(* one that sends any frames.                                              *)
(***************************************************************************)
EXTENDS Transport

CONSTANTS
  InitialOffsets,  \* the client's counter before the session: its own changes
  RequestLimit,    \* the limit of its request (1000 in the code)
  UuidSeqs         \* low 64 bits of the ids of the changes it may receive

ASSUME ClientAssumption ==
  /\ InitialOffsets \subseteq Nat /\ UuidSeqs \subseteq Nat
  /\ RequestLimit \in Nat \ {0}

VARIABLES
  coffset,   \* the counter of the client's SyncManager
  cstate,    \* peer_states entry of the server
  cpc,       \* position of connect_and_sync
  ended      \* history: did the server end the session (Ack or end of stream)?

clientVars == <<coffset, cstate, cpc, ended>>

ClientInit ==
  /\ coffset \in InitialOffsets
  /\ cstate = "Unknown" /\ cpc = "connect" /\ ended = FALSE

----------------------------------------------------------------------------
Connect ==
  /\ cpc = "connect"
  /\ conn' = "up"
  /\ cpc' = "open"
  /\ UNCHANGED <<coffset, cstate, ended, c2s, s2c>>

ConnectFails ==
  /\ cpc = "connect"
  /\ cpc' = "failed"
  /\ UNCHANGED <<coffset, cstate, ended, transport>>

OpenStream ==
  /\ cpc = "open" /\ conn = "up"
  /\ cstate' = "Syncing"
  /\ cpc' = "request"
  /\ UNCHANGED <<coffset, ended, transport>>

\* The request starts from the client's own counter.
SendRequest ==
  /\ cpc = "request" /\ conn = "up"
  /\ c2s' = Append(c2s, Request(coffset, RequestLimit))
  /\ cpc' = "read"
  /\ UNCHANGED <<coffset, cstate, ended, conn, s2c>>

\* Opening the stream or writing to it fails on a connection that is down.
WriteError ==
  /\ cpc \in {"open", "request", "end"} /\ conn = "down"
  /\ cpc' = "failed"
  /\ UNCHANGED <<coffset, cstate, ended, transport>>

\* apply_changes moves the counter to the largest id, if that is ahead, and keeps
\* nothing of the changes. The batch's is_final is not looked at.
ReadBatch ==
  /\ cpc = "read" /\ s2c # <<>> /\ Head(s2c).type = "Response"
  /\ IF Head(s2c).changes = <<>>
     THEN UNCHANGED coffset
     ELSE \E seq \in UuidSeqs :
            coffset' = IF seq > coffset THEN seq ELSE coffset
  /\ s2c' = Tail(s2c)
  /\ UNCHANGED <<cstate, cpc, ended, conn, c2s>>

\* An Ack, a zero length or a finished stream ends the loop.
ReadLast ==
  /\ cpc = "read" /\ s2c # <<>>
  /\ Head(s2c).type \in {"Ack", "EndMarker", "Fin"}
  /\ ended' = TRUE
  /\ cpc' = "end"
  /\ s2c' = Tail(s2c)
  /\ UNCHANGED <<coffset, cstate, conn, c2s>>

ReadIgnored ==
  /\ cpc = "read" /\ s2c # <<>>
  /\ Head(s2c).type \in {"Request", "Ping", "Pong"}
  /\ s2c' = Tail(s2c)
  /\ UNCHANGED <<clientVars, conn, c2s>>

\* Both return an error; the dropped connection closes.
ReadInvalid ==
  /\ cpc = "read" /\ s2c # <<>>
  /\ Head(s2c).type \in {"Oversized", "Garbled"}
  /\ cpc' = "failed"
  /\ conn' = "down"
  /\ s2c' = Tail(s2c)
  /\ UNCHANGED <<coffset, cstate, ended, c2s>>

\* A connection that is down: a failed read of a length ends the loop, a failed
\* read of a body returns an error.
ReadError ==
  /\ cpc = "read" /\ conn = "down"
  /\ cpc' \in {"end", "failed"}
  /\ UNCHANGED <<coffset, cstate, ended, transport>>

\* Faulty variant: errors of the last writes are ignored.
SendEndUnchecked ==
  /\ cpc = "end"
  /\ c2s' = IF conn = "up" THEN c2s \o <<EndMarker, Fin>> ELSE c2s
  /\ conn' = "down"
  /\ cstate' = "Synchronized"
  /\ cpc' = "done"
  /\ UNCHANGED <<coffset, ended, s2c>>

\* The end marker, finish, and close, which needs no answer.
SendEnd ==
  /\ cpc = "end" /\ conn = "up"
  /\ c2s' = c2s \o <<EndMarker, Fin>>
  /\ conn' = "down"
  /\ cstate' = "Synchronized"
  /\ cpc' = "done"
  /\ UNCHANGED <<coffset, ended, s2c>>

Client ==
  \/ Connect \/ ConnectFails \/ OpenStream \/ SendRequest \/ WriteError
  \/ ReadBatch \/ ReadLast \/ ReadIgnored \/ ReadInvalid \/ ReadError \/ SendEnd

----------------------------------------------------------------------------
(* Properties                                                              *)

\* The client takes a peer for synchronized only when the server ended the
\* session and the end marker was written to a live connection: a lost
\* connection, an oversized or an undecodable frame never count as success.
SynchronizedOnlyWhenEnded ==
  cstate = "Synchronized" => ended /\ cpc = "done" /\ EndMarker \in {c2s[i] : i \in 1..Len(c2s)}
=============================================================================
