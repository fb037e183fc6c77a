----------------------------- MODULE Transport -----------------------------
(***************************************************************************)
(* One QUIC connection with its bidirectional stream, as iroh gives it to  *)
(* src/protocol.rs: each direction delivers whole frames in order while    *)
(* the connection is up.  A connection goes down when an end closes or     *)
(* drops it, or when it is lost; what was sent before may still be read,   *)
(* or a read may fail.                                                     *)
(***************************************************************************)
EXTENDS Naturals, Sequences

CONSTANT NoLimit   \* limit: None of a Request

VARIABLES
  conn,   \* "none", "up" or "down"
  c2s,    \* frames on the way from the client to the server
  s2c     \* frames on the way from the server to the client

transport == <<conn, c2s, s2c>>

\* The messages of SyncMessage (src/change.rs).
Request(o, limit) == [type |-> "Request", offset |-> o, limit |-> limit]
Response(o, final, cs) ==
  [type |-> "Response", offset |-> o, is_final |-> final, changes |-> cs]
Ack(o) == [type |-> "Ack", offset |-> o]
Ping == [type |-> "Ping"]
Pong == [type |-> "Pong"]

\* What else a read can meet: a zero length, a length above MAX_MESSAGE_SIZE,
\* a body that does not decode, and the finished stream.
EndMarker == [type |-> "EndMarker"]
Oversized == [type |-> "Oversized"]
Garbled == [type |-> "Garbled"]
Fin == [type |-> "Fin"]

\* The frames a read can meet; a change is named by a number.
Frame == [type : {"Request"}, offset : Nat, limit : Nat \cup {NoLimit}]
         \cup [type : {"Response"}, offset : Nat, is_final : BOOLEAN, changes : Seq(Nat)]
         \cup [type : {"Ack"}, offset : Nat]
         \cup [type : {"Ping", "Pong", "EndMarker", "Oversized", "Garbled", "Fin"}]

TransportInit ==
  /\ conn = "none"
  /\ c2s = <<>>
  /\ s2c = <<>>

\* The connection is lost.
Lose ==
  /\ conn = "up"
  /\ conn' = "down"
  /\ UNCHANGED <<c2s, s2c>>
=============================================================================
