---------------------------- MODULE SyncSession ----------------------------
(***************************************************************************)
(* A whole session on one connection: the client of src/protocol.rs        *)
(* (SyncClient) and its server (SyncServer), while the serving node keeps  *)
(* recording changes and the connection may be lost.  Either end may also  *)
(* be played by a foreign peer, which sends any frames in any order.       *)
(***************************************************************************)
EXTENDS SyncServer, SyncClient

CONSTANTS
  Ends,          \* which ends may run the repository's code: sets of ends
  ClientFrames,  \* the frames a foreign client may send
  ServerFrames,  \* the frames a foreign server may send
  MaxFrames      \* bound: the frames a foreign peer sends

ASSUME SessionAssumption ==
  /\ Ends \subseteq SUBSET {"client", "server"} /\ {} \notin Ends
  /\ ClientFrames \subseteq Frame /\ ServerFrames \subseteq Frame /\ MaxFrames \in Nat

VARIABLE ours  \* the ends that run the repository's code

sessionVars == <<ours, serverVars, clientVars, transport>>

SessionInit ==
  /\ ours \in Ends
  /\ TransportInit /\ ServerInit /\ ClientInit

----------------------------------------------------------------------------
(* Foreign peers.  All that such a peer is ever going to send is chosen    *)
(* when it connects or is connected to: a peer that sends less before the  *)
(* connection goes down, or waits for replies before it sends more, shows  *)
(* the other end nothing else.                                             *)

FrameSequences(frames) == UNION {[1..n -> frames] : n \in 0..MaxFrames}

ForeignClient(frames) ==
  /\ "client" \notin ours
  /\ conn = "none"
  /\ conn' = "up"
  /\ c2s' = frames
  /\ UNCHANGED <<ours, serverVars, clientVars, s2c>>

ForeignServer(frames) ==
  /\ "server" \notin ours
  /\ conn = "up" /\ cpc = "open" /\ s2c = <<>>
  /\ s2c' = frames
  /\ UNCHANGED <<ours, serverVars, clientVars, conn, c2s>>

----------------------------------------------------------------------------
OurClient == "client" \in ours /\ Client /\ UNCHANGED <<ours, serverVars>>
OurServer == "server" \in ours /\ Handler /\ UNCHANGED <<ours, clientVars>>
OurNode == "server" \in ours /\ LocalNode /\ UNCHANGED <<ours, clientVars>>

SessionNext ==
  \/ OurClient
  \/ OurServer
  \/ OurNode
  \/ \E frames \in FrameSequences(ClientFrames) : ForeignClient(frames)
  \/ \E frames \in FrameSequences(ServerFrames) : ForeignServer(frames)
  \/ Lose /\ UNCHANGED <<ours, serverVars, clientVars>>

\* The runtimes keep polling the client, the handler and a recorder that holds
\* a change; foreign peers and the network promise nothing.
SessionFairness ==
  /\ WF_sessionVars(OurClient)
  /\ WF_sessionVars(OurServer)
  /\ WF_sessionVars("server" \in ours /\ LocalPush /\ UNCHANGED <<ours, clientVars>>)

SessionSpec == SessionInit /\ [][SessionNext]_sessionVars /\ SessionFairness

----------------------------------------------------------------------------
(* Properties of the two ends together                                     *)

\* "Connect to a peer and perform synchronization" (src/protocol.rs:275): the
\* call returns.
SessionEnds == ("client" \in ours) ~> (cpc \in {"done", "failed"})

\* Once its connection is down, connect_and_sync and handle_connection return,
\* whatever the other end sent before.
EndsReturn ==
  (conn = "down") ~> /\ "client" \in ours => cpc \in {"done", "failed"}
                     /\ "server" \in ours => spc \in {"done", "failed"}

=============================================================================
