---------------------------- MODULE PeerDialing ----------------------------
(***************************************************************************)
(* How a replicator reaches its peers: sync_with_peers, which run_loop     *)
(* calls at every tick, connect_ticket with the tickets of                 *)
(* src/discovery.rs, and the sessions that move the peers' states, beside  *)
(* the starts and shutdowns of Replicator. What a session exchanges is the *)
(* subject of SyncSession; here it begins, and ends well or not.           *)
(* The list of discovered peers is left out: no code of the crate adds to  *)
(* it, so mark_connected finds nothing. DiscoveryManager keeps nothing     *)
(* else, and its self_endpoint_id is never set.                            *)
(***************************************************************************)
EXTENDS Replicator

CONSTANTS Connectors,   \* tasks that call connect_ticket
          Peers, NoPeer,
          TicketPeers,  \* the peers of whom somebody has a ticket
          MaxAddresses  \* bound: addresses in a ticket

ASSUME DialingAssumption ==
  NoPeer \notin Peers /\ TicketPeers \subseteq Peers /\ MaxAddresses \in Nat

VARIABLES
  peerState, \* peer -> its entry in the SyncManager: "unknown" if it has none,
             \* "synchronized", or "behind" (every other SyncState)
  todo,      \* peers sync_with_peers has still to dial
  turn,      \* the peer for which the endpoint was cloned last, or NoPeer
  dialing,   \* the peer connect_to_peer connects to, or NoPeer
  through,   \* the clone it is given
  serving,   \* peers with a session handle_connection serves
  ticket     \* connector -> its connect_ticket

peerVars == <<peerState, todo, turn, dialing, through, serving, ticket>>
dialVars == <<vars, peerVars>>

NoTicket == [at |-> "idle", peer |-> NoPeer, left |-> 0, endpoint |-> NoEndpoint]

\* A SyncManager is new, or was restored from a snapshot that named peers.
DialInit ==
  /\ Init
  /\ peerState \in [Peers -> {"unknown", "behind"}]
  /\ todo = {} /\ turn = NoPeer /\ dialing = NoPeer /\ through = NoEndpoint /\ serving = {}
  /\ ticket = [k \in Connectors |-> NoTicket]

----------------------------------------------------------------------------
(* sync_with_peers                                                         *)

\* The peers' states are copied once, at the tick; a Synchronized one is passed
\* over.
DialTick(g) ==
  /\ LoopTick(g)
  /\ todo' = {p \in Peers : peerState[p] = "behind"}
  /\ UNCHANGED <<peerState, turn, dialing, through, serving, ticket>>

\* A peer's turn: the slot is read anew and the endpoint cloned; a peer whose
\* turn finds the slot empty is passed over.
DialRead(g, p) ==
  /\ loop[g] = "syncing" /\ turn = NoPeer /\ dialing = NoPeer /\ p \in todo
  /\ todo' = todo \ {p}
  /\ IF endpoint = NoEndpoint THEN UNCHANGED <<turn, through>>
                              ELSE turn' = p /\ through' = endpoint
  /\ UNCHANGED <<vars, peerState, dialing, serving, ticket>>

\* connect_to_peer begins, through the clone: shutdown may have taken the
\* endpoint out of the slot in between, and closed it.
DialBegin(g) ==
  /\ loop[g] = "syncing" /\ turn # NoPeer
  /\ turn' = NoPeer /\ dialing' = turn
  /\ UNCHANGED <<vars, peerState, todo, through, serving, ticket>>

\* The connection is made, and dropped at once: connect_to_peer returns Ok(()).
DialConnected(g) ==
  /\ loop[g] = "syncing" /\ dialing # NoPeer /\ through \notin closed
  /\ dialing' = NoPeer /\ through' = NoEndpoint
  /\ UNCHANGED <<vars, peerState, todo, turn, serving, ticket>>

\* Faulty variant: the first peer that cannot be reached ends the round.
DialStops(g) ==
  /\ loop[g] = "syncing" /\ dialing # NoPeer
  /\ dialing' = NoPeer /\ through' = NoEndpoint /\ todo' = {}
  /\ UNCHANGED <<vars, peerState, turn, serving, ticket>>

\* The peer cannot be reached, or the endpoint is closed: the error is logged.
DialFailed(g) ==
  /\ loop[g] = "syncing" /\ dialing # NoPeer
  /\ dialing' = NoPeer /\ through' = NoEndpoint
  /\ UNCHANGED <<vars, peerState, todo, turn, serving, ticket>>

DialEnd(g) ==
  /\ LoopSynced(g) /\ todo = {} /\ turn = NoPeer /\ dialing = NoPeer
  /\ UNCHANGED peerVars

----------------------------------------------------------------------------
(* Sessions a peer opens: handle_connection. It leaves the peer            *)
(* Synchronized when its loop ends, also by a failed read, and Syncing     *)
(* when it returns an error.                                               *)

SessionAccepted(p) ==
  /\ p \notin serving
  /\ \E g \in Starts : accept[g] = "accepting" /\ g \notin closed
  /\ serving' = serving \cup {p}
  /\ peerState' = [peerState EXCEPT ![p] = "behind"]
  /\ UNCHANGED <<vars, todo, turn, dialing, through, ticket>>

SessionServed(p) ==
  /\ p \in serving
  /\ serving' = serving \ {p}
  /\ peerState' \in {peerState, [peerState EXCEPT ![p] = "synchronized"]}
  /\ UNCHANGED <<vars, todo, turn, dialing, through, ticket>>

----------------------------------------------------------------------------
(* connect_ticket                                                          *)

\* generate_ticket puts no address into a ticket, discover finds none for a peer.
GeneratedAddresses == 0
Discovered == 0

\* The addresses in a ticket of this crate or of an application. (A ticket that
\* does not parse is refused.)
TicketAddresses == {GeneratedAddresses} \cup 1..MaxAddresses

ConnectTicket(k, p, n) ==
  /\ ~dropped /\ ticket[k] = NoTicket
  /\ ticket' = [ticket EXCEPT ![k] = [NoTicket EXCEPT
       !.at = "endpoint", !.peer = p, !.left = IF n = 0 THEN Discovered ELSE n]]
  /\ UNCHANGED <<vars, peerState, todo, turn, dialing, through, serving>>

\* The endpoint is cloned once, for all addresses. An empty slot is an error,
\* a ticket without addresses PeerNotFound.
ConnectEndpoint(k) ==
  /\ ticket[k].at = "endpoint"
  /\ ticket' = [ticket EXCEPT ![k] =
       IF endpoint = NoEndpoint \/ @.left = 0 THEN NoTicket
       ELSE [@ EXCEPT !.at = "try", !.endpoint = endpoint]]
  /\ UNCHANGED <<vars, peerState, todo, turn, dialing, through, serving>>

\* connect_and_sync reaches the address.
ConnectReaches(k) ==
  /\ ticket[k].at = "try" /\ ticket[k].endpoint \notin closed
  /\ ticket' = [ticket EXCEPT ![k].at = "session"]
  /\ peerState' = [peerState EXCEPT ![ticket[k].peer] = "behind"]
  /\ UNCHANGED <<vars, todo, turn, dialing, through, serving>>

\* The session returns Ok, and so does the call.
ConnectOk(k) ==
  /\ ticket[k].at = "session"
  /\ peerState' = [peerState EXCEPT ![ticket[k].peer] = "synchronized"]
  /\ ticket' = [ticket EXCEPT ![k] = NoTicket]
  /\ UNCHANGED <<vars, todo, turn, dialing, through, serving>>

\* Faulty variant: the address that failed is tried again.
ConnectRetries(k) ==
  /\ ticket[k].at \in {"try", "session"}
  /\ ticket' = [ticket EXCEPT ![k].at = "try"]
  /\ UNCHANGED <<vars, peerState, todo, turn, dialing, through, serving>>

\* The address or its session fails: the next one, or PeerNotFound.
ConnectFails(k) ==
  /\ ticket[k].at \in {"try", "session"}
  /\ ticket' = [ticket EXCEPT ![k] =
       IF @.left = 1 THEN NoTicket ELSE [@ EXCEPT !.at = "try", !.left = @ - 1]]
  /\ UNCHANGED <<vars, peerState, todo, turn, dialing, through, serving>>

----------------------------------------------------------------------------
DialLoop(g) ==
  \/ DialTick(g) \/ (\E p \in Peers : DialRead(g, p)) \/ DialBegin(g)
  \/ DialConnected(g) \/ DialFailed(g) \/ DialEnd(g)
  \/ /\ LoopSubscribe(g) \/ LoopSignal(g) \/ LoopTake(g) \/ LoopClose(g) \/ LoopClear(g)
     /\ UNCHANGED peerVars

ConnectStep(k) ==
  \/ \E p \in TicketPeers, n \in TicketAddresses : ConnectTicket(k, p, n)
  \/ ConnectEndpoint(k) \/ ConnectReaches(k) \/ ConnectOk(k) \/ ConnectFails(k)

\* Drop: connect_ticket is not under way either.
DialNext ==
  \/ \E c \in Callers : CallerStep(c) /\ UNCHANGED peerVars
  \/ \E g \in Starts : DialLoop(g) \/ (AcceptEnds(g) /\ UNCHANGED peerVars)
  \/ \E p \in Peers : SessionAccepted(p) \/ SessionServed(p)
  \/ \E k \in Connectors : ConnectStep(k)
  \/ Drop /\ (\A k \in Connectors : ticket[k] = NoTicket) /\ UNCHANGED peerVars

\* The loop's task runs whenever it is ready, its timer ticks and an attempt to
\* connect ends (iroh has a timeout of its own). Nobody has to call anything,
\* and a session need not end while its connection lives; closing the endpoint
\* ends it.
DialSpec ==
  /\ DialInit /\ [][DialNext]_dialVars
  /\ \A g \in Starts : WF_dialVars(DialLoop(g))
  /\ \A k \in Connectors : WF_dialVars(ticket[k].endpoint \in closed /\ ConnectFails(k))

----------------------------------------------------------------------------
(* Properties                                                              *)

\* A round of sync_with_peers only ever uses the endpoint of its own start,
\* although it reads the slot anew for every peer while others shut down and
\* start; and no dial is under way, or about to begin, once the loop is out of
\* its round. (The endpoint need not be open any more.)
DialsOwnEndpoint ==
  (turn # NoPeer \/ dialing # NoPeer) =>
    \E g \in Starts : loop[g] = "syncing" /\ through = g

\* The loop "handles discovery automatically" by connect_to_peer
\* (src/replicator.rs:359): a known peer that is not Synchronized is dialled,
\* however many others fail or change their state in the meantime, unless it
\* becomes Synchronized or the replicator loses its endpoint. Nothing is said of
\* what follows the connection: the code drops it, and syncs with nobody.
KnownPeersDialled ==
  \A p \in Peers :
    (endpoint # NoEndpoint /\ Subscribed(endpoint) /\ peerState[p] = "behind") ~>
       (dialing = p \/ peerState[p] = "synchronized" \/ endpoint = NoEndpoint)

\* A shutdown releases a caller that connect_ticket keeps waiting: once the
\* endpoint it has cloned is closed, the call returns, with any number of
\* addresses still to try.
ShutdownFreesConnect ==
  \A k \in Connectors : (ticket[k].endpoint \in closed) ~> (ticket[k] = NoTicket)
=============================================================================
