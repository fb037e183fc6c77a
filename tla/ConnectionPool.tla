--------------------------- MODULE ConnectionPool ---------------------------
(***************************************************************************)
(* src/pool.rs: callers that share a pool of one connection per peer. A    *)
(* caller gets a connection, uses it and releases it or removes it; both   *)
(* name the peer and not the connection. get_connection looks into the     *)
(* pool, awaits a new connection and inserts it in two critical sections.  *)
(* Connections are numbered in the order they enter the pool, the order of *)
(* created_at. Age and idle time are two flags that time sets. The flag    *)
(* marked_closed is left out: cleanup sets it on what it removes.          *)
(***************************************************************************)
EXTENDS Naturals, FiniteSets, FiniteSetsExt

CONSTANTS Users,          \* callers of the pool
          Peers,
          MaxConnections, \* config.max_connections
          MaxUses,        \* config.max_uses, 0 for unlimited
          MaxMade         \* bound: connections made

NoPeer == "none"

ASSUME PoolAssumption ==
  /\ IsFiniteSet(Users) /\ NoPeer \notin Peers
  /\ MaxConnections \in Nat /\ MaxUses \in Nat /\ MaxMade \in Nat

VARIABLES
  pool,      \* the peers with an entry -> the entry
  made,      \* number of connections that entered the pool
  pc,        \* user -> "idle", "connect" or "using"
  peer,      \* user -> the peer it deals with, or NoPeer
  conn,      \* user -> the connection it uses, or 0
  contended  \* history: peers two users have dealt with at a time, and some still does

vars == <<pool, made, pc, peer, conn, contended>>

Init ==
  /\ pool = [p \in {} |-> 0] /\ made = 0
  /\ pc = [u \in Users |-> "idle"]
  /\ peer = [u \in Users |-> NoPeer]
  /\ conn = [u \in Users |-> 0]
  /\ contended = {}

\* The history variable after a step in which peer changes.
Watch ==
  contended' = {p \in Peers : \/ \E u, v \in Users : u # v /\ peer'[u] = p /\ peer'[v] = p
                              \/ p \in contended /\ \E u \in Users : peer'[u] = p}

UsesLeft(e) == MaxUses = 0 \/ e.uses < MaxUses

IsConnectionHealthy(e) == ~e.aged /\ ~e.idle /\ UsesLeft(e)
Available(p) == p \in DOMAIN pool /\ ~pool[p].inUse /\ IsConnectionHealthy(pool[p])

Without(f, p) == [q \in DOMAIN f \ {p} |-> f[q]]
With(f, p, e) == [q \in DOMAIN f \cup {p} |-> IF q = p THEN e ELSE f[q]]

----------------------------------------------------------------------------
(* get_connection                                                          *)

\* The pool has a healthy connection that is free: mark_used.
GetReuse(u, p) ==
  /\ pc[u] = "idle" /\ Available(p)
  /\ pool' = [pool EXCEPT ![p].uses = @ + 1, ![p].inUse = TRUE]
  /\ pc' = [pc EXCEPT ![u] = "using"]
  /\ peer' = [peer EXCEPT ![u] = p]
  /\ conn' = [conn EXCEPT ![u] = pool[p].conn]
  /\ Watch
  /\ UNCHANGED made

GetMiss(u, p) ==
  /\ pc[u] = "idle" /\ ~Available(p)
  /\ pc' = [pc EXCEPT ![u] = "connect"]
  /\ peer' = [peer EXCEPT ![u] = p]
  /\ Watch
  /\ UNCHANGED <<pool, made, conn>>

ConnectFails(u) ==
  /\ pc[u] = "connect"
  /\ pc' = [pc EXCEPT ![u] = "idle"]
  /\ peer' = [peer EXCEPT ![u] = NoPeer]
  /\ Watch
  /\ UNCHANGED <<pool, made, conn>>

\* Faulty variant: nothing is evicted.
EvictNone == pool

\* At capacity the oldest connection that is not in use goes, also when the new
\* one will replace the entry of its own peer.
Unused == {p \in DOMAIN pool : ~pool[p].inUse}
Evict ==
  IF Cardinality(DOMAIN pool) < MaxConnections \/ Unused = {} THEN pool
  ELSE Without(pool, CHOOSE p \in Unused : \A q \in Unused : pool[p].conn <= pool[q].conn)

\* Faulty variant: mark_used is forgotten.
FreshUnmarked == [conn |-> made + 1, uses |-> 1, inUse |-> FALSE, aged |-> FALSE, idle |-> FALSE]

Fresh == [conn |-> made + 1, uses |-> 1, inUse |-> TRUE, aged |-> FALSE, idle |-> FALSE]

\* The connection is made: evict, insert, mark_used. An entry of the same peer
\* that another caller inserted or uses is replaced.
GetInsert(u) ==
  /\ pc[u] = "connect" /\ made < MaxMade
  /\ pool' = With(Evict, peer[u], Fresh)
  /\ made' = made + 1
  /\ conn' = [conn EXCEPT ![u] = made + 1]
  /\ pc' = [pc EXCEPT ![u] = "using"]
  /\ UNCHANGED <<peer, contended>>

----------------------------------------------------------------------------
(* release, remove, cleanup, time                                          *)

Leave(u) ==
  /\ pc[u] = "using"
  /\ pc' = [pc EXCEPT ![u] = "idle"]
  /\ peer' = [peer EXCEPT ![u] = NoPeer]
  /\ conn' = [conn EXCEPT ![u] = 0]
  /\ Watch
  /\ UNCHANGED made

\* Faulty variant: last_used is brought up to date, the flag is not.
ReleaseTouches(u) ==
  /\ Leave(u)
  /\ pool' = IF peer[u] \in DOMAIN pool THEN [pool EXCEPT ![peer[u]].idle = FALSE] ELSE pool

\* release: whatever entry the peer has becomes free.
Release(u) ==
  /\ Leave(u)
  /\ pool' = IF peer[u] \in DOMAIN pool
             THEN [pool EXCEPT ![peer[u]].inUse = FALSE, ![peer[u]].idle = FALSE]
             ELSE pool

\* remove, by a caller whose connection broke.
Remove(u) ==
  /\ Leave(u)
  /\ pool' = Without(pool, peer[u])

\* cleanup keeps what is healthy and free; a connection in use loses its entry.
Cleanup ==
  /\ pool' = [p \in {q \in DOMAIN pool : Available(q)} |-> pool[p]]
  /\ UNCHANGED <<made, pc, peer, conn, contended>>

\* Time passes: a connection becomes too old or was not used for too long.
Expire(p) ==
  /\ p \in DOMAIN pool
  /\ \/ pool' = [pool EXCEPT ![p].aged = TRUE]
     \/ pool' = [pool EXCEPT ![p].idle = TRUE]
  /\ UNCHANGED <<made, pc, peer, conn, contended>>

Next ==
  \/ \E u \in Users, p \in Peers : GetReuse(u, p) \/ GetMiss(u, p)
  \/ \E u \in Users : ConnectFails(u) \/ GetInsert(u) \/ Release(u) \/ Remove(u)
  \/ Cleanup
  \/ \E p \in Peers : Expire(p)

Spec == Init /\ [][Next]_vars

----------------------------------------------------------------------------
(* Properties                                                              *)

\* "Whether the connection is being used" (src/pool.rs:28), one way: an entry
\* marked in use has a user. Were one left behind, its place in the pool would
\* be lost for ever: it can be neither reused nor evicted.
InUseIsUsed ==
  \A p \in DOMAIN pool : pool[p].inUse =>
     \E u \in Users : pc[u] = "using" /\ peer[u] = p /\ conn[u] = pool[p].conn

\* The other way: an entry that is free has no user, and two users never share
\* a connection, except for a peer on which callers overlap: there a release
\* names the peer and frees what another caller uses. When the last of them has
\* left, order is restored.
FreeIsUnused ==
  \A u \in Users : (pc[u] = "using" /\ peer[u] \notin contended) =>
     /\ \A p \in DOMAIN pool : (pool[p].conn = conn[u]) => p = peer[u] /\ pool[p].inUse
     /\ \A v \in Users : conn[v] = conn[u] => v = u

\* The size of the pool (src/pool.rs:90, 211): an insert that finds every entry in
\* use exceeds max_connections, and what it added may stay when it is free again;
\* but however often this happens, the pool never holds more connections than
\* max_connections or, if there are more of them, callers. And "Maximum uses per
\* connection (0 = unlimited)" (src/pool.rs:96) is kept by every one of them.
PoolBounded ==
  /\ Cardinality(DOMAIN pool) <= Max({MaxConnections, Cardinality(Users)})
  /\ \A p \in DOMAIN pool : MaxUses > 0 => pool[p].uses <= MaxUses
=============================================================================
