----------------------------- MODULE PoolProofs -----------------------------
(***************************************************************************)
(* Proofs about ConnectionPool, for every set of peers, every finite set   *)
(* of callers and every limit.                                             *)
(***************************************************************************)
EXTENDS ConnectionPool, FiniteSetTheorems, WellFoundedInduction, TLAPS

USE PoolAssumption

(* ------------------------- the inductive invariant ---------------------- *)

Entry(n) == [conn : 1..n, uses : Nat, inUse : BOOLEAN, aged : BOOLEAN, idle : BOOLEAN]

PoolType ==
  /\ made \in Nat
  /\ DOMAIN pool \subseteq Peers /\ IsFiniteSet(DOMAIN pool)
  /\ pool \in [DOMAIN pool -> Entry(made)]
  /\ pc \in [Users -> {"idle", "connect", "using"}]
  /\ peer \in [Users -> Peers \cup {NoPeer}]
  /\ conn \in [Users -> 0..made]
  /\ contended \subseteq Peers

\* A caller names a peer from get_connection to release or remove, and holds a
\* connection from the moment it is handed one.
CallersInStep ==
  \A u \in Users : /\ pc[u] = "idle" <=> peer[u] = NoPeer
                   /\ pc[u] = "using" <=> conn[u] # 0

\* A connection belongs to one peer, in the pool and with its users.
OnePeerEach ==
  /\ \A p, q \in DOMAIN pool : pool[p].conn = pool[q].conn => p = q
  /\ \A u \in Users, p \in DOMAIN pool : pool[p].conn = conn[u] => p = peer[u]
  /\ \A u, v \in Users : conn[u] # 0 /\ conn[u] = conn[v] => peer[u] = peer[v]

\* The history variable knows every peer on which two callers overlap.
OverlapSeen ==
  \A u, v \in Users : u # v /\ peer[u] = peer[v] /\ peer[u] \in Peers => peer[u] \in contended

\* What FreeIsUnused adds to OnePeerEach: the entry of an uncontended caller is
\* marked.
UncontendedMarked ==
  \A u \in Users, p \in DOMAIN pool :
    (pool[p].conn = conn[u] /\ peer[u] \notin contended) => pool[p].inUse

PoolInv ==
  /\ PoolType /\ CallersInStep /\ OnePeerEach /\ OverlapSeen
  /\ InUseIsUsed /\ UncontendedMarked /\ PoolBounded

\* The larger of two numbers.
LEMMA MaxOfTwo ==
  ASSUME NEW a \in Nat, NEW b \in Nat
  PROVE  Max({a, b}) = IF a >= b THEN a ELSE b
<1> DEFINE m == IF a >= b THEN a ELSE b
<1>1. m \in {a, b} /\ \A y \in {a, b} : m >= y
  OBVIOUS
<1>2. \A x \in {a, b} : (\A y \in {a, b} : x >= y) => x = m
  OBVIOUS
<1> HIDE DEF m
<1>3. Max({a, b}) \in {a, b} /\ \A y \in {a, b} : Max({a, b}) >= y
  BY <1>1, Zenon DEF Max
<1> QED BY <1>2, <1>3 DEF m

\* The pool starts empty, with no caller (ConnectionPool::new).
LEMMA InitPoolInv == Init => PoolInv
<1> SUFFICES ASSUME Init PROVE PoolInv
  OBVIOUS
<1>1. DOMAIN pool = {} /\ made = 0 /\ IsFiniteSet({}) /\ Cardinality({}) = 0
  BY FS_EmptySet DEF Init
<1>2. pool \in [DOMAIN pool -> Entry(made)]
  BY <1>1 DEF Init
<1>3. PoolType
  BY <1>1, <1>2 DEF Init, PoolType
<1>4. PoolBounded
  <2>1. Cardinality(Users) \in Nat
    BY FS_CardinalityType
  <2> QED BY <1>1, <2>1, MaxOfTwo DEF PoolBounded
<1> QED
  BY <1>1, <1>3, <1>4 DEF Init, PoolInv, CallersInStep, OnePeerEach, OverlapSeen,
                       InUseIsUsed, UncontendedMarked

\* A step that changes the peer of one caller and keeps the history variable up
\* to date sees every overlap, and forgets no peer that another caller deals with.
LEMMA WatchSees ==
  ASSUME PoolType, Watch, NEW u \in Users, NEW x, peer' = [peer EXCEPT ![u] = x]
  PROVE  /\ OverlapSeen' /\ contended' \subseteq Peers
         /\ \A v \in Users \ {u} :
              peer'[v] = peer[v] /\ (peer[v] \in contended => peer[v] \in contended')
<1>1. OverlapSeen' /\ contended' \subseteq Peers
  BY DEF Watch, OverlapSeen
<1>2. \A v \in Users \ {u} : peer'[v] = peer[v]
  BY DEF PoolType
<1>3. \A v \in Users : peer'[v] \in contended => peer'[v] \in contended'
  BY DEF PoolType, Watch
<1> QED BY <1>1, <1>2, <1>3

\* What a caller that marks an entry as used leaves in it.
LEMMA MarkedEntry ==
  ASSUME NEW n \in Nat, NEW e \in Entry(n),
         NEW f, f = [e EXCEPT !.uses = e.uses + 1, !.inUse = TRUE]
  PROVE  /\ f \in Entry(n) /\ f.conn = e.conn /\ f.uses = e.uses + 1 /\ f.inUse = TRUE
<1>1. f = [conn |-> e.conn, uses |-> e.uses + 1, inUse |-> TRUE, aged |-> e.aged, idle |-> e.idle]
  BY DEF Entry
<1>2. e.conn \in 1..n /\ e.uses + 1 \in Nat /\ e.aged \in BOOLEAN /\ e.idle \in BOOLEAN
  BY DEF Entry
<1>3. f \in Entry(n)
  BY <1>1, <1>2, Zenon DEF Entry
<1> QED BY <1>1, <1>3

(* ------------------------------ get_connection --------------------------- *)

\* get_connection that finds a connection it can reuse marks it in use for its caller.
LEMMA ReuseKeepsInv ==
  ASSUME PoolInv, NEW u \in Users, NEW p \in Peers, GetReuse(u, p)
  PROVE  PoolInv'
<1>1. /\ pc[u] = "idle" /\ p \in DOMAIN pool /\ ~pool[p].inUse /\ UsesLeft(pool[p])
      /\ pool' = [pool EXCEPT ![p].uses = @ + 1, ![p].inUse = TRUE]
      /\ pc' = [pc EXCEPT ![u] = "using"] /\ peer' = [peer EXCEPT ![u] = p]
      /\ conn' = [conn EXCEPT ![u] = pool[p].conn] /\ made' = made
  BY DEF GetReuse, Available, IsConnectionHealthy
<1>w. Watch
  BY DEF GetReuse
<1>2. /\ PoolType /\ CallersInStep /\ OnePeerEach /\ OverlapSeen
      /\ InUseIsUsed /\ UncontendedMarked /\ PoolBounded
  BY DEF PoolInv
<1>3. /\ DOMAIN pool' = DOMAIN pool
      /\ \A q \in DOMAIN pool : q # p => pool'[q] = pool[q]
      /\ pool'[p].conn = pool[p].conn /\ pool'[p].uses = pool[p].uses + 1
      /\ pool'[p].inUse = TRUE
      /\ pool'[p] \in Entry(made)
  <2> DEFINE e == pool[p]
  <2>1. pool' = [pool EXCEPT ![p] = [e EXCEPT !.uses = @ + 1, !.inUse = TRUE]]
    BY <1>1
  <2>2. e \in Entry(made)
    BY <1>1, <1>2 DEF PoolType
  <2> HIDE DEF e
  <2>3. pool'[p] = [e EXCEPT !.uses = e.uses + 1, !.inUse = TRUE]
    BY <2>1, <1>1
  <2>4. /\ DOMAIN pool' = DOMAIN pool
        /\ \A q \in DOMAIN pool : q # p => pool'[q] = pool[q]
    BY <2>1, <1>2 DEF PoolType
  <2>5. made \in Nat
    BY <1>2 DEF PoolType
  <2>6. /\ pool'[p] \in Entry(made) /\ pool'[p].conn = e.conn /\ pool'[p].uses = e.uses + 1
        /\ pool'[p].inUse = TRUE
    BY <2>2, <2>3, <2>5, MarkedEntry
  <2> QED BY <2>4, <2>6 DEF e
<1>4. PoolType'
  <2>1. pool' \in [DOMAIN pool' -> Entry(made')]
    BY <1>1, <1>2, <1>3 DEF PoolType
  <2>2. pool[p].conn \in 0..made
    BY <1>1, <1>2 DEF PoolType, Entry
  <2>3. contended' \subseteq Peers
    BY <1>1, <1>2, <1>w, WatchSees
  <2> QED BY <1>1, <1>2, <1>3, <2>1, <2>2, <2>3 DEF PoolType
<1>5. pool[p].conn # 0 /\ p # NoPeer
  BY <1>1, <1>2 DEF PoolType, Entry
<1>6. CallersInStep'
  BY <1>1, <1>2, <1>5 DEF CallersInStep, PoolType
<1>7. OnePeerEach'
  BY <1>1, <1>2, <1>3, <1>5 DEF OnePeerEach, PoolType
<1>8. OverlapSeen'
  BY <1>1, <1>2, <1>w, WatchSees
<1>9. InUseIsUsed'
  BY <1>1, <1>2, <1>3 DEF InUseIsUsed, CallersInStep, PoolType
<1>10. \A v \in Users : v # u => (peer[v] \in contended => peer'[v] \in contended')
  BY <1>1, <1>2, <1>w, WatchSees
<1>11. UncontendedMarked'
  <2> SUFFICES ASSUME NEW v \in Users, NEW q \in DOMAIN pool, q # p,
                      pool[q].conn = conn'[v], peer'[v] \notin contended'
               PROVE  pool[q].inUse
    BY <1>3 DEF UncontendedMarked
  <2>1. v # u
    BY <1>1, <1>2 DEF OnePeerEach, PoolType
  <2>2. conn'[v] = conn[v] /\ peer[v] \notin contended
    BY <1>1, <1>2, <1>10, <2>1 DEF PoolType
  <2> QED BY <1>2, <2>2 DEF UncontendedMarked
<1>12. PoolBounded'
  BY <1>1, <1>2, <1>3 DEF PoolBounded, UsesLeft, PoolType, Entry
<1> QED BY <1>4, <1>6, <1>7, <1>8, <1>9, <1>11, <1>12 DEF PoolInv

\* get_connection that finds none goes on to connect and changes nothing else.
LEMMA MissKeepsInv ==
  ASSUME PoolInv, NEW u \in Users, NEW p \in Peers, GetMiss(u, p)
  PROVE  PoolInv'
<1>1. /\ pc[u] = "idle" /\ pc' = [pc EXCEPT ![u] = "connect"]
      /\ peer' = [peer EXCEPT ![u] = p] /\ pool' = pool /\ made' = made /\ conn' = conn
  BY DEF GetMiss
<1>w. Watch
  BY DEF GetMiss
<1>2. /\ PoolType /\ CallersInStep /\ OnePeerEach /\ OverlapSeen
      /\ InUseIsUsed /\ UncontendedMarked /\ PoolBounded
  BY DEF PoolInv
<1>3. conn[u] = 0 /\ \A q \in DOMAIN pool : pool[q].conn # 0
  BY <1>1, <1>2 DEF CallersInStep, PoolType, Entry
<1>4. PoolType' /\ CallersInStep'
  <2>1. contended' \subseteq Peers
    BY <1>1, <1>2, <1>w, WatchSees
  <2> QED BY <1>1, <1>2, <2>1 DEF PoolType, CallersInStep
<1>5. OnePeerEach'
  BY <1>1, <1>2, <1>3 DEF OnePeerEach, PoolType
<1>6. OverlapSeen'
  BY <1>1, <1>2, <1>w, WatchSees
<1>7. InUseIsUsed'
  BY <1>1, <1>2 DEF InUseIsUsed, PoolType
<1>8. \A v \in Users : v # u => (peer[v] \in contended => peer'[v] \in contended')
  BY <1>1, <1>2, <1>w, WatchSees
<1>9. UncontendedMarked'
  BY <1>1, <1>2, <1>3, <1>8 DEF UncontendedMarked, PoolType
<1>10. PoolBounded'
  BY <1>1, <1>2 DEF PoolBounded
<1> QED BY <1>4, <1>5, <1>6, <1>7, <1>9, <1>10 DEF PoolInv

\* The connection attempt failed: the caller goes, the pool stays.
LEMMA ConnectFailsKeepsInv ==
  ASSUME PoolInv, NEW u \in Users, ConnectFails(u)
  PROVE  PoolInv'
<1>1. /\ pc[u] = "connect" /\ pc' = [pc EXCEPT ![u] = "idle"]
      /\ peer' = [peer EXCEPT ![u] = NoPeer] /\ pool' = pool /\ made' = made /\ conn' = conn
  BY DEF ConnectFails
<1>w. Watch
  BY DEF ConnectFails
<1>2. /\ PoolType /\ CallersInStep /\ OnePeerEach /\ OverlapSeen
      /\ InUseIsUsed /\ UncontendedMarked /\ PoolBounded
  BY DEF PoolInv
<1>3. conn[u] = 0 /\ \A q \in DOMAIN pool : pool[q].conn # 0
  BY <1>1, <1>2 DEF CallersInStep, PoolType, Entry
<1>4. /\ OverlapSeen' /\ contended' \subseteq Peers
      /\ \A v \in Users \ {u} :
           peer'[v] = peer[v] /\ (peer[v] \in contended => peer[v] \in contended')
  BY <1>1, <1>2, <1>w, WatchSees
<1>5. PoolType' /\ CallersInStep'
  BY <1>1, <1>2, <1>4 DEF PoolType, CallersInStep
<1>6. OnePeerEach'
  BY <1>1, <1>2, <1>3, <1>4 DEF OnePeerEach, PoolType
<1>7. InUseIsUsed'
  BY <1>1, <1>2 DEF InUseIsUsed, PoolType
<1>8. UncontendedMarked'
  BY <1>1, <1>2, <1>3, <1>4 DEF UncontendedMarked, PoolType
<1>9. PoolBounded'
  BY <1>1, <1>2 DEF PoolBounded
<1> QED BY <1>4, <1>5, <1>6, <1>7, <1>8, <1>9 DEF PoolInv

\* The oldest of some entries exists: connections have numbers.
LEMMA OldestExists ==
  ASSUME PoolType, NEW S, S \subseteq DOMAIN pool, S # {}
  PROVE  \E p \in S : \A q \in S : pool[p].conn <= pool[q].conn
<1> DEFINE R == {ss \in Nat \X Nat : ss[1] < ss[2]}
           T == {pool[p].conn : p \in S}
<1>1. IsWellFoundedOn(R, Nat)
  BY NatLessThanWellFounded DEF OpToRel
<1>2. T \subseteq Nat /\ T # {}
  BY DEF PoolType, Entry
<1>3. \A x, y \in Nat : ~ (<<y, x>> \in R) => x <= y
  OBVIOUS
<1> HIDE DEF R
<1>4. \E x \in T : \A y \in T : ~ (<<y, x>> \in R)
  BY <1>1, <1>2, WFMin
<1>5. PICK x \in T : \A y \in T : x <= y
  BY <1>2, <1>3, <1>4
<1> QED BY <1>5

\* An element more adds at most one to the size.
LEMMA OneMore ==
  ASSUME NEW S, IsFiniteSet(S), NEW x
  PROVE  /\ IsFiniteSet(S \cup {x})
         /\ Cardinality(S \cup {x}) \in Nat /\ Cardinality(S) \in Nat
         /\ Cardinality(S \cup {x}) <= Cardinality(S) + 1
<1>1. IsFiniteSet(S \cup {x})
  BY FS_AddElement
<1>2. Cardinality(S \cup {x}) \in Nat /\ Cardinality(S) \in Nat
  BY <1>1, FS_CardinalityType
<1>3. Cardinality(S \cup {x}) = IF x \in S THEN Cardinality(S) ELSE Cardinality(S) + 1
  BY FS_AddElement
<1>4. Cardinality(S \cup {x}) <= Cardinality(S) + 1
  BY <1>2, <1>3
<1> QED BY <1>1, <1>2, <1>4

\* Eviction takes entries away and changes none, and with the entry of the new
\* connection the pool is within its bound: there was room, or an entry that
\* nobody uses went, or every entry has a user that is not the one inserting.
LEMMA EvictMakesRoom ==
  ASSUME PoolInv, NEW u \in Users, pc[u] = "connect"
  PROVE  /\ DOMAIN Evict \subseteq DOMAIN pool /\ \A q \in DOMAIN Evict : Evict[q] = pool[q]
         /\ IsFiniteSet(DOMAIN Evict \cup {peer[u]})
         /\ Cardinality(DOMAIN Evict \cup {peer[u]}) <= Max({MaxConnections, Cardinality(Users)})
<1> DEFINE n == Cardinality(DOMAIN pool)
           m == Cardinality(Users)
           old == CHOOSE p \in Unused : \A q \in Unused : pool[p].conn <= pool[q].conn
<1>1. PoolType /\ InUseIsUsed /\ IsFiniteSet(DOMAIN pool) /\ n <= Max({MaxConnections, m})
  BY DEF PoolInv, PoolType, PoolBounded
<1>2. n \in Nat /\ m \in Nat /\ Max({MaxConnections, m}) = IF MaxConnections >= m THEN MaxConnections ELSE m
  BY <1>1, FS_CardinalityType, MaxOfTwo
<1>3. CASE n < MaxConnections
  <2>1. Evict = pool
    BY <1>3 DEF Evict
  <2>2. /\ IsFiniteSet(DOMAIN pool \cup {peer[u]})
        /\ Cardinality(DOMAIN pool \cup {peer[u]}) \in Nat
        /\ Cardinality(DOMAIN pool \cup {peer[u]}) <= n + 1
    BY <1>1, OneMore
  <2> QED BY <1>2, <1>3, <2>1, <2>2
<1>4. CASE ~(n < MaxConnections) /\ Unused # {}
  <2>1. Unused \subseteq DOMAIN pool
    BY DEF Unused
  <2>2. old \in Unused
    <3>1. \E p \in Unused : \A q \in Unused : pool[p].conn <= pool[q].conn
      BY <1>1, <1>4, <2>1, OldestExists
    <3> QED BY <3>1, Zenon
  <2> HIDE DEF old
  <2>3. Evict = Without(pool, old)
    BY <1>4 DEF Evict, old
  <2>4. DOMAIN Evict = DOMAIN pool \ {old} /\ \A q \in DOMAIN Evict : Evict[q] = pool[q]
    BY <2>3 DEF Without
  <2>5. IsFiniteSet(DOMAIN pool \ {old}) /\ Cardinality(DOMAIN pool \ {old}) = n - 1
    BY <1>1, <2>1, <2>2, FS_RemoveElement
  <2>6. /\ IsFiniteSet(DOMAIN Evict \cup {peer[u]})
        /\ Cardinality(DOMAIN Evict \cup {peer[u]}) \in Nat
        /\ Cardinality(DOMAIN Evict \cup {peer[u]}) <= (n - 1) + 1
    BY <2>4, <2>5, OneMore
  <2> QED BY <1>1, <1>2, <2>4, <2>6
<1>5. CASE ~(n < MaxConnections) /\ Unused = {}
  <2>1. Evict = pool
    BY <1>5 DEF Evict
  <2> DEFINE others == Users \ {u}
             f == [q \in DOMAIN pool |-> CHOOSE v \in others : peer[v] = q]
  <2>2. \A q \in DOMAIN pool : \E v \in others : peer[v] = q
    BY <1>1, <1>5 DEF Unused, InUseIsUsed
  <2>3. \A q \in DOMAIN pool : f[q] \in others /\ peer[f[q]] = q
    BY <2>2
  <2>4. f \in Injection(DOMAIN pool, others)
    BY <2>3 DEF Injection, IsInjective
  <2>5. IsFiniteSet(others) /\ Cardinality(others) = m - 1
    BY FS_RemoveElement
  <2>6. n <= m - 1
    BY <2>4, <2>5, FS_Injection
  <2>7. /\ IsFiniteSet(DOMAIN pool \cup {peer[u]})
        /\ Cardinality(DOMAIN pool \cup {peer[u]}) \in Nat
        /\ Cardinality(DOMAIN pool \cup {peer[u]}) <= n + 1
    BY <1>1, OneMore
  <2> QED BY <1>2, <2>1, <2>6, <2>7
<1> QED BY <1>3, <1>4, <1>5

\* The new connection replaces whatever entry the peer has.
LEMMA InsertKeepsInv ==
  ASSUME PoolInv, NEW u \in Users, GetInsert(u)
  PROVE  PoolInv'
<1> DEFINE x == peer[u]
<1>1. /\ pc[u] = "connect" /\ made' = made + 1
      /\ pool' = With(Evict, x, Fresh)
      /\ conn' = [conn EXCEPT ![u] = made + 1] /\ pc' = [pc EXCEPT ![u] = "using"]
      /\ peer' = peer /\ contended' = contended
  BY DEF GetInsert
<1>2. /\ PoolType /\ CallersInStep /\ OnePeerEach /\ OverlapSeen
      /\ InUseIsUsed /\ UncontendedMarked /\ PoolBounded
  BY DEF PoolInv
<1>3. /\ DOMAIN Evict \subseteq DOMAIN pool /\ \A q \in DOMAIN Evict : Evict[q] = pool[q]
      /\ IsFiniteSet(DOMAIN Evict \cup {x})
      /\ Cardinality(DOMAIN Evict \cup {x}) <= Max({MaxConnections, Cardinality(Users)})
  BY <1>1, EvictMakesRoom
<1>4. x \in Peers /\ made \in Nat
  BY <1>1, <1>2 DEF PoolType, CallersInStep
<1>5. /\ DOMAIN pool' = DOMAIN Evict \cup {x} /\ pool'[x] = Fresh
      /\ \A q \in DOMAIN pool' : q # x => q \in DOMAIN pool /\ pool'[q] = pool[q]
      /\ pool' \in [DOMAIN pool' -> {pool'[q] : q \in DOMAIN pool'}]
  BY <1>1, <1>3 DEF With
<1>6. /\ Fresh \in Entry(made + 1) /\ Fresh.conn = made + 1 /\ Fresh.uses = 1 /\ Fresh.inUse = TRUE
  BY <1>4 DEF Fresh, Entry
<1>7. \A q \in DOMAIN pool : pool[q].conn \in 1..made
  BY <1>2 DEF PoolType, Entry
<1>8. \A v \in Users : conn[v] \in 0..made
  BY <1>2 DEF PoolType
<1>9. PoolType'
  <2>1. \A q \in DOMAIN pool' : pool'[q] \in Entry(made')
    <3> SUFFICES ASSUME NEW q \in DOMAIN pool' PROVE pool'[q] \in Entry(made + 1)
      BY <1>1
    <3>1. CASE q = x
      BY <1>5, <1>6, <3>1
    <3>2. CASE q # x
      <4>1. pool'[q] \in Entry(made)
        BY <1>2, <1>5, <3>2 DEF PoolType
      <4> QED BY <1>4, <4>1 DEF Entry
    <3> QED BY <3>1, <3>2
  <2>2. pool' \in [DOMAIN pool' -> Entry(made')]
    BY <1>5, <2>1
  <2>3. DOMAIN pool' \subseteq Peers /\ IsFiniteSet(DOMAIN pool')
    BY <1>2, <1>3, <1>4, <1>5 DEF PoolType
  <2>4. conn' \in [Users -> 0..made']
    BY <1>1, <1>2, <1>4 DEF PoolType
  <2> QED BY <1>1, <1>2, <1>4, <2>2, <2>3, <2>4 DEF PoolType
<1>10. CallersInStep'
  BY <1>1, <1>2, <1>4 DEF CallersInStep, PoolType
<1>11. \A v \in Users : v # u => conn'[v] = conn[v] /\ pc'[v] = pc[v]
  BY <1>1, <1>2 DEF PoolType
<1>12. conn'[u] = made + 1 /\ pc'[u] = "using"
  BY <1>1, <1>2 DEF PoolType
<1>13. OnePeerEach'
  <2>1. \A p, q \in DOMAIN pool' : pool'[p].conn = pool'[q].conn => p = q
    BY <1>2, <1>4, <1>5, <1>6, <1>7 DEF OnePeerEach
  <2>2. \A v \in Users, p \in DOMAIN pool' : pool'[p].conn = conn'[v] => p = peer'[v]
    BY <1>1, <1>2, <1>4, <1>5, <1>6, <1>7, <1>8, <1>11, <1>12 DEF OnePeerEach
  <2>3. \A v, w \in Users : conn'[v] # 0 /\ conn'[v] = conn'[w] => peer'[v] = peer'[w]
    BY <1>1, <1>2, <1>4, <1>8, <1>11, <1>12 DEF OnePeerEach
  <2> QED BY <2>1, <2>2, <2>3 DEF OnePeerEach
<1>14. OverlapSeen'
  BY <1>1, <1>2 DEF OverlapSeen
<1>15. InUseIsUsed'
  <2> SUFFICES ASSUME NEW q \in DOMAIN pool', pool'[q].inUse
               PROVE  \E v \in Users : pc'[v] = "using" /\ peer[v] = q /\ conn'[v] = pool'[q].conn
    BY <1>1 DEF InUseIsUsed
  <2>1. CASE q = x
    BY <1>5, <1>6, <1>12, <2>1
  <2>2. CASE q # x
    <3>1. PICK v \in Users : pc[v] = "using" /\ peer[v] = q /\ conn[v] = pool[q].conn
      BY <1>2, <1>5, <2>2 DEF InUseIsUsed
    <3> QED BY <1>5, <1>11, <2>2, <3>1
  <2> QED BY <2>1, <2>2
<1>16. UncontendedMarked'
  <2> SUFFICES ASSUME NEW v \in Users, NEW q \in DOMAIN pool', q # x,
                      pool'[q].conn = conn'[v], peer[v] \notin contended
               PROVE  pool'[q].inUse
    BY <1>1, <1>5, <1>6 DEF UncontendedMarked
  <2>1. v # u
    BY <1>4, <1>5, <1>7, <1>12
  <2> QED BY <1>2, <1>5, <1>11, <2>1 DEF UncontendedMarked
<1>17. PoolBounded'
  BY <1>2, <1>3, <1>5, <1>6 DEF PoolBounded
<1> QED BY <1>9, <1>10, <1>13, <1>14, <1>15, <1>16, <1>17 DEF PoolInv

(* ---------------------- release, remove, cleanup, time ------------------- *)

\* The pool loses entries, or the connections and their uses stay.
PoolKept ==
  /\ DOMAIN pool' \subseteq DOMAIN pool /\ pool' \in [DOMAIN pool' -> Entry(made)]
  /\ \A q \in DOMAIN pool' : pool'[q].conn = pool[q].conn /\ pool'[q].uses = pool[q].uses

\* What such a step leaves of the type and of the bound.
LEMMA KeptIsBounded ==
  ASSUME PoolInv, PoolKept
  PROVE  /\ DOMAIN pool' \subseteq Peers /\ IsFiniteSet(DOMAIN pool') /\ PoolBounded'
<1>1. DOMAIN pool \subseteq Peers /\ IsFiniteSet(DOMAIN pool) /\ PoolBounded
  BY DEF PoolInv, PoolType
<1>2. DOMAIN pool' \subseteq DOMAIN pool
  BY DEF PoolKept
<1>3. IsFiniteSet(DOMAIN pool') /\ Cardinality(DOMAIN pool') <= Cardinality(DOMAIN pool)
  BY <1>1, <1>2, FS_Subset
<1>4. Cardinality(DOMAIN pool') \in Nat /\ Cardinality(DOMAIN pool) \in Nat /\ Cardinality(Users) \in Nat
  BY <1>1, <1>3, FS_CardinalityType
<1>5. Max({MaxConnections, Cardinality(Users)}) \in Nat
  BY <1>4, MaxOfTwo
<1>6. Cardinality(DOMAIN pool') <= Max({MaxConnections, Cardinality(Users)})
  BY <1>1, <1>3, <1>4, <1>5 DEF PoolBounded
<1>7. \A p \in DOMAIN pool' : MaxUses > 0 => pool'[p].uses <= MaxUses
  BY <1>1 DEF PoolBounded, PoolKept
<1> QED BY <1>1, <1>2, <1>3, <1>6, <1>7 DEF PoolBounded

\* A caller leaves, and the entry of its peer goes or becomes free.
LEMMA LeaveKeepsInv ==
  ASSUME PoolInv, NEW u \in Users, Leave(u), PoolKept,
         \A q \in DOMAIN pool' : pool'[q].inUse = (pool[q].inUse /\ q # peer[u])
  PROVE  PoolInv'
<1>1. /\ pc[u] = "using" /\ pc' = [pc EXCEPT ![u] = "idle"]
      /\ peer' = [peer EXCEPT ![u] = NoPeer] /\ conn' = [conn EXCEPT ![u] = 0]
      /\ made' = made /\ Watch
  BY DEF Leave
<1>2. /\ PoolType /\ CallersInStep /\ OnePeerEach /\ OverlapSeen
      /\ InUseIsUsed /\ UncontendedMarked /\ PoolBounded
  BY DEF PoolInv
<1>3. /\ OverlapSeen' /\ contended' \subseteq Peers
      /\ \A v \in Users \ {u} :
           peer'[v] = peer[v] /\ (peer[v] \in contended => peer[v] \in contended')
  BY <1>1, <1>2, WatchSees
<1>4. \A v \in Users \ {u} : conn'[v] = conn[v] /\ pc'[v] = pc[v]
  BY <1>1, <1>2 DEF PoolType
<1>5. pc'[u] = "idle" /\ peer'[u] = NoPeer /\ conn'[u] = 0
  BY <1>1, <1>2 DEF PoolType
<1>6. \A q \in DOMAIN pool : pool[q].conn # 0 /\ q \in Peers
  BY <1>2 DEF PoolType, Entry
<1>7. PoolType' /\ PoolBounded'
  BY <1>1, <1>2, <1>3, KeptIsBounded DEF PoolType, PoolKept
<1>8. CallersInStep'
  BY <1>2, <1>3, <1>4, <1>5 DEF CallersInStep
<1>9. OnePeerEach'
  BY <1>2, <1>3, <1>4, <1>5, <1>6 DEF OnePeerEach, PoolKept
<1>10. InUseIsUsed'
  <2> SUFFICES ASSUME NEW q \in DOMAIN pool', pool'[q].inUse
               PROVE  \E v \in Users : pc'[v] = "using" /\ peer'[v] = q /\ conn'[v] = pool'[q].conn
    BY DEF InUseIsUsed
  <2>1. q \in DOMAIN pool /\ pool[q].inUse /\ q # peer[u] /\ pool'[q].conn = pool[q].conn
    BY DEF PoolKept
  <2>2. PICK v \in Users : pc[v] = "using" /\ peer[v] = q /\ conn[v] = pool[q].conn
    BY <1>2, <2>1 DEF InUseIsUsed
  <2> QED BY <1>3, <1>4, <2>1, <2>2
<1>11. UncontendedMarked'
  <2> SUFFICES ASSUME NEW v \in Users, NEW q \in DOMAIN pool',
                      pool'[q].conn = conn'[v], peer'[v] \notin contended'
               PROVE  pool'[q].inUse
    BY DEF UncontendedMarked
  <2>1. q \in DOMAIN pool /\ pool'[q].conn = pool[q].conn
    BY DEF PoolKept
  <2>2. v # u
    BY <1>5, <1>6, <2>1
  <2>3. conn'[v] = conn[v] /\ peer[v] \notin contended /\ q = peer[v]
    BY <1>2, <1>3, <1>4, <2>1, <2>2 DEF OnePeerEach
  <2>4. pool[q].inUse
    BY <1>2, <2>1, <2>3 DEF UncontendedMarked
  <2>5. peer[u] # peer[v]
    BY <1>2, <1>6, <2>1, <2>2, <2>3 DEF OverlapSeen
  <2> QED BY <2>3, <2>4, <2>5
<1> QED BY <1>3, <1>7, <1>8, <1>9, <1>10, <1>11 DEF PoolInv

\* What release leaves in an entry.
LEMMA FreedEntry ==
  ASSUME NEW n \in Nat, NEW e \in Entry(n),
         NEW f, f = [e EXCEPT !.inUse = FALSE, !.idle = FALSE]
  PROVE  f \in Entry(n) /\ f.conn = e.conn /\ f.uses = e.uses /\ f.inUse = FALSE
<1>1. f = [conn |-> e.conn, uses |-> e.uses, inUse |-> FALSE, aged |-> e.aged, idle |-> FALSE]
  BY DEF Entry
<1>2. e.conn \in 1..n /\ e.uses \in Nat /\ e.aged \in BOOLEAN
  BY DEF Entry
<1>3. f \in Entry(n)
  BY <1>1, <1>2, Zenon DEF Entry
<1> QED BY <1>1, <1>3

\* release names a peer: it frees the entry of that peer, whoever uses it.
LEMMA ReleaseKeepsInv ==
  ASSUME PoolInv, NEW u \in Users, Release(u)
  PROVE  PoolInv'
<1> DEFINE x == peer[u]
<1>1. PoolType
  BY DEF PoolInv
<1>2. CASE x \in DOMAIN pool
  <2> DEFINE e == pool[x]
             f == [e EXCEPT !.inUse = FALSE, !.idle = FALSE]
  <2>1. e \in Entry(made)
    BY <1>1, <1>2 DEF PoolType
  <2>2. made \in Nat /\ f = [e EXCEPT !.inUse = FALSE, !.idle = FALSE]
    BY <1>1 DEF PoolType
  <2>3. pool' = [pool EXCEPT ![x] = f]
    <3>1. pool' = [pool EXCEPT ![x].inUse = FALSE, ![x].idle = FALSE]
      BY <1>2 DEF Release
    <3> QED BY <3>1
  <2> HIDE DEF e, f
  <2>4. f \in Entry(made) /\ f.conn = e.conn /\ f.uses = e.uses /\ f.inUse = FALSE
    BY <2>1, <2>2, FreedEntry
  <2>5. /\ DOMAIN pool' = DOMAIN pool /\ pool'[x] = f
        /\ \A q \in DOMAIN pool : q # x => pool'[q] = pool[q]
        /\ pool' \in [DOMAIN pool' -> Entry(made)]
    BY <1>1, <1>2, <2>4, <2>3 DEF PoolType
  <2>6. \A q \in DOMAIN pool' : pool'[q].inUse = (pool[q].inUse /\ q # peer[u])
    <3>1. \A q \in DOMAIN pool : pool[q].inUse \in BOOLEAN
      BY <1>1 DEF PoolType, Entry
    <3> QED BY <2>4, <2>5, <3>1 DEF e
  <2>7. PoolKept
    BY <2>4, <2>5 DEF PoolKept, e
  <2> QED BY <2>6, <2>7, LeaveKeepsInv DEF Release
<1>3. CASE x \notin DOMAIN pool
  <2>1. pool' = pool
    BY <1>3 DEF Release
  <2>2. PoolKept
    BY <1>1, <2>1 DEF PoolKept, PoolType
  <2>3. \A q \in DOMAIN pool' : pool'[q].inUse = (pool[q].inUse /\ q # peer[u])
    BY <1>1, <1>3, <2>1 DEF PoolType, Entry
  <2> QED BY <2>2, <2>3, LeaveKeepsInv DEF Release
<1> QED BY <1>2, <1>3

\* remove takes the entry of a peer out of the pool.
LEMMA RemoveKeepsInv ==
  ASSUME PoolInv, NEW u \in Users, Remove(u)
  PROVE  PoolInv'
<1>1. PoolType
  BY DEF PoolInv
<1>2. /\ DOMAIN pool' = DOMAIN pool \ {peer[u]} /\ \A q \in DOMAIN pool' : pool'[q] = pool[q]
      /\ pool' \in [DOMAIN pool' -> Entry(made)]
  BY <1>1 DEF Remove, Without, PoolType
<1>3. PoolKept
  BY <1>2 DEF PoolKept
<1>4. \A q \in DOMAIN pool' : pool'[q].inUse = (pool[q].inUse /\ q # peer[u])
  BY <1>1, <1>2 DEF PoolType, Entry
<1> QED BY <1>3, <1>4, LeaveKeepsInv DEF Remove

\* The callers do not move, and the entries that are left are marked as before.
LEMMA QuietKeepsInv ==
  ASSUME PoolInv, PoolKept, UNCHANGED <<made, pc, peer, conn, contended>>,
         \A q \in DOMAIN pool' : pool'[q].inUse = pool[q].inUse
  PROVE  PoolInv'
<1>1. /\ PoolType /\ CallersInStep /\ OnePeerEach /\ OverlapSeen
      /\ InUseIsUsed /\ UncontendedMarked
  BY DEF PoolInv
<1>2. PoolType' /\ PoolBounded'
  BY <1>1, KeptIsBounded DEF PoolType, PoolKept
<1>3. CallersInStep' /\ OverlapSeen'
  BY <1>1 DEF CallersInStep, OverlapSeen
<1>4. OnePeerEach'
  BY <1>1 DEF OnePeerEach, PoolKept
<1>5. InUseIsUsed' /\ UncontendedMarked'
  BY <1>1 DEF InUseIsUsed, UncontendedMarked, PoolKept
<1> QED BY <1>2, <1>3, <1>4, <1>5 DEF PoolInv

\* cleanup keeps only entries that are healthy and free, unchanged.
LEMMA CleanupKeepsInv ==
  ASSUME PoolInv, Cleanup
  PROVE  PoolInv'
<1>1. PoolType
  BY DEF PoolInv
<1>2. /\ DOMAIN pool' \subseteq DOMAIN pool /\ \A q \in DOMAIN pool' : pool'[q] = pool[q]
      /\ pool' \in [DOMAIN pool' -> Entry(made)]
  BY <1>1 DEF Cleanup, PoolType
<1>3. PoolKept
  BY <1>2 DEF PoolKept
<1> QED BY <1>2, <1>3, QuietKeepsInv DEF Cleanup

\* Time passing marks an entry as aged or idle and does nothing else.
LEMMA ExpireKeepsInv ==
  ASSUME PoolInv, NEW p \in Peers, Expire(p)
  PROVE  PoolInv'
<1> DEFINE e == pool[p]
<1>1. PoolType /\ p \in DOMAIN pool
  BY DEF PoolInv, Expire
<1>2. e \in Entry(made)
  BY <1>1 DEF PoolType
<1>3. PICK f \in {[e EXCEPT !.aged = TRUE], [e EXCEPT !.idle = TRUE]} : pool' = [pool EXCEPT ![p] = f]
  BY DEF Expire
<1>4. f \in Entry(made) /\ f.conn = e.conn /\ f.uses = e.uses /\ f.inUse = e.inUse
  BY <1>2 DEF Entry
<1>5. /\ DOMAIN pool' = DOMAIN pool /\ pool'[p] = f
      /\ \A q \in DOMAIN pool : q # p => pool'[q] = pool[q]
      /\ pool' \in [DOMAIN pool' -> Entry(made)]
  BY <1>1, <1>3, <1>4 DEF PoolType
<1>6. PoolKept /\ \A q \in DOMAIN pool' : pool'[q].inUse = pool[q].inUse
  BY <1>4, <1>5 DEF PoolKept
<1> QED BY <1>6, QuietKeepsInv DEF Expire

(* ------------------------------- the theorems ---------------------------- *)

\* A step that changes nothing.
LEMMA StutterKeepsPool == ASSUME PoolInv, UNCHANGED vars PROVE PoolInv'
<1>1. PoolKept /\ pool' = pool
  BY DEF PoolKept, PoolInv, PoolType, vars
<1> QED BY <1>1, QuietKeepsInv DEF vars

\* Every step of every caller keeps the invariant.
LEMMA NextPoolInv == PoolInv /\ [Next]_vars => PoolInv'
<1> SUFFICES ASSUME PoolInv, [Next]_vars PROVE PoolInv'
  OBVIOUS
<1>1. ASSUME NEW u \in Users, NEW p \in Peers, GetReuse(u, p) PROVE PoolInv'
  BY <1>1, ReuseKeepsInv
<1>2. ASSUME NEW u \in Users, NEW p \in Peers, GetMiss(u, p) PROVE PoolInv'
  BY <1>2, MissKeepsInv
<1>3. ASSUME NEW u \in Users, ConnectFails(u) PROVE PoolInv'
  BY <1>3, ConnectFailsKeepsInv
<1>4. ASSUME NEW u \in Users, GetInsert(u) PROVE PoolInv'
  BY <1>4, InsertKeepsInv
<1>5. ASSUME NEW u \in Users, Release(u) PROVE PoolInv'
  BY <1>5, ReleaseKeepsInv
<1>6. ASSUME NEW u \in Users, Remove(u) PROVE PoolInv'
  BY <1>6, RemoveKeepsInv
<1>7. CASE Cleanup
  BY <1>7, CleanupKeepsInv
<1>8. ASSUME NEW p \in Peers, Expire(p) PROVE PoolInv'
  BY <1>8, ExpireKeepsInv
<1>9. CASE UNCHANGED vars
  BY <1>9, StutterKeepsPool
<1> QED BY <1>1, <1>2, <1>3, <1>4, <1>5, <1>6, <1>7, <1>8, <1>9 DEF Next

\* The strengthening PoolInv is an invariant of the pool under every
\* interleaving of callers, cleanup and time.
THEOREM PoolInvariant == Spec => []PoolInv
BY InitPoolInv, NextPoolInv, PTL DEF Spec

\* src/pool.rs:28, for any number of callers and peers: an entry marked in use
\* has a caller that uses just that connection, so no place is lost for ever.
THEOREM InUseEntriesHaveUsers == Spec => []InUseIsUsed
<1>1. PoolInv => InUseIsUsed
  BY DEF PoolInv
<1> QED BY <1>1, PoolInvariant, PTL

\* An entry that is free has no user and no two callers share a connection,
\* unless callers overlap on its peer: an uncontended caller's entry is marked,
\* and a second holder of its connection would name the same peer and overlap.
THEOREM FreeEntriesUnused == Spec => []FreeIsUnused
<1>1. ASSUME PoolInv PROVE FreeIsUnused
  <2>1. /\ PoolType /\ CallersInStep /\ OnePeerEach /\ OverlapSeen /\ UncontendedMarked
    BY <1>1 DEF PoolInv
  <2> SUFFICES ASSUME NEW u \in Users, pc[u] = "using", peer[u] \notin contended
               PROVE  /\ \A p \in DOMAIN pool : (pool[p].conn = conn[u]) => p = peer[u] /\ pool[p].inUse
                      /\ \A v \in Users : conn[v] = conn[u] => v = u
    BY DEF FreeIsUnused
  <2>2. \A p \in DOMAIN pool : (pool[p].conn = conn[u]) => p = peer[u] /\ pool[p].inUse
    BY <2>1 DEF OnePeerEach, UncontendedMarked
  <2>3. conn[u] # 0 /\ peer[u] \in Peers
    BY <2>1 DEF CallersInStep, PoolType
  <2>4. \A v \in Users : conn[v] = conn[u] => v = u
    BY <2>1, <2>3 DEF OnePeerEach, OverlapSeen
  <2> QED BY <2>2, <2>4
<1> QED BY <1>1, PoolInvariant, PTL

\* src/pool.rs:211 and :96: the pool never holds more connections than
\* max_connections or, if there are more of them, callers, in use or free, and no
\* connection outlives its uses.
THEOREM PoolStaysBounded == Spec => []PoolBounded
<1>1. PoolInv => PoolBounded
  BY DEF PoolInv
<1> QED BY <1>1, PoolInvariant, PTL
=============================================================================
