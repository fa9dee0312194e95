------------------------- MODULE MCTransportPool_proofs -------------------------
(***************************************************************************)
(* What MCTransport checks of the pools of connections holds for every     *)
(* number of queries and every size of the pool, while a pool is rebuilt,  *)
(* maintained and discarded from under those that use it.                  *)
(***************************************************************************)
EXTENDS MCTransport, FiniteSetTheorems, TLAPS

-----------------------------------------------------------------------------
(* A socket serves one query at a time *)

PoolQueries == Pool!Queries
UsedConns == Pool!UsedConns \ {None}

ConnType == [sock : Socks \cup {None}, closed : BOOLEAN, lock : PoolQueries \cup {None},
             age : {"young", "idle", "old"}]
PipeType == [open : BOOLEAN, used : BOOLEAN, due : Seq(PoolQueries)]
AtType == [gen : Pool!Gens \cup {0}, slot : 0..PoolSize, conn : Conns \cup {None},
           try : 0..2, fresh : BOOLEAN]
Places == {"idle", "lock", "ensure", "send", "receive", "reset", "connect", "discard", "drop",
           "replace", "end", "done"}
QueriesTyped ==
    /\ conn \in [Conns -> ConnType] /\ pipe \in [Socks -> PipeType]
    /\ at \in [PoolQueries -> AtType] /\ poolPc \in [PoolQueries -> Places]
    /\ answer \in [PoolQueries -> PoolQueries \cup {None, "error"}]
RestTyped ==
    /\ pool \in [Pool!Gens -> Seq(Conns)] /\ gen \in Pool!Gens /\ doomed \in Seq(Conns)
    /\ counter \in 0..PoolSize /\ poolUp \in BOOLEAN /\ troubled \subseteq PoolQueries
    /\ closing \in BOOLEAN /\ overrun \subseteq PoolQueries
LEMMA PoolTypes ==
  /\ Pool!TypeOK <=> QueriesTyped /\ RestTyped
  /\ Pool!TypeOK' <=> QueriesTyped' /\ RestTyped'
  BY DEF Pool!TypeOK, QueriesTyped, RestTyped, ConnType, PipeType, AtType, Places, PoolQueries

\* A query in the middle of DotConnection.query has its connection's lock.
InQuery == {"ensure", "send", "receive", "reset", "connect"}
Leased(q) ==
    /\ poolPc[q] \notin {"idle", "done"} =>
         /\ at[q].gen \in Pool!Gens /\ pool[at[q].gen] # <<>>
         /\ at[q].slot \in 1..PoolSize /\ at[q].conn \in Conns
    /\ poolPc[q] \in InQuery => conn[at[q].conn].lock = q
LeaseInv ==
    /\ \A g \in Pool!Gens : pool[g] = <<>> \/ (Len(pool[g]) = PoolSize /\ g <= gen)
    /\ Len(doomed) <= PoolSize
    /\ \A q \in PoolQueries : Leased(q)
\* Connections that may be used have sockets of their own.
SocketInv == \A c, d \in UsedConns :
    c # d /\ conn[c].sock # None => conn[c].sock # conn[d].sock

PoolInv == Pool!TypeOK /\ LeaseInv /\ SocketInv

LEMMA PoolCardinality == \A S : Pool!Cardinality(S) = Cardinality(S)
  BY DEF Pool!Cardinality, Cardinality, Pool!IsFiniteSet, IsFiniteSet

LEMMA UpTo == ASSUME NEW n \in Nat PROVE IsFiniteSet(1..n) /\ Cardinality(1..n) = n
  BY FS_Interval

LEMMA RangeBound ==
  ASSUME NEW S, NEW s \in Seq(S), NEW n \in Nat, Len(s) <= n
  PROVE  /\ IsFiniteSet(Pool!Range(s)) /\ Cardinality(Pool!Range(s)) \in 0..n
         /\ Pool!Range(s) = {s[i] : i \in 1..Len(s)} /\ Pool!Range(s) \subseteq S
<1>1. Len(s) \in Nat /\ DOMAIN s = 1..Len(s) /\ s \in [1..Len(s) -> S]
  OBVIOUS
<1>2. Pool!Range(s) = {s[i] : i \in 1..Len(s)} /\ Pool!Range(s) \subseteq S
  BY <1>1 DEF Pool!Range
<1>3. s \in Surjection(1..Len(s), Pool!Range(s))
  BY <1>1, <1>2 DEF Surjection
<1>4. IsFiniteSet(1..Len(s)) /\ Cardinality(1..Len(s)) = Len(s)
  BY <1>1, UpTo
<1>5. IsFiniteSet(Pool!Range(s)) /\ Cardinality(Pool!Range(s)) <= Len(s)
  BY <1>3, <1>4, FS_Surjection
<1>6. QED
  BY <1>1, <1>2, <1>5, FS_CardinalityType

LEMMA UnionBound ==
  ASSUME NEW S, NEW T, IsFiniteSet(S), IsFiniteSet(T),
         NEW m \in Nat, NEW n \in Nat, Cardinality(S) <= m, Cardinality(T) <= n
  PROVE  IsFiniteSet(S \cup T) /\ Cardinality(S \cup T) <= m + n
<1>1. IsFiniteSet(S \cup T) /\ IsFiniteSet(S \cap T)
      /\ Cardinality(S \cup T) = Cardinality(S) + Cardinality(T) - Cardinality(S \cap T)
  BY FS_Union, FS_Intersection
<1>2. Cardinality(S) \in Nat /\ Cardinality(T) \in Nat /\ Cardinality(S \cap T) \in Nat
  BY <1>1, FS_CardinalityType
<1>3. QED
  BY <1>1, <1>2

\* What a query can reach: a list in use, the list of a rebuild, a connection it has.
LEMMA UsedIs ==
  \A c : c \in Pool!UsedConns <=>
      \/ \E g \in {gen} \cup ({at[q].gen : q \in PoolQueries} \ {0}) : c \in Pool!Range(pool[g])
      \/ c \in Pool!Range(doomed)
      \/ \E q \in PoolQueries : c = at[q].conn
  BY DEF Pool!UsedConns, PoolQueries

LEMMA UsedIsFinite ==
  ASSUME Pool!TypeOK, LeaseInv
  PROVE  /\ IsFiniteSet(UsedConns) /\ UsedConns \subseteq Conns
         /\ Cardinality(UsedConns) \in 0..(3 * PoolSize + Cardinality(PoolQueries))
<1> DEFINE held == {at[q].conn : q \in PoolQueries}
           both == Pool!Range(pool[1]) \cup Pool!Range(pool[2])
           lists == both \cup Pool!Range(doomed)
<1>1. /\ PoolSize \in Nat /\ IsFiniteSet(PoolQueries) /\ Cardinality(PoolQueries) \in Nat
      /\ pool[1] \in Seq(Conns) /\ pool[2] \in Seq(Conns) /\ doomed \in Seq(Conns)
      /\ Len(pool[1]) <= PoolSize /\ Len(pool[2]) <= PoolSize /\ Len(doomed) <= PoolSize
  BY PoolAssumption, FS_CardinalityType DEF Pool!TypeOK, LeaseInv, Pool!Gens, PoolQueries
<1>2. /\ IsFiniteSet(Pool!Range(pool[1])) /\ Cardinality(Pool!Range(pool[1])) <= PoolSize
      /\ IsFiniteSet(Pool!Range(pool[2])) /\ Cardinality(Pool!Range(pool[2])) <= PoolSize
      /\ IsFiniteSet(Pool!Range(doomed)) /\ Cardinality(Pool!Range(doomed)) <= PoolSize
      /\ lists \subseteq Conns
  BY <1>1, RangeBound
<1>3. IsFiniteSet(both) /\ Cardinality(both) <= 2 * PoolSize /\ 2 * PoolSize \in Nat
  <2>1. 2 * PoolSize = PoolSize + PoolSize /\ 2 * PoolSize \in Nat
    BY <1>1
  <2>2. QED
    BY <1>1, <1>2, <2>1, UnionBound
<1> HIDE DEF both
<1>4. IsFiniteSet(lists) /\ Cardinality(lists) <= 3 * PoolSize /\ 3 * PoolSize \in Nat
  <2>1. 3 * PoolSize = 2 * PoolSize + PoolSize /\ 3 * PoolSize \in Nat
    BY <1>1
  <2>2. QED
    BY <1>1, <1>2, <1>3, <2>1, UnionBound
<1>5. IsFiniteSet(held) /\ Cardinality(held) <= Cardinality(PoolQueries)
  <2> DEFINE f == [q \in PoolQueries |-> at[q].conn]
  <2>1. f \in Surjection(PoolQueries, held)
    BY DEF Surjection
  <2> HIDE DEF f, held
  <2>2. QED
    BY <1>1, <2>1, FS_Surjection
<1> HIDE DEF lists
<1>6. held \subseteq Conns \cup {None}
  BY DEF Pool!TypeOK, PoolQueries
<1>7. UsedConns \subseteq lists \cup held
  <2>1. ASSUME NEW g \in {gen} \cup ({at[q].gen : q \in PoolQueries} \ {0}) PROVE g \in {1, 2}
    <3>1. \A q \in PoolQueries : at[q].gen \in {0, 1, 2}
      BY DEF Pool!TypeOK, PoolQueries, Pool!Gens
    <3>2. gen \in {1, 2}
      BY DEF Pool!TypeOK, Pool!Gens
    <3>3. QED
      BY <3>1, <3>2
  <2>2. QED
    BY <2>1, UsedIs DEF UsedConns, lists, both
<1> HIDE DEF held
<1>8. IsFiniteSet(lists \cup held)
      /\ Cardinality(lists \cup held) <= 3 * PoolSize + Cardinality(PoolQueries)
  BY <1>1, <1>4, <1>5, UnionBound
<1>9. IsFiniteSet(UsedConns) /\ Cardinality(UsedConns) <= Cardinality(lists \cup held)
      /\ Cardinality(UsedConns) \in Nat /\ Cardinality(lists \cup held) \in Nat
  BY <1>7, <1>8, FS_Subset, FS_CardinalityType
<1>10. UsedConns \subseteq Conns
  BY <1>2, <1>6, <1>7 DEF UsedConns
<1>11. QED
  BY <1>1, <1>8, <1>9, <1>10

\* There are new connections for a whole pool.
LEMMA FreeConnsAre ==
  ASSUME Pool!TypeOK, LeaseInv, NEW n \in 0..PoolSize
  PROVE  /\ Pool!FreeConns(n) \in [1..n -> Conns \ Pool!UsedConns]
         /\ Pool!FreeConns(n) \in Seq(Conns) /\ Len(Pool!FreeConns(n)) = n
<1> DEFINE free == Conns \ Pool!UsedConns
<1>1. /\ IsFiniteSet(UsedConns) /\ UsedConns \subseteq Conns
      /\ Cardinality(UsedConns) \in 0..(3 * PoolSize + Cardinality(PoolQueries))
  BY UsedIsFinite
<1>2. free = Conns \ UsedConns
  BY PoolAssumption DEF UsedConns
<1>3. /\ IsFiniteSet(Conns) /\ Cardinality(Conns) \in Nat /\ PoolSize \in Nat /\ n \in Nat
      /\ Cardinality(Conns) >= 4 * PoolSize + Cardinality(PoolQueries)
      /\ Cardinality(PoolQueries) \in Nat
  BY PoolAssumption, FS_CardinalityType DEF PoolQueries
<1>4. /\ IsFiniteSet(free)
      /\ Cardinality(free) = Cardinality(Conns) - Cardinality(Conns \cap UsedConns)
  BY <1>2, <1>3, FS_Difference
<1>5. Conns \cap UsedConns = UsedConns
  BY <1>1
<1>6. Cardinality(free) \in Nat /\ Cardinality(free) >= n
  <2>1. Cardinality(free) = Cardinality(Conns) - Cardinality(UsedConns)
    BY <1>4, <1>5
  <2> HIDE DEF free
  <2>2. QED
    BY <1>1, <1>3, <2>1
<1> HIDE DEF free
<1>7. PICK f : f \in Bijection(1..Cardinality(free), free)
  BY <1>4, FS_CountingElements, FS_NatBijection DEF ExistsBijection
<1>8. \E list \in [1..n -> free] : Pool!IsInjective(list)
  <2> DEFINE list == [i \in 1..n |-> f[i]]
  <2>1. \A i \in 1..n : i \in 1..Cardinality(free)
    BY <1>3, <1>6
  <2>2. /\ f \in [1..Cardinality(free) -> free]
        /\ \A i, j \in 1..Cardinality(free) : f[i] = f[j] => i = j
    BY <1>7 DEF Bijection, Injection, IsInjective
  <2>3. list \in [1..n -> free] /\ Pool!IsInjective(list)
    BY <2>1, <2>2 DEF Pool!IsInjective
  <2>4. QED
    BY <2>3
<1>9. Pool!FreeConns(n) \in [1..n -> free]
  BY <1>8 DEF Pool!FreeConns, free
<1>10. QED
  BY <1>3, <1>9 DEF free

LEMMA FreeConnIs ==
  ASSUME Pool!TypeOK, LeaseInv PROVE Pool!FreeConn \in Conns \ Pool!UsedConns
<1>1. 1 \in 0..PoolSize
  BY PoolAssumption
<1>2. QED
  BY <1>1, FreeConnsAre DEF Pool!FreeConn

LEMMA FreeSockIs ==
  ASSUME Pool!TypeOK, LeaseInv
  PROVE  Pool!FreeSock \in Socks /\ \A c \in UsedConns : conn[c].sock # Pool!FreeSock
<1> DEFINE taken == {conn[c].sock : c \in UsedConns}
<1>1. /\ IsFiniteSet(UsedConns) /\ Cardinality(UsedConns) \in Nat
      /\ Cardinality(UsedConns) <= 3 * PoolSize + Cardinality(PoolQueries)
  BY UsedIsFinite
<1>2. IsFiniteSet(taken) /\ Cardinality(taken) <= Cardinality(UsedConns)
  <2> DEFINE f == [c \in UsedConns |-> conn[c].sock]
  <2>1. f \in Surjection(UsedConns, taken)
    BY DEF Surjection
  <2> HIDE DEF f, taken
  <2>2. QED
    BY <1>1, <2>1, FS_Surjection
<1>3. ~(Socks \subseteq taken)
  <2> SUFFICES ASSUME Socks \subseteq taken PROVE FALSE
    OBVIOUS
  <2> HIDE DEF taken
  <2>1. Cardinality(Socks) <= Cardinality(taken) /\ Cardinality(taken) \in Nat
        /\ Cardinality(Socks) \in Nat
    BY <1>2, PoolAssumption, FS_Subset, FS_CardinalityType
  <2>2. /\ PoolSize \in Nat /\ Cardinality(PoolQueries) \in Nat
        /\ Cardinality(Socks) > 3 * PoolSize + Cardinality(PoolQueries)
    BY PoolAssumption, FS_CardinalityType DEF PoolQueries
  <2>3. QED
    BY <1>1, <1>2, <2>1, <2>2
<1>4. \E s \in Socks : \A c \in UsedConns : conn[c].sock # s
  BY <1>3
<1>5. Pool!FreeSock = CHOOSE s \in Socks : \A c \in UsedConns : conn[c].sock # s
  BY DEF Pool!FreeSock, UsedConns
<1>6. QED
  BY <1>4, <1>5

\* A connection that comes into use has no socket yet, and the others keep theirs or lose it.
LEMMA SocketsStay ==
  ASSUME SocketInv,
         \A c \in UsedConns' : IF c \in UsedConns THEN conn'[c].sock \in {conn[c].sock, None}
                               ELSE conn'[c].sock = None
  PROVE  SocketInv'
  BY DEF SocketInv

LEMMA UsedStay ==
  ASSUME UNCHANGED <<pool, gen, doomed>>,
         \A q \in PoolQueries : at'[q].gen \in {at[q].gen, 0} /\ at'[q].conn \in {at[q].conn, None}
  PROVE  UsedConns' \subseteq UsedConns
<1>1. ASSUME NEW c \in UsedConns' PROVE c \in Pool!UsedConns
  <2>1. c # None /\ c \in Pool!UsedConns'
    BY DEF UsedConns
  <2>2. \/ \E g \in {gen'} \cup ({at'[q].gen : q \in PoolQueries} \ {0}) :
               c \in Pool!Range(pool'[g])
        \/ c \in Pool!Range(doomed')
        \/ \E q \in PoolQueries : c = at'[q].conn
    BY <2>1 DEF Pool!UsedConns, PoolQueries
  <2>3. {at'[q].gen : q \in PoolQueries} \ {0} \subseteq {at[q].gen : q \in PoolQueries} \ {0}
    OBVIOUS
  <2>4. QED
    BY <2>1, <2>2, <2>3, UsedIs
<1>2. QED
  BY <1>1 DEF UsedConns

\* The connections that queries hold are in use.
LEMMA HeldAreUsed ==
  ASSUME LeaseInv, NEW q \in PoolQueries, poolPc[q] \notin {"idle", "done"}
  PROVE  at[q].conn \in UsedConns
  BY UsedIs, PoolAssumption DEF UsedConns, LeaseInv, Leased

\* A query that steps leaves the others their connections and their locks.
LEMMA OthersLeased ==
  ASSUME LeaseInv, NEW t \in PoolQueries,
         \A q \in PoolQueries \ {t} : poolPc'[q] = poolPc[q] /\ at'[q] = at[q],
         \A g \in Pool!Gens : pool[g] # <<>> => pool'[g] # <<>>,
         \A c \in UsedConns : conn'[c].lock = conn[c].lock
                              \/ (c = at[t].conn /\ conn[c].lock \in {None, t}),
         Leased(t)'
  PROVE  \A q \in PoolQueries : Leased(q)'
<1> SUFFICES ASSUME NEW q \in PoolQueries \ {t} PROVE Leased(q)'
  OBVIOUS
<1>1. Leased(q) /\ q # None
  BY PoolAssumption DEF LeaseInv, PoolQueries
<1>2. poolPc[q] \notin {"idle", "done"} => at[q].conn \in UsedConns
  BY HeldAreUsed
<1>3. QED
  BY <1>1, <1>2 DEF Leased, InQuery

\* The queries whose last connection others close are queries.
LEMMA OverrunStays ==
  ASSUME PoolInv, \/ \E t \in PoolQueries : Pool!Query(t)
                  \/ Pool!CloseBusy \/ Pool!ForgetBusy
  PROVE  overrun' \subseteq PoolQueries
<1>1. overrun \subseteq PoolQueries /\ \A c : Pool!LastOf(c) \subseteq PoolQueries
  BY PoolTypes DEF PoolInv, RestTyped, Pool!LastOf, PoolQueries
<1>2. UNCHANGED overrun \/ \E c : overrun' = overrun \cup Pool!LastOf(c)
  BY DEF Pool!Query, Pool!Lease, Pool!LockConn, Pool!Reuse, Pool!NotConnected, Pool!Reset,
         Pool!Connect, Pool!Send, Pool!Receive, Pool!TryFails, Pool!QueryFails, Pool!Discard,
         Pool!Drop, Pool!Replace, Pool!EndQuery, Pool!CloseBusy, Pool!ForgetBusy
<1>3. QED
  BY <1>1, <1>2

\* A step of one query that takes no new connection and connects to nothing.
LEMMA QuietStep ==
  ASSUME PoolInv, NEW t \in PoolQueries, NEW place \in Places,
         UNCHANGED <<cast, pool, gen, doomed, closing, counter, poolUp, troubled, poolBudget>>,
         overrun' \subseteq PoolQueries,
         poolPc' = [poolPc EXCEPT ![t] = place],
         at' \in [PoolQueries -> AtType], \A q \in PoolQueries \ {t} : at'[q] = at[q],
         at'[t] = Pool!Nothing \/ (at'[t].gen = at[t].gen /\ at'[t].slot = at[t].slot
                                   /\ at'[t].conn = at[t].conn),
         conn' \in [Conns -> ConnType],
         \A c \in Conns : /\ conn'[c].sock \in {conn[c].sock, None}
                          /\ \/ conn'[c].lock = conn[c].lock
                             \/ c = at[t].conn /\ conn[c].lock \in {None, t},
         pipe' \in [Socks -> PipeType],
         answer' \in [PoolQueries -> PoolQueries \cup {None, "error"}],
         Leased(t)'
  PROVE  PoolInv'
<1>1. QueriesTyped /\ RestTyped /\ UsedConns \subseteq Conns /\ LeaseInv /\ SocketInv
  BY UsedIsFinite, PoolTypes DEF PoolInv
<1>2. \A q \in PoolQueries \ {t} : poolPc'[q] = poolPc[q]
  BY <1>1 DEF QueriesTyped
<1>3. QueriesTyped' /\ RestTyped'
  BY <1>1 DEF QueriesTyped, RestTyped
<1>4. LeaseInv'
  <2>1. \A q \in PoolQueries : Leased(q)'
    BY <1>1, <1>2, OthersLeased
  <2>2. QED
    BY <1>1, <2>1 DEF LeaseInv
<1>5. UsedConns' \subseteq UsedConns
  <2>1. at'[t].gen \in {at[t].gen, 0} /\ at'[t].conn \in {at[t].conn, None}
    BY DEF Pool!Nothing
  <2>2. \A q \in PoolQueries : at'[q].gen \in {at[q].gen, 0} /\ at'[q].conn \in {at[q].conn, None}
    BY <2>1
  <2>3. QED
    BY <2>2, UsedStay
<1>6. SocketInv'
  BY <1>1, <1>5, SocketsStay
<1>7. QED
  BY <1>3, <1>4, <1>6, PoolTypes DEF PoolInv

LEMMA ClosedIs ==
  ASSUME QueriesTyped, NEW s \in Socks \cup {None} PROVE Pool!Closed(s) \in [Socks -> PipeType]
  BY DEF QueriesTyped, PipeType, Pool!Closed

LEMMA NothingIs == Pool!Nothing \in AtType
  BY PoolAssumption DEF Pool!Nothing, AtType

\* A step of one query that lets go of the lock of its connection.
LEMMA UnlockStep ==
  ASSUME PoolInv, NEW t \in PoolQueries, NEW place \in Places \ InQuery,
         poolPc[t] \notin {"idle", "done"},
         at[t].conn \in Conns, conn[at[t].conn].lock = t,
         UNCHANGED <<cast, pool, gen, doomed, closing, counter, poolUp, troubled, poolBudget>>,
         overrun' \subseteq PoolQueries,
         poolPc' = [poolPc EXCEPT ![t] = place],
         conn' = [conn EXCEPT ![at[t].conn].lock = None],
         UNCHANGED at \/ (at' = [at EXCEPT ![t] = Pool!Nothing] /\ place = "done"),
         pipe' \in [Socks -> PipeType],
         answer' \in [PoolQueries -> PoolQueries \cup {None, "error"}]
  PROVE  PoolInv'
<1>1. QueriesTyped /\ Leased(t)
  BY PoolTypes DEF PoolInv, LeaseInv
<1>2. /\ conn' \in [Conns -> ConnType]
      /\ \A d \in Conns : /\ conn'[d].sock \in {conn[d].sock, None}
                          /\ \/ conn'[d].lock = conn[d].lock
                             \/ d = at[t].conn /\ conn[d].lock \in {None, t}
  BY <1>1 DEF QueriesTyped, ConnType
<1>3. /\ at' \in [PoolQueries -> AtType] /\ \A q \in PoolQueries \ {t} : at'[q] = at[q]
      /\ at'[t] = Pool!Nothing \/ at'[t] = at[t]
      /\ place = "done" \/ at'[t] = at[t]
  BY <1>1, NothingIs DEF QueriesTyped
<1>4. at'[t] = Pool!Nothing \/ (at'[t].gen = at[t].gen /\ at'[t].slot = at[t].slot
                                /\ at'[t].conn = at[t].conn)
  BY <1>3
<1>5. poolPc'[t] = place
  BY <1>1 DEF QueriesTyped
<1>6. Leased(t)'
  BY <1>1, <1>3, <1>5 DEF Leased
<1>7. QED
  BY ONLY PoolInv, t \in PoolQueries, place \in Places \ InQuery, <1>2, <1>3, <1>4, <1>6,
     UNCHANGED <<cast, pool, gen, doomed, closing, counter, poolUp, troubled, poolBudget>>,
     overrun' \subseteq PoolQueries, poolPc' = [poolPc EXCEPT ![t] = place],
     pipe' \in [Socks -> PipeType],
     answer' \in [PoolQueries -> PoolQueries \cup {None, "error"}], QuietStep

\* LockConn is the step that could break Leased: the lock is free when it is taken.
LEMMA PoolQuietly ==
  ASSUME PoolInv, NEW t \in PoolQueries,
         \/ Pool!LockConn(t) \/ Pool!Reuse(t) \/ Pool!NotConnected(t) \/ Pool!Reset(t)
         \/ Pool!Send(t) \/ Pool!Receive(t) \/ Pool!TryFails(t) \/ Pool!QueryFails(t)
         \/ Pool!Discard(t) \/ Pool!Drop(t) \/ Pool!EndQuery(t)
  PROVE  PoolInv'
<1>1. QueriesTyped /\ Leased(t)
  BY PoolTypes DEF PoolInv, LeaseInv
<1> DEFINE c == at[t].conn
           s == conn[c].sock
<1>0. overrun' \subseteq PoolQueries
  BY OverrunStays DEF Pool!Query
<1>2. poolPc[t] \notin {"idle", "done"} => c \in Conns /\ s \in Socks \cup {None}
  BY <1>1 DEF Leased, QueriesTyped, ConnType
<1>3. CASE Pool!LockConn(t)
  <2>1. /\ poolPc[t] = "lock" /\ conn[c].lock = None /\ poolPc' = [poolPc EXCEPT ![t] = "ensure"]
        /\ conn' = [conn EXCEPT ![c].lock = t] /\ at' = [at EXCEPT ![t].try = 1]
        /\ UNCHANGED <<cast, pool, gen, doomed, closing, counter, pipe, poolUp, answer,
                       troubled, poolBudget>>
    BY <1>3 DEF Pool!LockConn, Pool!Goto, Pool!pools, Pool!Conn
  <2>2. /\ conn' \in [Conns -> ConnType] /\ conn'[c].lock = t
        /\ \A d \in Conns : conn'[d].sock = conn[d].sock /\ (d # c => conn'[d] = conn[d])
    BY <1>1, <1>2, <2>1 DEF QueriesTyped, ConnType
  <2>3. at' \in [PoolQueries -> AtType] /\ (\A q \in PoolQueries \ {t} : at'[q] = at[q])
        /\ at'[t].gen = at[t].gen /\ at'[t].slot = at[t].slot /\ at'[t].conn = at[t].conn
    BY <1>1, <2>1 DEF QueriesTyped, AtType
  <2> HIDE DEF c, s
  <2>4. Leased(t)'
    BY <1>1, <2>1, <2>2, <2>3 DEF Leased, QueriesTyped, c
  <2>5. \A d \in Conns : /\ conn'[d].sock \in {conn[d].sock, None}
                          /\ \/ conn'[d].lock = conn[d].lock
                             \/ d = at[t].conn /\ conn[d].lock \in {None, t}
    BY <2>1, <2>2 DEF c
  <2>6. /\ pipe' \in [Socks -> PipeType]
        /\ answer' \in [PoolQueries -> PoolQueries \cup {None, "error"}]
    BY <1>1, <2>1 DEF QueriesTyped
  <2>7. "ensure" \in Places
    BY DEF Places
  <2>8. QED
    BY ONLY <1>0, PoolInv, t \in PoolQueries, <2>1, <2>2, <2>3, <2>4, <2>5, <2>6, <2>7, QuietStep
<1>4. CASE Pool!Reuse(t)
  <2>1. /\ poolPc[t] = "ensure" /\ poolPc' = [poolPc EXCEPT ![t] = "send"]
        /\ UNCHANGED <<cast, pool, gen, doomed, closing, counter, conn, pipe, poolUp, at,
                       answer, troubled, poolBudget>>
    BY <1>4 DEF Pool!Reuse, Pool!Goto, Pool!pools
  <2>2. QED
    BY <1>0, <1>1, <1>2, <2>1, QuietStep DEF QueriesTyped, Leased, Places, InQuery
<1>5. CASE Pool!NotConnected(t)
  <2>1. /\ poolPc[t] = "ensure" /\ poolPc' = [poolPc EXCEPT ![t] = "reset"]
        /\ UNCHANGED <<cast, pool, gen, doomed, closing, counter, conn, pipe, poolUp, at,
                       answer, troubled, poolBudget>>
    BY <1>5 DEF Pool!NotConnected, Pool!Goto, Pool!pools
  <2>2. QED
    BY <1>0, <1>1, <1>2, <2>1, QuietStep DEF QueriesTyped, Leased, Places, InQuery
<1>6. CASE Pool!Reset(t)
  <2>1. /\ poolPc[t] = "reset" /\ poolPc' = [poolPc EXCEPT ![t] = "connect"]
        /\ conn' = [conn EXCEPT ![c].sock = None] /\ pipe' = Pool!Closed(s)
        /\ UNCHANGED <<cast, pool, gen, doomed, closing, counter, poolUp, at, answer, troubled,
                       poolBudget>>
    BY <1>6 DEF Pool!Reset, Pool!Goto, Pool!pools, Pool!Sock, Pool!Conn
  <2>2. conn' \in [Conns -> ConnType]
        /\ \A d \in Conns : conn'[d].sock \in {conn[d].sock, None} /\ conn'[d].lock = conn[d].lock
    BY <1>1, <1>2, <2>1 DEF QueriesTyped, ConnType
  <2>3. pipe' \in [Socks -> PipeType]
    BY <1>1, <1>2, <2>1, ClosedIs
  <2>4. QED
    BY <1>0, <1>1, <1>2, <2>1, <2>2, <2>3, QuietStep DEF QueriesTyped, Leased, Places, InQuery
<1>7. CASE Pool!Send(t)
  <2>1. /\ poolPc[t] = "send" /\ poolPc' = [poolPc EXCEPT ![t] = "receive"] /\ s # None
        /\ pipe' = [pipe EXCEPT ![s].due = Append(@, t)]
        /\ UNCHANGED <<cast, pool, gen, doomed, closing, counter, conn, poolUp, at, answer,
                       troubled, poolBudget>>
    BY <1>7 DEF Pool!Send, Pool!Goto, Pool!pools, Pool!Usable, Pool!Sock, Pool!Conn
  <2>2. s \in Socks /\ pipe \in [Socks -> PipeType]
    BY <1>1, <1>2, <2>1 DEF QueriesTyped
  <2> HIDE DEF s
  <2>3. pipe' \in [Socks -> PipeType]
    <3>1. pipe[s] \in PipeType /\ Append(pipe[s].due, t) \in Seq(PoolQueries)
      BY <2>2 DEF PipeType
    <3>2. [pipe[s] EXCEPT !.due = Append(@, t)] \in PipeType
      BY <3>1 DEF PipeType
    <3>3. pipe' = [pipe EXCEPT ![s] = [pipe[s] EXCEPT !.due = Append(@, t)]]
      BY <2>1
    <3>4. QED
      BY <2>2, <3>2, <3>3
  <2>4. QED
    BY <1>0, <1>1, <1>2, <2>1, <2>3, QuietStep DEF QueriesTyped, Leased, Places, InQuery
<1>8. CASE Pool!Receive(t)
  <2>1. /\ poolPc[t] = "receive" /\ poolPc' = [poolPc EXCEPT ![t] = "end"] /\ s # None
        /\ pipe[s].due # <<>> /\ answer' = [answer EXCEPT ![t] = Head(pipe[s].due)]
        /\ pipe' = [pipe EXCEPT ![s].due = Tail(@), ![s].used = TRUE]
        /\ conn' = [conn EXCEPT ![c].lock = None]
        /\ UNCHANGED <<cast, pool, gen, doomed, closing, counter, poolUp, at, troubled,
                       poolBudget>>
    BY <1>8 DEF Pool!Receive, Pool!Goto, Pool!pools, Pool!Usable, Pool!Sock, Pool!Conn
  <2>2. s \in Socks /\ pipe[s].due \in Seq(PoolQueries)
    BY <1>1, <1>2, <2>1 DEF QueriesTyped, PipeType
  <2>3. Head(pipe[s].due) \in PoolQueries /\ Tail(pipe[s].due) \in Seq(PoolQueries)
    <3>1. \A due \in Seq(PoolQueries) : due # <<>> => /\ Head(due) \in PoolQueries
                                                     /\ Tail(due) \in Seq(PoolQueries)
      OBVIOUS
    <3>2. QED
      BY ONLY <2>1, <2>2, <3>1
  <2>4. answer' \in [PoolQueries -> PoolQueries \cup {None, "error"}]
    BY <1>1, <2>1, <2>3 DEF QueriesTyped
  <2>5. pipe' \in [Socks -> PipeType]
    <3> HIDE DEF s
    <3>1. QED
      BY <1>1, <2>1, <2>2, <2>3 DEF QueriesTyped, PipeType
  <2>6. c \in Conns /\ conn[c].lock = t
    BY <1>1, <1>2, <2>1 DEF Leased, InQuery
  <2>7. QED
    BY <1>0, <1>1, <2>1, <2>4, <2>5, <2>6, UnlockStep DEF Places, InQuery
<1>9. CASE Pool!TryFails(t)
  <2>1. /\ poolPc[t] \in InQuery /\ poolPc' = [poolPc EXCEPT ![t] = "reset"]
        /\ at' = [at EXCEPT ![t].try = 2]
        /\ UNCHANGED <<cast, pool, gen, doomed, closing, counter, conn, pipe, poolUp, answer,
                       troubled, poolBudget>>
    BY <1>9 DEF Pool!TryFails, Pool!Failing, Pool!Goto, Pool!pools, InQuery
  <2>2. at' \in [PoolQueries -> AtType] /\ (\A q \in PoolQueries \ {t} : at'[q] = at[q])
        /\ at'[t].gen = at[t].gen /\ at'[t].slot = at[t].slot /\ at'[t].conn = at[t].conn
    BY <1>1, <2>1 DEF QueriesTyped, AtType
  <2>3. Leased(t)'
    BY <1>1, <2>1, <2>2 DEF Leased, QueriesTyped, InQuery
  <2>4. QED
    BY <1>0, <1>1, <2>1, <2>2, <2>3, QuietStep DEF QueriesTyped, Places
<1>10. CASE Pool!QueryFails(t)
  <2>1. /\ poolPc[t] \in InQuery /\ conn' = [conn EXCEPT ![c].lock = None]
        /\ UNCHANGED <<cast, pool, gen, doomed, closing, counter, pipe, poolUp, troubled,
                       poolBudget>>
        /\ \/ /\ poolPc' = [poolPc EXCEPT ![t] = "done"]
              /\ answer' = [answer EXCEPT ![t] = "error"] /\ at' = [at EXCEPT ![t] = Pool!Nothing]
           \/ poolPc' = [poolPc EXCEPT ![t] = "discard"] /\ UNCHANGED <<answer, at>>
    BY <1>10 DEF Pool!QueryFails, Pool!Failing, Pool!Goto, Pool!pools, InQuery
  <2>2. /\ c \in Conns /\ conn[c].lock = t /\ pipe' \in [Socks -> PipeType]
        /\ poolPc[t] \notin {"idle", "done"}
    BY <1>1, <1>2, <2>1 DEF QueriesTyped, Leased, InQuery
  <2>3. /\ Pool!Nothing \in AtType /\ "done" \in Places \ InQuery
        /\ "discard" \in Places \ InQuery
    BY NothingIs DEF Places, InQuery
  <2>4. CASE poolPc' = [poolPc EXCEPT ![t] = "discard"] /\ UNCHANGED <<answer, at>>
    <3>1. answer' \in [PoolQueries -> PoolQueries \cup {None, "error"}]
      BY <1>1, <2>4 DEF QueriesTyped
    <3>2. QED
      BY <1>0, <2>1, <2>2, <2>3, <2>4, <3>1, UnlockStep
  <2>5. CASE at' = [at EXCEPT ![t] = Pool!Nothing] /\ poolPc' = [poolPc EXCEPT ![t] = "done"]
             /\ answer' = [answer EXCEPT ![t] = "error"]
    <3>1. answer' \in [PoolQueries -> PoolQueries \cup {None, "error"}]
      BY <1>1, <2>5 DEF QueriesTyped
    <3>2. QED
      BY <1>0, <2>1, <2>2, <2>3, <2>5, <3>1, UnlockStep
  <2>6. QED
    BY <2>1, <2>4, <2>5
<1>11. CASE Pool!Discard(t)
  <2>1. /\ poolPc[t] = "discard" /\ poolPc' = [poolPc EXCEPT ![t] = "drop"]
        /\ pipe' = Pool!Closed(s)
        /\ UNCHANGED <<cast, pool, gen, doomed, closing, counter, conn, poolUp, at, answer,
                       troubled, poolBudget>>
    BY <1>11 DEF Pool!Discard, Pool!Goto, Pool!pools, Pool!Sock, Pool!Conn
  <2>2. pipe' \in [Socks -> PipeType]
    BY <1>1, <1>2, <2>1, ClosedIs
  <2>3. /\ "drop" \in Places /\ "drop" \notin InQuery /\ Leased(t)'
    <3>1. /\ "drop" \in Places /\ "drop" \notin InQuery
          /\ poolPc'[t] = "drop" /\ poolPc[t] \notin {"idle", "done"}
      BY <1>1, <2>1 DEF Places, InQuery, QueriesTyped
    <3>2. Leased(t)
      BY <1>1
    <3>3. QED
      BY ONLY <2>1, <3>1, <3>2 DEF Leased
  <2>4. /\ at' \in [PoolQueries -> AtType] /\ conn' \in [Conns -> ConnType]
        /\ answer' \in [PoolQueries -> PoolQueries \cup {None, "error"}]
    BY <1>1, <2>1 DEF QueriesTyped
  <2>5. QED
    BY <1>0, <2>1, <2>2, <2>3, <2>4, QuietStep
<1>12. CASE Pool!Drop(t)
  <2>1. /\ poolPc[t] = "drop" /\ poolPc' = [poolPc EXCEPT ![t] = "replace"]
        /\ conn' = [conn EXCEPT ![c].sock = None, ![c].closed = TRUE]
        /\ UNCHANGED <<cast, pool, gen, doomed, closing, counter, pipe, poolUp, at, answer,
                       troubled, poolBudget>>
    BY <1>12 DEF Pool!Drop, Pool!Goto, Pool!pools
  <2>2. conn' \in [Conns -> ConnType]
        /\ \A d \in Conns : conn'[d].sock \in {conn[d].sock, None} /\ conn'[d].lock = conn[d].lock
    BY <1>1, <1>2, <2>1 DEF QueriesTyped, ConnType
  <2>3. /\ "replace" \in Places /\ "replace" \notin InQuery /\ Leased(t)'
    <3>1. /\ "replace" \in Places /\ "replace" \notin InQuery
          /\ poolPc'[t] = "replace" /\ poolPc[t] \notin {"idle", "done"}
      BY <1>1, <2>1 DEF Places, InQuery, QueriesTyped
    <3>2. Leased(t)
      BY <1>1
    <3>3. QED
      BY ONLY <2>1, <3>1, <3>2 DEF Leased
  <2>4. /\ at' \in [PoolQueries -> AtType] /\ pipe' \in [Socks -> PipeType]
        /\ answer' \in [PoolQueries -> PoolQueries \cup {None, "error"}]
    BY <1>1, <2>1 DEF QueriesTyped
  <2>5. QED
    BY <1>0, <2>1, <2>2, <2>3, <2>4, QuietStep
<1>13. CASE Pool!EndQuery(t)
  <2>1. /\ poolPc[t] = "end"
        /\ UNCHANGED <<cast, pool, gen, doomed, closing, counter, conn, pipe, poolUp, answer,
                       troubled, poolBudget>>
        /\ \/ poolPc' = [poolPc EXCEPT ![t] = "done"] /\ at' = [at EXCEPT ![t] = Pool!Nothing]
           \/ poolPc' = [poolPc EXCEPT ![t] = "discard"] /\ UNCHANGED at
    BY <1>13 DEF Pool!EndQuery, Pool!Goto, Pool!pools
  <2>2. CASE UNCHANGED at
    BY <1>0, <1>1, <1>2, <2>1, <2>2, QuietStep DEF QueriesTyped, Leased, Places, InQuery
  <2>3. CASE at' = [at EXCEPT ![t] = Pool!Nothing] /\ poolPc' = [poolPc EXCEPT ![t] = "done"]
    BY <1>0, <1>1, <1>2, <2>1, <2>3, NothingIs, QuietStep
    DEF QueriesTyped, Leased, Places, InQuery
  <2>4. QED
    BY <2>1, <2>2, <2>3
<1>14. QED
  BY <1>3, <1>4, <1>5, <1>6, <1>7, <1>8, <1>9, <1>10, <1>11, <1>12, <1>13

LEMMA ListsAreUsed ==
  \A g \in {gen} \cup ({at[q].gen : q \in PoolQueries} \ {0}) :
      Pool!Range(pool[g]) \subseteq Pool!UsedConns
  BY UsedIs

\* What a step brings into use: nothing but new connections.
LEMMA UsedGrow ==
  ASSUME NEW new,
         \A g \in {gen'} \cup ({at'[q].gen : q \in PoolQueries} \ {0}) :
             Pool!Range(pool'[g]) \subseteq Pool!UsedConns \cup new,
         Pool!Range(doomed') \subseteq Pool!UsedConns \cup new,
         \A q \in PoolQueries : at'[q].conn \in Pool!UsedConns \cup new \cup {None}
  PROVE  UsedConns' \subseteq UsedConns \cup new
<1>1. ASSUME NEW c \in UsedConns' PROVE c \in Pool!UsedConns \cup new /\ c # None
  <2>1. c # None /\ c \in Pool!UsedConns'
    BY DEF UsedConns
  <2>2. \/ \E g \in {gen'} \cup ({at'[q].gen : q \in PoolQueries} \ {0}) :
               c \in Pool!Range(pool'[g])
        \/ c \in Pool!Range(doomed')
        \/ \E q \in PoolQueries : c = at'[q].conn
    BY <2>1 DEF Pool!UsedConns, PoolQueries
  <2>3. QED
    BY <2>1, <2>2
<1>2. QED
  BY <1>1 DEF UsedConns

\* What remains to be shown of a step: new connections have no sockets yet, and nobody
\* gets the socket of another.
LEMMA StepFits ==
  ASSUME PoolInv, QueriesTyped', RestTyped', NEW new, new \cap UsedConns = {},
         \A g \in Pool!Gens : pool'[g] = <<>> \/ (Len(pool'[g]) = PoolSize /\ g <= gen'),
         Len(doomed') <= PoolSize,
         \A q \in PoolQueries : Leased(q)',
         UsedConns' \subseteq UsedConns \cup new,
         \A c \in new : conn'[c].sock = None,
         \A c \in UsedConns : conn'[c].sock \in {conn[c].sock, None}
  PROVE  PoolInv'
<1>1. LeaseInv'
  BY DEF LeaseInv
<1>2. SocketInv'
  BY SocketsStay DEF PoolInv
<1>3. QED
  BY <1>1, <1>2, PoolTypes DEF PoolInv

LEMMA NothingNew ==
  ASSUME PoolInv, QueriesTyped', RestTyped',
         \A g \in Pool!Gens : pool'[g] = <<>> \/ (Len(pool'[g]) = PoolSize /\ g <= gen'),
         Len(doomed') <= PoolSize,
         \A q \in PoolQueries : Leased(q)',
         UsedConns' \subseteq UsedConns,
         \A c \in Conns : conn'[c].sock \in {conn[c].sock, None}
  PROVE  PoolInv'
<1> DEFINE new == {}
<1>1. new \cap UsedConns = {} /\ UsedConns' \subseteq UsedConns \cup new
      /\ \A c \in new : conn'[c].sock = None
  OBVIOUS
<1>2. \A c \in UsedConns : conn'[c].sock \in {conn[c].sock, None}
  BY UsedIsFinite DEF PoolInv
<1> HIDE DEF new
<1>3. QED
  BY <1>1, <1>2, StepFits

LEMMA NewConnIs == Pool!NewConn \in ConnType /\ Pool!NewConn.sock = None
  BY DEF Pool!NewConn, ConnType

\* A new socket is nobody else's.
LEMMA PoolConnect ==
  ASSUME PoolInv, NEW t \in PoolQueries, Pool!Connect(t) PROVE PoolInv'
<1> DEFINE c == at[t].conn
           s == Pool!FreeSock
<1>1. /\ poolPc[t] = "connect" /\ poolPc' = [poolPc EXCEPT ![t] = "send"]
      /\ conn' = [conn EXCEPT ![c].sock = s, ![c].age = IF @ = "idle" THEN "young" ELSE @]
      /\ pipe' = [pipe EXCEPT ![s] = [Pool!NewSock EXCEPT !.open = TRUE]]
      /\ UNCHANGED <<cast, pool, gen, doomed, closing, counter, poolUp, at, answer, troubled,
                     overrun, poolBudget>>
  BY DEF Pool!Connect, Pool!Goto, Pool!pools
<1>2. QueriesTyped /\ RestTyped /\ LeaseInv /\ SocketInv /\ Leased(t) /\ UsedConns \subseteq Conns
  BY PoolTypes, UsedIsFinite DEF PoolInv, LeaseInv
<1>3. s \in Socks /\ \A d \in UsedConns : conn[d].sock # s
  BY FreeSockIs DEF PoolInv
<1> HIDE DEF s
<1>4. c \in Conns /\ c \in UsedConns
  BY <1>1, <1>2, HeldAreUsed DEF Leased
<1>5. /\ conn' \in [Conns -> ConnType] /\ conn'[c].sock = s /\ conn'[c].lock = conn[c].lock
      /\ \A d \in Conns : d # c => conn'[d] = conn[d]
  BY <1>1, <1>2, <1>3, <1>4 DEF QueriesTyped, ConnType
<1>6. QueriesTyped' /\ RestTyped'
  <2>1. <<>> \in Seq(PoolQueries)
    OBVIOUS
  <2>2. [Pool!NewSock EXCEPT !.open = TRUE] \in PipeType
    BY <2>1 DEF PipeType, Pool!NewSock
  <2> DEFINE fresh == [Pool!NewSock EXCEPT !.open = TRUE]
  <2>3. pipe' = [pipe EXCEPT ![s] = fresh]
    BY <1>1
  <2> HIDE DEF fresh
  <2>4. pipe' \in [Socks -> PipeType]
    BY <1>2, <1>3, <2>2, <2>3 DEF QueriesTyped, fresh
  <2>5. QED
    BY <1>1, <1>2, <1>5, <2>4 DEF QueriesTyped, RestTyped, Places
<1>7. \A q \in PoolQueries \ {t} : poolPc'[q] = poolPc[q]
  BY <1>1, <1>2 DEF QueriesTyped
<1>8. Leased(t)'
  BY <1>1, <1>2, <1>5 DEF Leased, InQuery, QueriesTyped
<1>9. \A q \in PoolQueries : Leased(q)'
  BY <1>1, <1>2, <1>5, <1>7, <1>8, OthersLeased
<1>10. UsedConns' \subseteq UsedConns
  BY <1>1, UsedStay
<1>11. SocketInv'
  BY <1>2, <1>3, <1>4, <1>5, <1>10 DEF SocketInv
<1>12. QED
  BY <1>1, <1>2, <1>6, <1>9, <1>11, PoolTypes DEF PoolInv, LeaseInv

\* The first lease makes the list; each takes the connection of the next slot.
LEMMA PoolLease ==
  ASSUME PoolInv, NEW t \in PoolQueries, Pool!Lease(t) PROVE PoolInv'
<1> DEFINE new == IF pool[gen] = <<>> THEN Pool!FreeConns(PoolSize) ELSE <<>>
           list == IF pool[gen] = <<>> THEN new ELSE pool[gen]
           slot == (counter % PoolSize) + 1
<1>1. /\ poolPc[t] = "idle" /\ poolPc' = [poolPc EXCEPT ![t] = "lock"]
      /\ pool' = [pool EXCEPT ![gen] = list] /\ counter' = slot
      /\ conn' = [c \in Conns |-> IF c \in Pool!Range(new) THEN Pool!NewConn ELSE conn[c]]
      /\ at' = [at EXCEPT ![t] = [Pool!Nothing EXCEPT !.gen = gen, !.slot = slot,
                                                      !.conn = list[slot]]]
      /\ troubled' = IF poolUp THEN troubled ELSE troubled \cup {t}
      /\ UNCHANGED <<cast, gen, doomed, closing, pipe, poolUp, answer, overrun, poolBudget>>
  BY DEF Pool!Lease, Pool!Goto
<1>2. QueriesTyped /\ RestTyped /\ LeaseInv /\ UsedConns \subseteq Conns
  BY PoolTypes, UsedIsFinite DEF PoolInv
<1>3. PoolSize \in Nat \ {0} /\ None \notin Conns
  BY PoolAssumption
<1>4. slot \in 1..PoolSize
  BY <1>2, <1>3 DEF RestTyped
<1>5. /\ new \in Seq(Conns) /\ Len(new) <= PoolSize
      /\ \A i \in 1..Len(new) : new[i] \notin Pool!UsedConns
      /\ pool[gen] = <<>> => Len(new) = PoolSize
  <2>1. CASE pool[gen] = <<>>
    <3>1. PoolSize \in 0..PoolSize
      BY <1>3
    <3>2. QED
      BY <2>1, <3>1, FreeConnsAre DEF PoolInv
  <2>2. CASE pool[gen] # <<>>
    BY <1>3, <2>2
  <2>3. QED
    BY <2>1, <2>2
<1>6. gen \in Pool!Gens /\ pool[gen] \in Seq(Conns)
      /\ (pool[gen] = <<>> \/ Len(pool[gen]) = PoolSize)
  BY <1>2 DEF RestTyped, LeaseInv
<1> HIDE DEF new, slot
<1>7. list \in Seq(Conns) /\ Len(list) = PoolSize /\ list # <<>> /\ list[slot] \in Conns
  BY <1>3, <1>4, <1>5, <1>6
<1>8. Pool!Range(new) \cap UsedConns = {} /\ Pool!Range(new) \subseteq Conns
  BY <1>3, <1>5, RangeBound DEF UsedConns
<1>9. Pool!Range(list) \subseteq Pool!UsedConns \cup Pool!Range(new)
  BY ListsAreUsed
<1>10. list[slot] \in Pool!Range(list)
  BY <1>3, <1>4, <1>7, RangeBound
<1> HIDE DEF list
<1>11. at'[t] = [gen |-> gen, slot |-> slot, conn |-> list[slot], try |-> 0, fresh |-> FALSE]
       /\ \A q \in PoolQueries \ {t} : at'[q] = at[q] /\ poolPc'[q] = poolPc[q]
  BY <1>1, <1>2 DEF QueriesTyped, Pool!Nothing
<1>12. QueriesTyped'
  <2>1. conn' \in [Conns -> ConnType]
    BY <1>1, <1>2, NewConnIs DEF QueriesTyped
  <2>2. at'[t] \in AtType
    BY <1>3, <1>4, <1>6, <1>7, <1>11 DEF AtType
  <2>3. at' \in [PoolQueries -> AtType]
    BY <1>1, <1>2, <1>11, <2>2 DEF QueriesTyped
  <2>4. QED
    BY <1>1, <1>2, <2>1, <2>3 DEF QueriesTyped, Places
<1>13. RestTyped'
  BY <1>1, <1>2, <1>3, <1>4, <1>7 DEF RestTyped
<1>14. \A g \in Pool!Gens : pool'[g] = IF g = gen THEN list ELSE pool[g]
  BY <1>1, <1>2 DEF RestTyped
<1>15. \A g \in Pool!Gens : pool'[g] = <<>> \/ (Len(pool'[g]) = PoolSize /\ g <= gen')
  BY <1>1, <1>2, <1>6, <1>7, <1>14 DEF LeaseInv, Pool!Gens
<1>16. \A q \in PoolQueries : Leased(q)'
  <2>1. Leased(t)'
    BY <1>1, <1>2, <1>4, <1>6, <1>7, <1>11, <1>14 DEF Leased, InQuery, QueriesTyped
  <2>2. \A c \in UsedConns : conn'[c] = conn[c]
    BY <1>1, <1>2, <1>8
  <2>3. QED
    BY <1>2, <1>7, <1>11, <1>14, <2>1, <2>2, OthersLeased
<1>17. UsedConns' \subseteq UsedConns \cup Pool!Range(new)
  <2>1. ASSUME NEW g \in {gen'} \cup ({at'[q].gen : q \in PoolQueries} \ {0})
        PROVE  Pool!Range(pool'[g]) \subseteq Pool!UsedConns \cup Pool!Range(new)
    <3>1. CASE g = gen
      BY <1>6, <1>9, <1>14, <3>1
    <3>2. CASE g # gen
      <4>1. PICK q \in PoolQueries \ {t} : g = at[q].gen /\ g # 0
        BY <1>1, <1>11, <3>2
      <4>2. g \in Pool!Gens
        BY <1>2, <4>1 DEF QueriesTyped, AtType
      <4>3. QED
        BY <1>14, <3>2, <4>1, <4>2, ListsAreUsed
    <3>3. QED
      BY <3>1, <3>2
  <2>2. \A q \in PoolQueries : at'[q].conn \in Pool!UsedConns \cup Pool!Range(new) \cup {None}
    BY <1>9, <1>10, <1>11, UsedIs
  <2>3. Pool!Range(doomed') \subseteq Pool!UsedConns \cup Pool!Range(new)
    BY <1>1, UsedIs
  <2>4. QED
    BY <2>1, <2>2, <2>3, UsedGrow
<1>18. \A c \in Conns : conn'[c] = IF c \in Pool!Range(new) THEN Pool!NewConn ELSE conn[c]
  BY <1>1
<1>19. QED
  BY <1>1, <1>2, <1>8, <1>12, <1>13, <1>15, <1>16, <1>17, <1>18, NewConnIs, StepFits DEF LeaseInv

\* A fresh connection takes the slot that the query leased.
LEMMA PoolReplace ==
  ASSUME PoolInv, NEW t \in PoolQueries, Pool!Replace(t) PROVE PoolInv'
<1> DEFINE n == Pool!FreeConn
           h == at[t].gen
           list == [pool[h] EXCEPT ![at[t].slot] = n]
<1>1. /\ poolPc[t] = "replace" /\ pool' = [pool EXCEPT ![h] = list]
      /\ conn' = [conn EXCEPT ![n] = Pool!NewConn]
      /\ UNCHANGED <<cast, gen, doomed, closing, counter, pipe, poolUp, answer, troubled,
                     overrun, poolBudget>>
      /\ \/ /\ at' = [at EXCEPT ![t].conn = n, ![t].fresh = TRUE, ![t].try = 0]
            /\ poolPc' = [poolPc EXCEPT ![t] = "lock"]
         \/ at' = [at EXCEPT ![t] = Pool!Nothing] /\ poolPc' = [poolPc EXCEPT ![t] = "done"]
  BY DEF Pool!Replace, Pool!Goto
<1>2. QueriesTyped /\ RestTyped /\ LeaseInv /\ Leased(t)
  BY PoolTypes DEF PoolInv, LeaseInv
<1>3. PoolSize \in Nat \ {0} /\ None \notin Conns
  BY PoolAssumption
<1>4. n \in Conns /\ n \notin UsedConns /\ n # None
  BY <1>3, FreeConnIs DEF PoolInv, UsedConns
<1>5. /\ h \in Pool!Gens /\ pool[h] \in Seq(Conns) /\ Len(pool[h]) = PoolSize
      /\ at[t].slot \in 1..PoolSize /\ h <= gen
  BY <1>1, <1>2 DEF Leased, LeaseInv, RestTyped
<1> HIDE DEF n
<1>6. list \in Seq(Conns) /\ Len(list) = PoolSize /\ list # <<>>
  BY <1>3, <1>4, <1>5
<1>7. Pool!Range(list) \subseteq Pool!Range(pool[h]) \cup {n}
  BY <1>4, <1>5 DEF Pool!Range
<1> HIDE DEF list
<1>8. \A g \in Pool!Gens : pool'[g] = IF g = h THEN list ELSE pool[g]
  BY <1>1, <1>2 DEF RestTyped
<1>9. /\ \A q \in PoolQueries \ {t} : at'[q] = at[q] /\ poolPc'[q] = poolPc[q]
      /\ \/ /\ at'[t] = [at[t] EXCEPT !.conn = n, !.fresh = TRUE, !.try = 0]
            /\ poolPc'[t] = "lock"
         \/ at'[t] = Pool!Nothing /\ poolPc'[t] = "done"
  BY <1>1, <1>2 DEF QueriesTyped
<1>10. /\ at'[t] \in AtType /\ at'[t].gen \in {h, 0} /\ at'[t].conn \in {n, None}
       /\ poolPc'[t] = "lock" => at'[t].gen = h /\ at'[t].slot = at[t].slot /\ at'[t].conn = n
       /\ poolPc'[t] \in {"lock", "done"}
  <2>1. CASE at'[t] = Pool!Nothing /\ poolPc'[t] = "done"
    BY <2>1, NothingIs DEF Pool!Nothing
  <2>2. CASE /\ at'[t] = [at[t] EXCEPT !.conn = n, !.fresh = TRUE, !.try = 0]
             /\ poolPc'[t] = "lock"
    <3>1. at[t] \in AtType
      BY <1>2 DEF QueriesTyped
    <3> DEFINE next == at'[t]
               held == at[t]
    <3>2. next = [held EXCEPT !.conn = n, !.fresh = TRUE, !.try = 0]
      BY <2>2
    <3> HIDE DEF next, held
    <3>3. held \in AtType
      BY <3>1 DEF held
    <3>4. /\ held.gen \in Pool!Gens \cup {0} /\ held.slot \in 0..PoolSize
          /\ held = [gen |-> held.gen, slot |-> held.slot, conn |-> held.conn, try |-> held.try,
                     fresh |-> held.fresh]
      BY <3>3 DEF AtType
    <3>5. next = [gen |-> held.gen, slot |-> held.slot, conn |-> n, try |-> 0, fresh |-> TRUE]
      BY <3>2, <3>4
    <3>6. next \in AtType /\ next.gen = held.gen /\ next.slot = held.slot /\ next.conn = n
      BY <1>4, <3>4, <3>5 DEF AtType
    <3>7. QED
      BY <2>2, <3>6 DEF next, held
  <2>3. QED
    BY <1>9, <2>1, <2>2
<1>11. \A c \in Conns : conn'[c] = IF c = n THEN Pool!NewConn ELSE conn[c]
  BY <1>1, <1>2 DEF QueriesTyped
<1>12. QueriesTyped'
  <2>1. conn' \in [Conns -> ConnType]
    BY <1>1, <1>2, <1>4, NewConnIs DEF QueriesTyped
  <2>2. DOMAIN at' = PoolQueries /\ at' = [q \in PoolQueries |-> at'[q]]
    BY <1>1, <1>2 DEF QueriesTyped
  <2>3. \A q \in PoolQueries : at'[q] \in AtType
    BY <1>2, <1>9, <1>10 DEF QueriesTyped
  <2>4. at' \in [PoolQueries -> AtType]
    BY <2>2, <2>3
  <2>5. poolPc' \in [PoolQueries -> Places]
    BY <1>1, <1>2 DEF QueriesTyped, Places
  <2>6. QED
    BY <1>1, <1>2, <2>1, <2>4, <2>5 DEF QueriesTyped
<1>13. RestTyped'
  BY <1>1, <1>2, <1>5, <1>6 DEF RestTyped
<1>14. \A g \in Pool!Gens : pool'[g] = <<>> \/ (Len(pool'[g]) = PoolSize /\ g <= gen')
  BY <1>1, <1>2, <1>5, <1>6, <1>8 DEF LeaseInv
<1>15. \A q \in PoolQueries : Leased(q)'
  <2>1. Leased(t)'
    BY <1>4, <1>5, <1>6, <1>8, <1>10 DEF Leased, InQuery
  <2>2. \A c \in UsedConns : conn'[c] = conn[c]
    BY <1>1, <1>2, <1>4, UsedIsFinite DEF PoolInv, QueriesTyped
  <2>3. QED
    BY <1>2, <1>6, <1>8, <1>9, <2>1, <2>2, OthersLeased
<1>16. UsedConns' \subseteq UsedConns \cup {n}
  <2>1. ASSUME NEW g \in {gen'} \cup ({at'[q].gen : q \in PoolQueries} \ {0})
        PROVE  Pool!Range(pool'[g]) \subseteq Pool!UsedConns \cup {n}
    <3>1. h # 0 /\ h \in {at[q].gen : q \in PoolQueries} \ {0}
      BY <1>5 DEF Pool!Gens
    <3>2. g \in {gen} \cup ({at[q].gen : q \in PoolQueries} \ {0})
      BY <1>1, <1>9, <1>10, <3>1
    <3>3. g \in Pool!Gens
      BY <1>2, <3>2 DEF QueriesTyped, AtType, RestTyped
    <3>4. CASE g = h
      BY <1>7, <1>8, <3>1, <3>3, <3>4, ListsAreUsed
    <3>5. CASE g # h
      BY <1>8, <3>2, <3>3, <3>5, ListsAreUsed
    <3>6. QED
      BY <3>4, <3>5
  <2>2. \A q \in PoolQueries : at'[q].conn \in Pool!UsedConns \cup {n} \cup {None}
    BY <1>9, <1>10, UsedIs
  <2>3. Pool!Range(doomed') \subseteq Pool!UsedConns \cup {n}
    BY <1>1, UsedIs
  <2>4. QED
    BY <2>1, <2>2, <2>3, UsedGrow
<1>17. /\ \A c \in {n} : conn'[c].sock = None
       /\ \A c \in UsedConns : conn'[c].sock \in {conn[c].sock, None}
  BY <1>4, <1>11, NewConnIs, UsedIsFinite DEF PoolInv
<1>18. {n} \cap UsedConns = {} /\ Len(doomed') <= PoolSize
  BY <1>1, <1>2, <1>4 DEF LeaseInv
<1>19. QED
  BY <1>12, <1>13, <1>14, <1>15, <1>16, <1>17, <1>18, StepFits

\* What others do to the pool leaves the queries what they hold.
LEMMA AllLeased ==
  ASSUME LeaseInv, UNCHANGED <<at, poolPc>>,
         \A g \in Pool!Gens : pool[g] # <<>> => pool'[g] # <<>>,
         \A c \in UsedConns : conn'[c].lock = conn[c].lock
  PROVE  \A q \in PoolQueries : Leased(q)'
<1> SUFFICES ASSUME NEW q \in PoolQueries PROVE Leased(q)'
  OBVIOUS
<1>1. Leased(q)
  BY DEF LeaseInv
<1>2. poolPc[q] \notin {"idle", "done"} => at[q].conn \in UsedConns
  BY HeldAreUsed
<1>3. QED
  BY <1>1, <1>2 DEF Leased, InQuery

\* A rebuild takes up a list that is empty yet.
LEMMA PoolRebuild == ASSUME PoolInv, Pool!Rebuild PROVE PoolInv'
<1>1. /\ gen + 1 \in Pool!Gens /\ gen' = gen + 1 /\ counter' = 0 /\ doomed' = pool[gen]
      /\ UNCHANGED <<cast, pool, closing, conn, pipe, poolUp, poolPc, at, answer, troubled,
                     overrun>>
  BY DEF Pool!Rebuild
<1>2. QueriesTyped /\ RestTyped /\ LeaseInv /\ gen \in {1, 2} /\ PoolSize \in Nat
  BY PoolTypes, PoolAssumption DEF PoolInv, RestTyped, Pool!Gens
<1>3. pool[gen + 1] = <<>> /\ pool[gen] \in Seq(Conns) /\ Len(pool[gen]) <= PoolSize
  BY <1>1, <1>2 DEF LeaseInv, RestTyped, Pool!Gens
<1>4. QueriesTyped' /\ RestTyped'
  BY <1>1, <1>2, <1>3 DEF QueriesTyped, RestTyped
<1>5. \A q \in PoolQueries : Leased(q)'
  BY <1>1, <1>2, AllLeased
<1>6. UsedConns' \subseteq UsedConns
  <2>1. Pool!Range(pool'[gen']) = {}
    BY <1>1, <1>3 DEF Pool!Range
  <2>2. \A g \in {gen'} \cup ({at'[q].gen : q \in PoolQueries} \ {0}) :
            Pool!Range(pool'[g]) \subseteq Pool!UsedConns \cup {}
    BY <1>1, <2>1, ListsAreUsed
  <2>3. Pool!Range(doomed') \subseteq Pool!UsedConns \cup {}
    BY <1>1, ListsAreUsed
  <2>4. \A q \in PoolQueries : at'[q].conn \in Pool!UsedConns \cup {} \cup {None}
    BY <1>1, UsedIs
  <2>5. QED
    BY <2>2, <2>3, <2>4, UsedGrow
<1>7. \A g \in Pool!Gens : pool'[g] = <<>> \/ (Len(pool'[g]) = PoolSize /\ g <= gen')
  BY <1>1, <1>2 DEF LeaseInv, Pool!Gens
<1>8. \A c \in Conns : conn'[c].sock \in {conn[c].sock, None}
  BY <1>1
<1>9. Len(doomed') <= PoolSize
  BY <1>1, <1>3
<1>10. QED
  BY <1>4, <1>5, <1>6, <1>7, <1>8, <1>9, NothingNew

\* The rebuild is done with the first of the old connections.
LEMMA PoolForgets ==
  ASSUME PoolInv, doomed # <<>>, doomed' = Tail(doomed),
         conn' = [conn EXCEPT ![Head(doomed)].sock = None, ![Head(doomed)].closed = TRUE],
         pipe' \in [Socks -> PipeType], closing' \in BOOLEAN, overrun' \subseteq PoolQueries,
         UNCHANGED <<pool, gen, counter, poolUp, poolPc, at, answer, troubled>>
  PROVE  PoolInv'
<1> DEFINE c == Head(doomed)
<1>1. /\ doomed # <<>> /\ doomed' = Tail(doomed) /\ pipe' \in [Socks -> PipeType]
      /\ conn' = [conn EXCEPT ![c].sock = None, ![c].closed = TRUE]
      /\ closing' \in BOOLEAN /\ overrun' \subseteq PoolQueries
      /\ UNCHANGED <<pool, gen, counter, poolUp, poolPc, at, answer, troubled>>
  OBVIOUS
<1>2. QueriesTyped /\ RestTyped /\ LeaseInv /\ PoolSize \in Nat /\ UsedConns \subseteq Conns
  BY PoolTypes, PoolAssumption, UsedIsFinite DEF PoolInv
<1>3. doomed \in Seq(Conns) /\ c \in Conns /\ Tail(doomed) \in Seq(Conns)
      /\ Len(Tail(doomed)) <= PoolSize
  BY <1>1, <1>2 DEF RestTyped, LeaseInv
<1>4. Pool!Range(Tail(doomed)) \subseteq Pool!Range(doomed)
  <2>1. \A i \in 1..Len(Tail(doomed)) : Tail(doomed)[i] = doomed[i + 1] /\ i + 1 \in 1..Len(doomed)
    BY <1>1, <1>3
  <2>2. QED
    BY <1>3, <2>1, RangeBound DEF Pool!Range
<1> HIDE DEF c
<1>5. /\ conn' \in [Conns -> ConnType]
      /\ \A d \in Conns : conn'[d].sock \in {conn[d].sock, None} /\ conn'[d].lock = conn[d].lock
  <2>1. conn' = [conn EXCEPT ![c].sock = None, ![c].closed = TRUE] /\ c \in Conns
    BY <1>1, <1>3
  <2>2. conn \in [Conns -> ConnType]
    BY <1>2 DEF QueriesTyped
  <2>3. QED
    BY ONLY <2>1, <2>2 DEF ConnType
<1>6. QueriesTyped' /\ RestTyped'
  BY <1>1, <1>2, <1>3, <1>5 DEF QueriesTyped, RestTyped
<1>7. \A q \in PoolQueries : Leased(q)'
  BY <1>1, <1>2, <1>5, AllLeased
<1>8. UsedConns' \subseteq UsedConns
  <2>1. \A g \in {gen'} \cup ({at'[q].gen : q \in PoolQueries} \ {0}) :
            Pool!Range(pool'[g]) \subseteq Pool!UsedConns \cup {}
    BY <1>1, ListsAreUsed
  <2>2. Pool!Range(doomed') \subseteq Pool!UsedConns \cup {}
    BY <1>1, <1>4, UsedIs
  <2>3. \A q \in PoolQueries : at'[q].conn \in Pool!UsedConns \cup {} \cup {None}
    BY <1>1, UsedIs
  <2>4. QED
    BY <2>1, <2>2, <2>3, UsedGrow
<1>9. \A g \in Pool!Gens : pool'[g] = <<>> \/ (Len(pool'[g]) = PoolSize /\ g <= gen')
  BY <1>1, <1>2 DEF LeaseInv
<1>10. Len(doomed') <= PoolSize
  BY <1>1, <1>3
<1>11. QED
  BY <1>5, <1>6, <1>7, <1>8, <1>9, <1>10, NothingNew

LEMMA FirstDoomed ==
  ASSUME PoolInv, doomed # <<>>
  PROVE  pipe \in [Socks -> PipeType]
         /\ Pool!Closed(conn[Head(doomed)].sock) \in [Socks -> PipeType]
<1>1. QueriesTyped /\ doomed \in Seq(Conns)
  BY PoolTypes DEF PoolInv, RestTyped
<1>2. Head(doomed) \in Conns
  BY <1>1
<1>3. conn[Head(doomed)].sock \in Socks \cup {None}
  BY <1>1, <1>2 DEF QueriesTyped, ConnType
<1>4. QED
  BY <1>1, <1>3, ClosedIs DEF QueriesTyped

LEMMA PoolCloseOld == ASSUME PoolInv, Pool!CloseOld PROVE PoolInv'
<1>1. /\ doomed # <<>> /\ doomed' = Tail(doomed)
      /\ pipe' = Pool!Closed(conn[Head(doomed)].sock)
      /\ conn' = [conn EXCEPT ![Head(doomed)].sock = None, ![Head(doomed)].closed = TRUE]
      /\ UNCHANGED <<pool, gen, closing, counter, poolUp, poolPc, at, answer, troubled,
                     overrun>>
  BY DEF Pool!CloseOld
<1>2. closing \in BOOLEAN /\ overrun \subseteq PoolQueries
  BY PoolTypes DEF PoolInv, RestTyped
<1>3. QED
  BY <1>1, <1>2, FirstDoomed, PoolForgets

\* Its socket is shut first; that takes nothing from those that use the connection but
\* what is on the wire.
LEMMA PoolCloseBusy == ASSUME PoolInv, Pool!CloseBusy PROVE PoolInv'
<1>1. /\ doomed # <<>> /\ closing' = TRUE
      /\ pipe' = Pool!Closed(conn[Head(doomed)].sock)
      /\ UNCHANGED <<pool, gen, doomed, counter, conn, poolUp, poolPc, at, answer, troubled>>
  BY DEF Pool!CloseBusy
<1>2. overrun' \subseteq PoolQueries
  BY OverrunStays
<1>3. pipe' \in [Socks -> PipeType]
  BY <1>1, FirstDoomed
<1>4. QueriesTyped /\ RestTyped /\ LeaseInv
  BY PoolTypes DEF PoolInv
<1>5. QueriesTyped' /\ RestTyped'
  <2>1. closing' \in BOOLEAN
    BY <1>1
  <2>2. QED
    BY <1>1, <1>2, <1>3, <1>4, <2>1 DEF QueriesTyped, RestTyped
<1>6. \A q \in PoolQueries : Leased(q)'
  BY <1>1, <1>4, AllLeased
<1>7. UsedConns' \subseteq UsedConns
  BY <1>1, UsedStay
<1>8. /\ \A g \in Pool!Gens : pool'[g] = <<>> \/ (Len(pool'[g]) = PoolSize /\ g <= gen')
      /\ Len(doomed') <= PoolSize
  BY <1>1, <1>4 DEF LeaseInv
<1>9. \A c \in Conns : conn'[c].sock \in {conn[c].sock, None}
  BY <1>1
<1>10. QED
  BY <1>5, <1>6, <1>7, <1>8, <1>9, NothingNew

LEMMA PoolForgetBusy == ASSUME PoolInv, Pool!ForgetBusy PROVE PoolInv'
<1>1. /\ doomed # <<>> /\ doomed' = Tail(doomed) /\ closing' = FALSE
      /\ conn' = [conn EXCEPT ![Head(doomed)].sock = None, ![Head(doomed)].closed = TRUE]
      /\ UNCHANGED <<pool, gen, counter, pipe, poolUp, poolPc, at, answer, troubled>>
  BY DEF Pool!ForgetBusy
<1>2. overrun' \subseteq PoolQueries
  BY OverrunStays
<1>3. closing' \in BOOLEAN
  BY <1>1
<1>4. QED
  BY <1>1, <1>2, <1>3, FirstDoomed, PoolForgets

\* The upstream goes down, comes up or closes a socket; a connection gets old.
LEMMA PoolWorld ==
  ASSUME PoolInv,
         \/ Pool!GoDown \/ Pool!ComeUp \/ (\E s \in Socks : Pool!ServerCloses(s))
         \/ \E c \in Conns : \E age \in {"idle", "old"} : Pool!Age(c, age)
  PROVE  PoolInv'
<1>1. /\ UNCHANGED <<pool, gen, doomed, counter, poolPc, at, answer>>
      /\ UNCHANGED <<closing, overrun>>
      /\ poolUp' \in BOOLEAN /\ troubled' \subseteq PoolQueries
  <2>1. QueriesTyped /\ RestTyped
    BY PoolTypes DEF PoolInv
  <2>2. QED
    BY <2>1 DEF Pool!GoDown, Pool!ComeUp, Pool!ServerCloses, Pool!Age, Pool!pools, RestTyped,
                PoolQueries
<1>2. QueriesTyped /\ RestTyped /\ LeaseInv /\ UsedConns \subseteq Conns
  BY PoolTypes, UsedIsFinite DEF PoolInv
<1>3. \/ UNCHANGED conn
      \/ \E c \in Conns, age \in {"idle", "old"} : conn' = [conn EXCEPT ![c].age = age]
  BY DEF Pool!GoDown, Pool!ComeUp, Pool!ServerCloses, Pool!Age
<1>4. UNCHANGED pipe \/ \E s \in Socks : pipe' = [pipe EXCEPT ![s].open = FALSE]
  BY DEF Pool!GoDown, Pool!ComeUp, Pool!ServerCloses, Pool!Age
<1>5. /\ conn' \in [Conns -> ConnType]
      /\ \A d \in Conns : conn'[d].sock = conn[d].sock /\ conn'[d].lock = conn[d].lock
  BY <1>2, <1>3 DEF QueriesTyped, ConnType
<1>6. pipe' \in [Socks -> PipeType]
  BY <1>2, <1>4 DEF QueriesTyped, PipeType
<1>7. QueriesTyped' /\ RestTyped'
  BY <1>1, <1>2, <1>5, <1>6 DEF QueriesTyped, RestTyped
<1>8. \A q \in PoolQueries : Leased(q)'
  BY <1>1, <1>2, <1>5, AllLeased
<1>9. UsedConns' \subseteq UsedConns
  BY <1>1, UsedStay
<1>10. /\ \A g \in Pool!Gens : pool'[g] = <<>> \/ (Len(pool'[g]) = PoolSize /\ g <= gen')
       /\ Len(doomed') <= PoolSize
  BY <1>1, <1>2 DEF LeaseInv
<1>11. \A c \in Conns : conn'[c].sock \in {conn[c].sock, None}
  BY <1>5
<1>12. QED
  BY <1>7, <1>8, <1>9, <1>10, <1>11, NothingNew

\* Maintenance: the connections nobody uses lose their sockets and their slots.
LEMMA PoolMaintain == ASSUME PoolInv, Pool!Maintain PROVE PoolInv'
<1> DEFINE list == pool[gen]
           slots == {i \in DOMAIN list : Pool!Expired(list[i])}
           fresh == Pool!FreeConns(Pool!Cardinality(slots))
           nth(i) == Pool!Cardinality({j \in slots : j <= i})
           old == {list[i] : i \in slots}
           relist == [i \in DOMAIN list |-> IF i \in slots THEN fresh[nth(i)] ELSE list[i]]
<1>1. /\ pool' = [pool EXCEPT ![gen] = relist]
      /\ pipe' = [s \in Socks |-> IF \E c \in old : conn[c].sock = s
                                  THEN [pipe[s] EXCEPT !.open = FALSE] ELSE pipe[s]]
      /\ conn' = [c \in Conns |-> CASE c \in Pool!Range(fresh) -> Pool!NewConn
                                    [] c \in old -> [conn[c] EXCEPT !.sock = None, !.closed = TRUE]
                                    [] OTHER -> conn[c]]
      /\ slots # {}
      /\ UNCHANGED <<cast, gen, doomed, closing, counter, poolUp, poolPc, at, answer, troubled,
                     overrun>>
  BY DEF Pool!Maintain
<1>2. QueriesTyped /\ RestTyped /\ LeaseInv /\ UsedConns \subseteq Conns
  BY PoolTypes, UsedIsFinite DEF PoolInv
<1>3. PoolSize \in Nat \ {0} /\ None \notin Conns
  BY PoolAssumption
<1>4. gen \in Pool!Gens /\ list \in Seq(Conns) /\ (list = <<>> \/ Len(list) = PoolSize)
  BY <1>2 DEF RestTyped, LeaseInv
<1>5. slots \subseteq 1..PoolSize /\ Len(list) = PoolSize /\ DOMAIN list = 1..PoolSize
  <2>1. PICK i \in DOMAIN list : TRUE
    BY <1>1
  <2>2. DOMAIN list = 1..Len(list) /\ Len(list) # 0
    BY <1>4, <2>1
  <2>3. QED
    BY <1>4, <2>2
<1> HIDE DEF slots
<1>6. IsFiniteSet(slots) /\ Cardinality(slots) \in 0..PoolSize
  <2>1. IsFiniteSet(1..PoolSize) /\ Cardinality(1..PoolSize) = PoolSize
    BY <1>3, UpTo
  <2>2. IsFiniteSet(slots) /\ Cardinality(slots) <= PoolSize
    <3>1. slots \in SUBSET (1..PoolSize)
      BY <1>5
    <3>2. IsFiniteSet(slots) /\ Cardinality(slots) <= Cardinality(1..PoolSize)
      BY <2>1, <3>1, FS_Subset
    <3>3. QED
      BY <2>1, <3>2
  <2>3. QED
    BY <1>3, <2>2, FS_CardinalityType
<1>7. /\ fresh \in [1..Cardinality(slots) -> Conns \ Pool!UsedConns] /\ fresh \in Seq(Conns)
      /\ Len(fresh) = Cardinality(slots)
  BY <1>6, FreeConnsAre, PoolCardinality DEF PoolInv
<1>8. ASSUME NEW i \in slots PROVE nth(i) \in 1..Cardinality(slots)
  <2> DEFINE upTo == {j \in slots : j <= i}
  <2>1. upTo \subseteq slots /\ i \in upTo
    BY <1>5
  <2> HIDE DEF upTo
  <2>2. IsFiniteSet(upTo) /\ Cardinality(upTo) <= Cardinality(slots) /\ Cardinality(upTo) # 0
        /\ Cardinality(upTo) \in Nat
    BY <1>6, <2>1, FS_Subset, FS_EmptySet, FS_CardinalityType
  <2>3. QED
    BY <1>6, <2>2, PoolCardinality DEF upTo
<1>9. /\ \A i \in slots : fresh[nth(i)] \in Conns /\ fresh[nth(i)] \in Pool!Range(fresh)
      /\ Pool!Range(fresh) \cap UsedConns = {} /\ Pool!Range(fresh) \subseteq Conns
  BY <1>6, <1>7, <1>8, RangeBound DEF UsedConns
<1> HIDE DEF fresh, nth
<1>10. /\ relist \in Seq(Conns) /\ Len(relist) = PoolSize /\ relist # <<>>
       /\ \A i \in 1..PoolSize : relist[i] \in Pool!Range(fresh) \cup Pool!Range(list)
  BY <1>3, <1>4, <1>5, <1>9, RangeBound
<1> HIDE DEF relist
<1>11. Pool!Range(relist) \subseteq Pool!UsedConns \cup Pool!Range(fresh)
  <2>1. Pool!Range(relist) = {relist[i] : i \in 1..PoolSize}
    BY <1>3, <1>10, RangeBound
  <2>2. Pool!Range(list) \subseteq Pool!UsedConns
    BY ListsAreUsed
  <2>3. QED
    BY <1>10, <2>1, <2>2
<1>12. old \cap Pool!Range(fresh) = {}
  <2>1. old \subseteq Conns /\ old \subseteq Pool!Range(list)
    <3>1. Pool!Range(list) = {list[i] : i \in 1..PoolSize} /\ Pool!Range(list) \subseteq Conns
      BY <1>3, <1>4, <1>5, RangeBound
    <3> HIDE DEF list
    <3>2. QED
      BY ONLY <1>5, <3>1
  <2>2. Pool!Range(list) \subseteq Pool!UsedConns
    BY ListsAreUsed
  <2>3. old \subseteq UsedConns
    BY <1>3, <2>1, <2>2 DEF UsedConns
  <2>4. QED
    BY <1>9, <2>3
<1> HIDE DEF old
<1>13. \A c \in Conns :
           /\ conn'[c] \in ConnType
           /\ c \in Pool!Range(fresh) => conn'[c].sock = None
           /\ c \notin Pool!Range(fresh) => conn'[c].sock \in {conn[c].sock, None}
                                          /\ conn'[c].lock = conn[c].lock
  <2> SUFFICES ASSUME NEW c \in Conns
               PROVE  /\ conn'[c] \in ConnType
                      /\ c \in Pool!Range(fresh) => conn'[c].sock = None
                      /\ c \notin Pool!Range(fresh) => conn'[c].sock \in {conn[c].sock, None}
                                                     /\ conn'[c].lock = conn[c].lock
    OBVIOUS
  <2>1. conn[c] \in ConnType
    BY <1>2 DEF QueriesTyped
  <2>2. CASE c \in Pool!Range(fresh)
    <3>1. conn'[c] = Pool!NewConn
      BY <1>1, <1>12, <2>2
    <3>2. QED
      BY <2>2, <3>1, NewConnIs
  <2>3. CASE c \notin Pool!Range(fresh) /\ c \in old
    <3>1. conn'[c] = [conn[c] EXCEPT !.sock = None, !.closed = TRUE]
      BY <1>1, <2>3
    <3>2. QED
      BY <2>1, <2>3, <3>1 DEF ConnType
  <2>4. CASE c \notin Pool!Range(fresh) /\ c \notin old
    <3>1. conn'[c] = conn[c]
      BY <1>1, <2>4
    <3>2. QED
      BY <2>1, <2>4, <3>1
  <2>5. QED
    BY <2>2, <2>3, <2>4
<1>14. \A g \in Pool!Gens : pool'[g] = IF g = gen THEN relist ELSE pool[g]
  BY <1>1, <1>2 DEF RestTyped
<1>15. QueriesTyped'
  <2>1. conn' \in [Conns -> ConnType]
    BY <1>1, <1>13
  <2>2. pipe' \in [Socks -> PipeType]
    BY <1>1, <1>2 DEF QueriesTyped, PipeType
  <2>3. QED
    BY <1>1, <1>2, <2>1, <2>2 DEF QueriesTyped
<1>16. RestTyped'
  BY <1>1, <1>2, <1>10 DEF RestTyped
<1>17. /\ \A g \in Pool!Gens : pool'[g] = <<>> \/ (Len(pool'[g]) = PoolSize /\ g <= gen')
       /\ Len(doomed') <= PoolSize
  <2>1. gen' = gen /\ gen <= gen
    <3>1. gen \in 1..2
      BY <1>4 DEF Pool!Gens
    <3>2. gen' = gen
      BY <1>1
    <3>3. QED
      BY <3>1, <3>2
  <2>2. QED
    BY <1>1, <1>2, <1>10, <1>14, <2>1 DEF LeaseInv
<1>18. \A q \in PoolQueries : Leased(q)'
  <2>1. \A c \in UsedConns : conn'[c].lock = conn[c].lock
    BY <1>2, <1>9, <1>13
  <2>2. QED
    BY <1>1, <1>2, <1>10, <1>14, <2>1, AllLeased
<1>19. UsedConns' \subseteq UsedConns \cup Pool!Range(fresh)
  <2>1. ASSUME NEW g \in {gen'} \cup ({at'[q].gen : q \in PoolQueries} \ {0})
        PROVE  Pool!Range(pool'[g]) \subseteq Pool!UsedConns \cup Pool!Range(fresh)
    <3>1. g \in {gen} \cup ({at[q].gen : q \in PoolQueries} \ {0})
      BY <1>1
    <3>2. g \in Pool!Gens
      BY <1>2, <3>1 DEF QueriesTyped, AtType, RestTyped
    <3>3. CASE g = gen
      BY <1>11, <1>14, <3>2, <3>3
    <3>4. CASE g # gen
      BY <1>14, <3>1, <3>2, <3>4, ListsAreUsed
    <3>5. QED
      BY <3>3, <3>4
  <2>2. \A q \in PoolQueries : at'[q].conn \in Pool!UsedConns \cup Pool!Range(fresh) \cup {None}
    BY <1>1, UsedIs
  <2>3. Pool!Range(doomed') \subseteq Pool!UsedConns \cup Pool!Range(fresh)
    BY <1>1, UsedIs
  <2>4. QED
    BY <2>1, <2>2, <2>3, UsedGrow
<1>20. /\ \A c \in Pool!Range(fresh) : conn'[c].sock = None
       /\ \A c \in UsedConns : conn'[c].sock \in {conn[c].sock, None}
  BY <1>2, <1>9, <1>13
<1>21. QED
  BY <1>9, <1>15, <1>16, <1>17, <1>18, <1>19, <1>20, StepFits

LEMMA PoolBegins == ASSUME Pool!Init PROVE PoolInv
<1>1. PoolSize \in Nat \ {0} /\ <<>> \in Seq(Conns) /\ <<>> \in Seq(PoolQueries)
  BY PoolAssumption
<1>2. /\ pool = [g \in Pool!Gens |-> <<>>] /\ gen = 1 /\ doomed = <<>> /\ counter = 0
      /\ conn = [c \in Conns |-> Pool!NewConn] /\ pipe = [s \in Socks |-> Pool!NewSock]
      /\ poolUp \in BOOLEAN /\ poolPc = [q \in PoolQueries |-> "idle"]
      /\ at = [q \in PoolQueries |-> Pool!Nothing] /\ answer = [q \in PoolQueries |-> None]
      /\ troubled = {} /\ closing = FALSE /\ overrun = {}
  BY DEF Pool!Init, PoolQueries
<1>3. Pool!NewSock \in PipeType
  BY <1>1 DEF Pool!NewSock, PipeType
<1>4. QueriesTyped
  BY <1>2, <1>3, NewConnIs, NothingIs DEF QueriesTyped, Places
<1>5. RestTyped
  <2>1. closing \in BOOLEAN
    BY <1>2
  <2>2. QED
    BY <1>1, <1>2, <2>1 DEF RestTyped, Pool!Gens
<1>6. LeaseInv
  BY <1>1, <1>2 DEF LeaseInv, Leased, InQuery, Pool!Gens
<1>7. SocketInv
  <2>1. UsedConns \subseteq Conns
    BY <1>4, <1>5, <1>6, PoolTypes, UsedIsFinite
  <2>2. QED
    BY <1>2, <2>1, NewConnIs DEF SocketInv
<1>8. QED
  BY <1>4, <1>5, <1>6, <1>7, PoolTypes DEF PoolInv

LEMMA PoolStutters == ASSUME PoolInv, UNCHANGED poolVars PROVE PoolInv'
<1>1. QueriesTyped /\ RestTyped /\ LeaseInv /\ SocketInv
  BY PoolTypes DEF PoolInv
<1>2. QueriesTyped' /\ RestTyped'
  BY <1>1 DEF QueriesTyped, RestTyped, poolVars
<1>3. LeaseInv'
  BY <1>1 DEF LeaseInv, Leased, poolVars
<1>4. UsedConns' \subseteq UsedConns
  BY UsedStay DEF poolVars
<1>5. SocketInv'
  BY <1>1, <1>4 DEF SocketInv, poolVars
<1>6. QED
  BY <1>2, <1>3, <1>5, PoolTypes DEF PoolInv

LEMMA PoolStep == ASSUME PoolInv, Pool!Next PROVE PoolInv'
<1>1. CASE \E t \in PoolQueries : Pool!Query(t)
  BY <1>1, PoolQuietly, PoolConnect, PoolLease, PoolReplace DEF Pool!Query
<1>2. CASE Pool!Maintain
  BY <1>2, PoolMaintain
<1>3. CASE Pool!Rebuild
  BY <1>3, PoolRebuild
<1>4. CASE Pool!CloseOld
  BY <1>4, PoolCloseOld
<1>5. CASE Pool!CloseBusy \/ Pool!ForgetBusy
  BY <1>5, PoolCloseBusy, PoolForgetBusy
<1>6. QED
  BY <1>1, <1>2, <1>3, <1>4, <1>5, PoolWorld DEF Pool!Next, PoolQueries

\* Two queries that read are on connections of their own, as one lock is not held twice,
\* and so on sockets of their own.
LEMMA PoolInvIsSafe == ASSUME PoolInv PROVE Pool!SocketsAreNotShared
<1>1. Pool!TypeOK /\ LeaseInv /\ SocketInv
  BY DEF PoolInv
<1>2. ASSUME NEW q \in PoolQueries, NEW r \in PoolQueries, q # r,
             poolPc[q] = "receive", poolPc[r] = "receive", conn[at[q].conn].sock # None
      PROVE  conn[at[q].conn].sock # conn[at[r].conn].sock
  <2>1. at[q].conn \in UsedConns /\ at[r].conn \in UsedConns
    BY <1>1, <1>2, HeldAreUsed
  <2>2. conn[at[q].conn].lock = q /\ conn[at[r].conn].lock = r
    BY <1>1, <1>2 DEF LeaseInv, Leased, InQuery
  <2>3. QED
    BY <1>1, <1>2, <2>1, <2>2 DEF SocketInv
<1>3. QED
  BY <1>1, <1>2 DEF Pool!SocketsAreNotShared, Pool!Sock, Pool!Conn, PoolQueries

\* "a socket is never shared by two in-flight queries" (app.py:3443): for any number of
\* queries and any size of the pool, while connections are discarded, replaced, maintained
\* and closed by others.
THEOREM SocketsServeOne == Spec => []PoolIsSafe
<1> DEFINE Inv == part = "pool" => PoolInv
<1>1. Init => Inv
  BY PoolBegins DEF Init
<1>2. Inv /\ [Next]_<<part, poolVars, quicVars, forwardVars>> => Inv'
  BY PoolStep, PoolStutters DEF Next
<1>3. Inv => PoolIsSafe
  BY PoolInvIsSafe DEF PoolIsSafe
<1> HIDE DEF Inv
<1>4. QED
  BY <1>1, <1>2, <1>3, PTL DEF Spec
=============================================================================
