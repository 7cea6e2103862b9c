-------------------------- MODULE ConnManagerProofs --------------------------
(***************************************************************************)
(* Proofs about module ConnManager, for every number of shards, accept     *)
(* goroutines, users and connections, every hash function and every limit. *)
(***************************************************************************)
EXTENDS ConnManager, FiniteSetTheorems, TLAPS

\* Which process is where, and what it holds there.
PlaceInv ==
    /\ \A a \in Acceptors :
          /\ pc[a] \in {"limit", "accept", "set", "log", "off"}
          /\ a \notin conf.run => pc[a] = "off" /\ id[a] = 0
    /\ \A c \in Ids : pc[c] \in {"none", "live", "remove", "log", "gone"}
    /\ \A u \in Users : pc[u] \in {"idle", "capacity", "keys", "snapshot", "lock", "callback",
                                   "inner", "log", "off"}

\* The ids drawn are numbered; only the goroutine that drew an id registers it.
IdInv ==
    /\ \A c \in conns : c <= cID
    /\ \A a \in Acceptors : id[a] <= cID /\ (pc[a] \in {"set", "log"} => id[a] # 0)
    /\ \A a, b \in Acceptors : id[a] = id[b] /\ id[a] # 0 => a = b

\* The histories of a call enclose the map.
HistoryInv ==
    \A p \in Procs : always[p] \subseteq conns
                     /\ (pc[p] \in Reading => conns \subseteq ever[p])

Before(p, C) == {c \in C : conf.hash[c] < at[p]}

\* A Count under way is right about the shards it has read.
CountInv ==
    \A p \in Procs : pc[p] \in Counting =>
        /\ Cardinality(Before(p, always[p])) <= sum[p]
        /\ sum[p] <= Cardinality(Before(p, ever[p]))

\* An iteration under way has delivered, or will before the next shard, what it read.
SeenInv ==
    \A u \in Users :
        /\ pc[u] \notin {"callback", "inner"} => todo[u] = {}
        /\ pc[u] = "capacity" => seen[u] = {}
        /\ pc[u] \in {"keys", "snapshot", "lock", "callback", "inner"} =>
              /\ {c \in always[u] : conf.hash[c] \notin rest[u]} \subseteq seen[u] \cup todo[u]
              /\ seen[u] \cup todo[u] \subseteq ever[u]

Counters == {a \in Acceptors : pc[a] = "limit"}
Admitted == {a \in Acceptors : pc[a] = "accept"}

\* The last connection of each acceptor that is not in B.
Latest(B) == {id[x] : x \in Acceptors \ B}

\* Nothing was added since a began to count but, by others, their latest connections.
UpToDate(a) == conns \ always[a] \subseteq Latest(Admitted \cup {a})
Overtaken == {a \in Counters : ~UpToDate(a)}

\* The counts under way have begun one after the other, and each after the acceptor
\* registered its latest connection.
OrderInv ==
    /\ \A a, b \in Counters : always[a] \subseteq always[b] \/ always[b] \subseteq always[a]
    /\ \A a \in Counters : id[a] \in conns => id[a] \in always[a]

\* The limit holds without the latest connection of each acceptor that has not been
\* admitted again, nor been overtaken by one that was.
LimitInv == Cardinality(conns \ Latest(Admitted \cup Overtaken)) <= MaxConn - 1

IInv == /\ TypeOK /\ PlaceInv /\ IdInv
        /\ HistoryInv /\ CountInv /\ SeenInv
        /\ OrderInv /\ LimitInv

-----------------------------------------------------------------------------
(* Sets of connections.                                                    *)

LEMMA IdsFinite ==
    /\ \A S \in SUBSET Ids : IsFiniteSet(S) /\ Cardinality(S) \in Nat
    /\ \A S, T \in SUBSET Ids : S \subseteq T => Cardinality(S) <= Cardinality(T)
<1>1. IsFiniteSet(Ids)
  BY FS_Interval, BoundAssumption DEF Ids
<1>2. \A S \in SUBSET Ids : IsFiniteSet(S) /\ Cardinality(S) \in Nat
  BY <1>1, FS_Subset, FS_CardinalityType
<1>3. ASSUME NEW S \in SUBSET Ids, NEW T \in SUBSET Ids, S \subseteq T
      PROVE  Cardinality(S) <= Cardinality(T)
  BY <1>2, <1>3, FS_Subset
<1>4. QED
  BY <1>2, <1>3

\* What the configuration fixes.
LEMMA ConfType ==
    ASSUME TypeOK
    PROVE  conf.hash \in [Ids -> Shards] /\ conf.accepts \in 0..MaxIds
BY ConfigAssumption DEF TypeOK

\* The steps, by the process that takes them.
StepOf ==
    \/ \E p \in Procs : CountShard(p) \/ LogShard(p) \/ AwaitLock(p)
    \/ \E a \in Acceptors : \/ CheckLimit(a) \/ Delay(a) \/ Accept(a)
                             \/ AcceptError(a) \/ Set(a) \/ Added(a)
    \/ \E c \in Ids : Finalize(c) \/ Remove(c) \/ Removed(c)
    \/ \E u \in Users : \/ GetAllConnID(u) \/ ClearConn(u) \/ RangeConn(u)
                         \/ KeysStart(u) \/ Cleared(u) \/ RLockShard(u)
                         \/ InnerReturns(u) \/ RUnlock(u) \/ Return(u)
    \/ \E u \in Users, s \in Shards : ReadShard(u, s)
    \/ \E u \in Users, c \in Ids : Callback(u, c)

LEMMA StepCases == Next => StepOf
<1>1. ASSUME NEW a \in Acceptors, Acceptor(a) \/ Accept(a) \/ AcceptError(a) PROVE StepOf
  BY <1>1 DEF Acceptor, StepOf, Procs
<1>2. ASSUME NEW c \in Ids, Finalizer(c) \/ Finalize(c) PROVE StepOf
  BY <1>2 DEF Finalizer, StepOf, Procs
<1>3. ASSUME NEW u \in Users, User(u) \/ GetAllConnID(u) \/ ClearConn(u) \/ RangeConn(u)
      PROVE  StepOf
  <2>1. CASE \/ CountShard(u) \/ LogShard(u) \/ KeysStart(u) \/ Cleared(u) \/ RLockShard(u)
             \/ InnerReturns(u) \/ RUnlock(u) \/ Return(u)
             \/ GetAllConnID(u) \/ ClearConn(u) \/ RangeConn(u)
    BY <2>1 DEF StepOf, Procs
  <2>2. ASSUME NEW s \in Shards, ReadShard(u, s) PROVE StepOf
    BY <2>2 DEF StepOf
  <2>3. ASSUME NEW c \in Ids, Callback(u, c) PROVE StepOf
    BY <2>3 DEF StepOf
  <2>4. QED
    BY <1>3, <2>1, <2>2, <2>3 DEF User
<1>4. QED
  BY <1>1, <1>2, <1>3 DEF Next

LEMMA InitIInv == Init => IInv
<1> SUFFICES ASSUME Init PROVE IInv
  OBVIOUS
<1>1. TypeOK
  BY BoundAssumption, ProcsAssumption DEF Init, TypeOK, Procs, Reading, Counting, Ids
<1>2. PlaceInv
  BY ProcsAssumption DEF Init, PlaceInv, Procs
<1>3. IdInv
  <2>1. \A a \in Acceptors : id[a] = 0 /\ pc[a] \in {"limit", "off"}
    BY <1>2 , ProcsAssumption DEF Init, Procs
  <2>2. QED
    BY <2>1 DEF Init, IdInv
<1>4. HistoryInv /\ SeenInv
  <2>1. \A u \in Users : pc[u] \in {"idle", "off"}
    BY ProcsAssumption DEF Init, Procs
  <2>2. QED
    BY <2>1 DEF Init, HistoryInv, SeenInv
<1>5. CountInv
  <2>1. \A p \in Procs : Before(p, always[p]) = {} /\ Before(p, ever[p]) = {} /\ sum[p] = 0
    BY DEF Init, Before
  <2>2. QED
    BY <2>1, FS_EmptySet DEF CountInv
<1>6. OrderInv /\ LimitInv
  <2>1. conns \ Latest(Admitted \cup Overtaken) = {}
    BY DEF Init
  <2>2. MaxConn - 1 >= 0
    BY BoundAssumption
  <2>3. LimitInv
    BY <2>1, <2>2, FS_EmptySet, BoundAssumption DEF LimitInv
  <2>4. OrderInv
    BY DEF Init, OrderInv, Counters, Procs
  <2>5. QED
    BY <2>3, <2>4
<1>7. QED
  BY <1>1, <1>2, <1>3, <1>4, <1>5, <1>6 DEF IInv

LEMMA TypeStep == ASSUME TypeOK, IdInv, PlaceInv, [Next]_vars PROVE TypeOK'
<1> USE DEF Reading, Counting, Procs
<1>1. ASSUME NEW p \in Procs, CountShard(p) PROVE TypeOK'
  <2>1. Cardinality(Shard(at[p])) \in Nat
    BY IdsFinite DEF Shard, TypeOK
  <2>2. sum' \in [Procs -> Nat] /\ at' \in [Procs -> 0..ShardCount]
    BY <1>1, <2>1, BoundAssumption DEF CountShard, TypeOK
  <2>3. QED
    BY <1>1, <2>2 DEF CountShard, TypeOK, iterVars
<1>2. ASSUME NEW p \in Procs, LogShard(p) PROVE TypeOK'
  <2>1. at' \in [Procs -> 0..ShardCount]
    BY <1>2, BoundAssumption DEF LogShard, TypeOK
  <2>2. QED
    BY <1>2, <2>1 DEF LogShard, TypeOK, iterVars
<1>3. ASSUME NEW p \in Procs, AwaitLock(p) PROVE TypeOK'
  BY <1>3 DEF AwaitLock, TypeOK, iterVars, readVars
<1>4. ASSUME NEW p \in Procs, NEW cs \in SUBSET Ids, Write(p, cs) PROVE TypeOK'
  <2>1. always' \in [Procs -> SUBSET Ids] /\ ever' \in [Procs -> SUBSET Ids]
    BY <1>4 DEF Write, TypeOK
  <2>2. QED
    BY <1>4, <2>1 DEF Write, Goto, TypeOK, iterVars
<1>5. ASSUME NEW p \in Procs, Begin(p) \/ End(p)
      PROVE  /\ at' \in [Procs -> 0..ShardCount] /\ sum' \in [Procs -> Nat]
             /\ always' \in [Procs -> SUBSET Ids] /\ ever' \in [Procs -> SUBSET Ids]
  BY <1>5, BoundAssumption DEF Begin, End, TypeOK
<1>6. ASSUME NEW a \in Acceptors, CheckLimit(a) \/ Delay(a) \/ AcceptError(a) PROVE TypeOK'
  <2>1. Begin(a) \/ End(a)
    BY <1>6 DEF CheckLimit, Delay, AcceptError
  <2>2. QED
    BY <1>5, <1>6, <2>1 DEF CheckLimit, Delay, AcceptError, Goto, TypeOK, iterVars
<1>7. ASSUME NEW a \in Acceptors, Accept(a) PROVE TypeOK'
  <2>1. cID' \in 0..MaxIds /\ id' \in [Acceptors -> 0..MaxIds]
    BY <1>7, ConfType, BoundAssumption DEF Accept, TypeOK
  <2>2. QED
    BY <1>7, <2>1 DEF Accept, Goto, TypeOK, iterVars, readVars
<1>8. ASSUME NEW a \in Acceptors, Set(a) PROVE TypeOK'
  <2>1. id[a] \in Ids
    BY <1>8, BoundAssumption DEF Set, IdInv, TypeOK, Ids
  <2>2. conns \cup {id[a]} \in SUBSET Ids
    BY <2>1 DEF TypeOK
  <2>3. QED
    BY <1>4, <1>8, <2>2 DEF Set
<1>9. ASSUME NEW a \in Acceptors, Added(a) PROVE TypeOK'
  <2>1. Begin(a)
    BY <1>9 DEF Added
  <2>2. QED
    BY <1>5, <1>9, <2>1 DEF Added, TypeOK, iterVars
<1>10. ASSUME NEW c \in Ids, Finalize(c) \/ Remove(c) \/ Removed(c) PROVE TypeOK'
  <2>1. CASE Finalize(c)
    BY <2>1 DEF Finalize, Goto, TypeOK, iterVars, readVars
  <2>2. CASE Remove(c)
    <3>1. conns \ {c} \in SUBSET Ids
      BY DEF TypeOK
    <3>2. QED
      BY <1>4, <2>2, <3>1 DEF Remove
  <2>3. CASE Removed(c)
    <3>1. End(c)
      BY <2>3 DEF Removed
    <3>2. QED
      BY <1>5, <2>3, <3>1 DEF Removed, Goto, TypeOK, iterVars
  <2>4. QED
    BY <1>10, <2>1, <2>2, <2>3
<1>11. ASSUME NEW u \in Users, GetAllConnID(u) \/ ClearConn(u) \/ RangeConn(u) PROVE TypeOK'
  <2>1. PICK label \in {"capacity", "snapshot", "lock"} :
           Call(u, label, {}) \/ Call(u, label, Shards)
    BY <1>11 DEF GetAllConnID, ClearConn, RangeConn
  <2>2. Begin(u)
    BY <2>1 DEF Call
  <2>3. calls' \in [Users -> 0..MaxCalls]
    BY <2>1, BoundAssumption DEF Call, TypeOK
  <2>4. QED
    BY <1>5, <2>1, <2>2, <2>3, SMTT(60) DEF Call, Goto, TypeOK
<1>12. ASSUME NEW u \in Users, KeysStart(u) \/ InnerReturns(u) \/ RUnlock(u) PROVE TypeOK'
  BY <1>12 DEF KeysStart, InnerReturns, RUnlock, Goto, TypeOK, iterVars, readVars
<1>13. ASSUME NEW u \in Users, Cleared(u) \/ Return(u) PROVE TypeOK'
  <2>1. End(u)
    BY <1>13 DEF Cleared, Return
  <2>2. QED
    BY <1>5, <1>13, <2>1 DEF Cleared, Return, Goto, TypeOK, iterVars
<1>14. ASSUME NEW u \in Users, NEW s \in Shards, ReadShard(u, s) PROVE TypeOK'
  <2>1. Shard(s) \in SUBSET Ids
    BY DEF Shard, TypeOK
  <2>2. QED
    BY <1>14, <2>1 DEF ReadShard, TypeOK, readVars
<1>15. ASSUME NEW u \in Users, RLockShard(u) PROVE TypeOK'
  <2>1. PICK s \in rest[u] : /\ rest' = [rest EXCEPT ![u] = @ \ {s}]
                             /\ held' = [held EXCEPT ![u] = @ \cup {s}]
                             /\ todo' = [todo EXCEPT ![u] = Shard(s)]
    BY <1>15 DEF RLockShard
  <2>2. s \in Shards /\ Shard(s) \in SUBSET Ids
    BY DEF Shard, TypeOK
  <2>3. rest' \in [Users -> SUBSET Shards] /\ held' \in [Users -> SUBSET Shards]
        /\ todo' \in [Users -> SUBSET Ids]
    BY <2>1, <2>2 DEF TypeOK
  <2>4. QED
    BY <1>15, <2>3 DEF RLockShard, Goto, TypeOK, readVars
<1>16. ASSUME NEW u \in Users, NEW c \in Ids, Callback(u, c) PROVE TypeOK'
  BY <1>16, BoundAssumption DEF Callback, Goto, TypeOK
<1>17. CASE UNCHANGED vars
  BY <1>17 DEF TypeOK, vars, iterVars, readVars
<1>18. QED
  BY <1>1, <1>2, <1>3, <1>6, <1>7, <1>8, <1>9, <1>10, <1>11, <1>12, <1>13, <1>14, <1>15,
     <1>16, <1>17, StepCases DEF StepOf

-----------------------------------------------------------------------------
(* Places, ids and histories.                                              *)

LEMMA PlaceStep == ASSUME TypeOK, PlaceInv, IdInv, [Next]_vars PROVE PlaceInv'
<1> USE ProcsAssumption DEF Procs
<1>1. ASSUME NEW p \in Procs, CountShard(p) \/ LogShard(p) \/ AwaitLock(p) PROVE PlaceInv'
  BY <1>1 DEF CountShard, LogShard, AwaitLock, PlaceInv
<1>2. ASSUME NEW a \in Acceptors, \/ CheckLimit(a) \/ Delay(a) \/ Accept(a)
                                  \/ AcceptError(a) \/ Set(a)
      PROVE PlaceInv'
  <2>1. /\ pc[a] # "off" /\ conf' = conf
        /\ \A b \in Acceptors \ {a} : id'[b] = id[b]
        /\ \E l \in {"limit", "accept", "set", "log"} : pc' = [pc EXCEPT ![a] = l]
    BY <1>2 DEF CheckLimit, Counted, Delay, Accept, AcceptError, Set, Write, Goto, TypeOK
  <2>2. QED
    BY <2>1 DEF PlaceInv, TypeOK
<1>3. ASSUME NEW a \in Acceptors, Added(a) PROVE PlaceInv'
  <2>1. id[a] \in Ids /\ a \notin Ids
    BY <1>3, BoundAssumption DEF Added, Counted, IdInv, TypeOK, Ids
  <2>2. QED
    BY <1>3, <2>1, SMTT(60) DEF Added, Counted, PlaceInv, TypeOK
<1>4. ASSUME NEW c \in Ids, Finalize(c) \/ Remove(c) \/ Removed(c) PROVE PlaceInv'
  BY <1>4, SMTT(60) DEF Finalize, Remove, Removed, Write, Goto, PlaceInv, TypeOK
<1>5. ASSUME NEW u \in Users, GetAllConnID(u) \/ ClearConn(u) \/ RangeConn(u) PROVE PlaceInv'
  <2>1. PICK label \in {"capacity", "snapshot", "lock"} :
           Call(u, label, {}) \/ Call(u, label, Shards)
    BY <1>5 DEF GetAllConnID, ClearConn, RangeConn
  <2>2. QED
    BY <2>1, SMTT(60) DEF Call, Goto, PlaceInv, TypeOK
<1>6. ASSUME NEW u \in Users, \/ KeysStart(u) \/ Cleared(u) \/ RLockShard(u)
                              \/ InnerReturns(u) \/ RUnlock(u) \/ Return(u)
                              \/ \E s \in Shards : ReadShard(u, s)
      PROVE PlaceInv'
  BY <1>6, SMTT(60) DEF KeysStart, Cleared, RLockShard, InnerReturns, RUnlock, Return, ReadShard, Goto,
     PlaceInv, TypeOK
<1>7. ASSUME NEW u \in Users, NEW c \in Ids, Callback(u, c) PROVE PlaceInv'
  BY <1>7 DEF Callback, Goto, PlaceInv, TypeOK
<1>8. CASE UNCHANGED vars
  BY <1>8 DEF vars, PlaceInv
<1>9. QED
  BY <1>1, <1>2, <1>3, <1>4, <1>5, <1>6, <1>7, <1>8, StepCases DEF StepOf

\* No user's call, and no step of a Count, touches the map and the ids.
LEMMA ReadersOnly ==
    ASSUME TypeOK, PlaceInv, NEW u \in Users,
           \/ GetAllConnID(u) \/ ClearConn(u) \/ RangeConn(u)
           \/ KeysStart(u) \/ Cleared(u) \/ RLockShard(u)
           \/ InnerReturns(u) \/ RUnlock(u) \/ Return(u)
           \/ \E s \in Shards : ReadShard(u, s)
           \/ \E c \in Ids : Callback(u, c)
    PROVE  /\ UNCHANGED <<conf, conns, cID, id>>
           /\ \A p \in Procs \ {u} : pc'[p] = pc[p] /\ at'[p] = at[p] /\ sum'[p] = sum[p]
                                     /\ always'[p] = always[p] /\ ever'[p] = ever[p]
           /\ \A v \in Users \ {u} : UNCHANGED <<rest[v], todo[v], seen[v]>>
BY DEF GetAllConnID, ClearConn, RangeConn, Call, KeysStart, Cleared, RLockShard, InnerReturns,
   RUnlock, Return, ReadShard, Callback, Begin, End, Goto, readVars, iterVars, TypeOK, Procs

LEMMA IdStep == ASSUME TypeOK, PlaceInv, IdInv, [Next]_vars PROVE IdInv'
<1> USE ProcsAssumption
<1>1. ASSUME NEW p \in Procs, CountShard(p) \/ LogShard(p) \/ AwaitLock(p) PROVE IdInv'
  BY <1>1 DEF CountShard, LogShard, AwaitLock, IdInv
<1>2. ASSUME NEW a \in Acceptors, CheckLimit(a) \/ Delay(a) \/ AcceptError(a) PROVE IdInv'
  <2>1. /\ UNCHANGED <<conns, cID, id>>
        /\ \A b \in Acceptors : pc'[b] \in {"set", "log"} => pc[b] \in {"set", "log"}
    BY <1>2 DEF CheckLimit, Delay, AcceptError, Goto, TypeOK, Procs
  <2>2. QED
    BY <2>1 DEF IdInv
<1>3. ASSUME NEW a \in Acceptors, Accept(a) PROVE IdInv'
  <2>1. /\ cID' = cID + 1 /\ id' = [id EXCEPT ![a] = cID + 1] /\ conns' = conns
        /\ pc' = [pc EXCEPT ![a] = "set"]
    BY <1>3 DEF Accept, Goto
  <2>2. cID \in Nat /\ conns \subseteq Nat /\ \A b \in Acceptors : id[b] \in Nat
    BY BoundAssumption DEF TypeOK, Ids
  <2>3. /\ id'[a] = cID + 1
        /\ \A b \in Acceptors \ {a} : id'[b] = id[b] /\ id[b] <= cID /\ pc'[b] = pc[b]
    BY <2>1 DEF IdInv, TypeOK, Procs
  <2>4. \A b \in Acceptors : id'[b] <= cID' /\ (pc'[b] \in {"set", "log"} => id'[b] # 0)
    BY <2>1, <2>2, <2>3 DEF IdInv
  <2>5. \A b, d \in Acceptors : id'[b] = id'[d] /\ id'[b] # 0 => b = d
    BY <2>2, <2>3 DEF IdInv
  <2>6. \A c \in conns' : c <= cID'
    BY <2>1, <2>2 DEF IdInv
  <2>7. QED
    BY <2>4, <2>5, <2>6 DEF IdInv
<1>4. ASSUME NEW a \in Acceptors, Set(a) PROVE IdInv'
  BY <1>4 DEF Set, Write, Goto, IdInv, TypeOK
<1>5. ASSUME NEW a \in Acceptors, Added(a) PROVE IdInv'
  <2>1. id[a] \in Ids /\ \A b \in Acceptors : b # id[a]
    BY <1>5, BoundAssumption DEF Added, Counted, IdInv, TypeOK, Ids
  <2>2. QED
    BY <1>5, <2>1 DEF Added, IdInv, TypeOK, Procs
<1>6. ASSUME NEW c \in Ids, Finalize(c) \/ Remove(c) \/ Removed(c) PROVE IdInv'
  <2>1. /\ UNCHANGED <<cID, id>> /\ conns' \subseteq conns
        /\ \A a \in Acceptors : pc'[a] = pc[a]
    BY <1>6 DEF Finalize, Remove, Removed, Write, Goto, TypeOK, Procs
  <2>2. QED
    BY <2>1 DEF IdInv
<1>7. ASSUME NEW u \in Users, UNCHANGED <<conf, conns, cID, id>>,
             \A p \in Procs \ {u} : pc'[p] = pc[p]
      PROVE  IdInv'
  BY <1>7 DEF IdInv, Procs
<1>8. CASE UNCHANGED vars
  BY <1>8 DEF vars, IdInv
<1>9. QED
  BY <1>1, <1>2, <1>3, <1>4, <1>5, <1>6, <1>7, <1>8, StepCases, ReadersOnly DEF StepOf

LEMMA HistoryStep == ASSUME TypeOK, PlaceInv, IdInv, HistoryInv, [Next]_vars PROVE HistoryInv'
<1> USE ProcsAssumption DEF Reading, Counting
<1>1. ASSUME NEW p \in Procs, CountShard(p) \/ LogShard(p) \/ AwaitLock(p) PROVE HistoryInv'
  BY <1>1 DEF CountShard, LogShard, AwaitLock, HistoryInv, readVars
<1>2. ASSUME NEW p \in Procs, Begin(p) \/ End(p), UNCHANGED conns,
             End(p) => pc'[p] \notin Reading,
             \A q \in Procs \ {p} : pc'[q] \in Reading => pc[q] \in Reading
      PROVE  HistoryInv'
  BY <1>2 DEF Begin, End, HistoryInv, TypeOK
<1>3. ASSUME NEW p \in Procs, NEW cs, Write(p, cs) PROVE HistoryInv'
  <2>1. /\ conns' = cs /\ pc' = [pc EXCEPT ![p] = "log"]
        /\ \A q \in Procs : always'[q] = always[q] \cap cs
        /\ \A q \in Procs : pc[q] \in Reading => ever'[q] = ever[q] \cup cs
    BY <1>3 DEF Write, Goto
  <2>2. QED
    BY <2>1 DEF HistoryInv, TypeOK
<1>4. ASSUME NEW a \in Acceptors, CheckLimit(a) \/ Delay(a) \/ AcceptError(a) PROVE HistoryInv'
  <2>1. Begin(a) \/ End(a)
    BY <1>4 DEF CheckLimit, Delay, AcceptError
  <2>2. a \in Procs /\ conns' = conns /\ \A q \in Procs \ {a} : pc'[q] = pc[q]
    BY <1>4 DEF CheckLimit, Delay, AcceptError, Goto, TypeOK, Procs
  <2>3. QED
    BY <1>2, <1>4, <2>1, <2>2 DEF CheckLimit, Delay, AcceptError, Goto, TypeOK, Begin, HistoryInv, End
<1>5. ASSUME NEW a \in Acceptors, Accept(a) PROVE HistoryInv'
  BY <1>5 DEF Accept, Goto, HistoryInv, TypeOK, readVars
<1>6. ASSUME NEW a \in Acceptors, Added(a) PROVE HistoryInv'
  BY <1>6 DEF Added, Begin, HistoryInv, TypeOK, Procs
<1>7. ASSUME NEW c \in Ids, Finalize(c) \/ Removed(c) PROVE HistoryInv'
  BY <1>7 DEF Finalize, Removed, End, Goto, HistoryInv, TypeOK, Procs, readVars
<1>8. ASSUME NEW u \in Users, GetAllConnID(u) \/ ClearConn(u) \/ RangeConn(u) PROVE HistoryInv'
  BY <1>8 DEF GetAllConnID, ClearConn, RangeConn, Call, Begin, Goto, HistoryInv, TypeOK, Procs
<1>9. ASSUME NEW u \in Users, Cleared(u) \/ Return(u) PROVE HistoryInv'
  BY <1>9 DEF Cleared, Return, End, Goto, HistoryInv, TypeOK, Procs
<1>10. ASSUME NEW u \in Users, \/ KeysStart(u) \/ RLockShard(u)
                               \/ InnerReturns(u) \/ RUnlock(u)
                               \/ \E s \in Shards : ReadShard(u, s)
       PROVE  HistoryInv'
  BY <1>10 DEF KeysStart, RLockShard, InnerReturns, RUnlock, ReadShard, Counted, Goto,
     HistoryInv, TypeOK, readVars, Procs
<1>11. ASSUME NEW u \in Users, NEW c \in Ids, Callback(u, c) PROVE HistoryInv'
  BY <1>11 DEF Callback, Goto, HistoryInv, TypeOK, Procs
<1>12. CASE UNCHANGED vars
  BY <1>12 DEF vars, readVars, HistoryInv
<1>13. ASSUME NEW c \in Ids, Remove(c) PROVE HistoryInv'
  BY <1>3, <1>13 DEF Remove, Procs
<1>14. ASSUME NEW a \in Acceptors, Set(a) PROVE HistoryInv'
  BY <1>3, <1>14 DEF Set, Procs
<1>15. QED
  BY <1>1, <1>4, <1>5, <1>6, <1>7, <1>8, <1>9, <1>10, <1>11, <1>12, <1>13, <1>14, StepCases
  DEF StepOf

-----------------------------------------------------------------------------
(* What Count and the iterations deliver.                                  *)

\* The Count of process p lies between what it must and what it may have seen.
CountOK(p) ==
    /\ Cardinality(Before(p, always[p])) <= sum[p]
    /\ sum[p] <= Cardinality(Before(p, ever[p]))

LEMMA CountKept ==
    ASSUME TypeOK, TypeOK', NEW p \in Procs, CountOK(p), UNCHANGED conf,
           at'[p] = at[p], sum'[p] = sum[p],
           always'[p] \subseteq always[p], ever[p] \subseteq ever'[p]
    PROVE  CountOK(p)'
<1>1. /\ Before(p, always[p]) \in SUBSET Ids /\ Before(p, ever[p]) \in SUBSET Ids
      /\ Before(p, always[p])' \in SUBSET Ids /\ Before(p, ever[p])' \in SUBSET Ids
      /\ Before(p, always[p])' \subseteq Before(p, always[p])
      /\ Before(p, ever[p]) \subseteq Before(p, ever[p])'
  BY DEF Before, TypeOK
<1>2. sum[p] \in Nat
  BY DEF TypeOK
<1> DEFINE A == Before(p, always[p])
           B == Before(p, always[p])'
           C == Before(p, ever[p])
           D == Before(p, ever[p])'
<1>3. /\ Cardinality(B) <= Cardinality(A) /\ Cardinality(C) <= Cardinality(D)
      /\ Cardinality(A) \in Nat /\ Cardinality(B) \in Nat
      /\ Cardinality(C) \in Nat /\ Cardinality(D) \in Nat
  BY <1>1, IdsFinite
<1>4. Cardinality(A) <= sum[p] /\ sum[p] <= Cardinality(C)
  BY DEF CountOK
<1> HIDE DEF A, B, C, D
<1>5. Cardinality(B) <= sum[p] /\ sum[p] <= Cardinality(D)
  BY <1>2, <1>3, <1>4
<1>6. QED
  BY <1>5 DEF CountOK, B, D

LEMMA CountStarted ==
    ASSUME TypeOK, TypeOK', NEW p \in Procs, at'[p] = 0, sum'[p] = 0
    PROVE  CountOK(p)'
<1>1. \A c \in Ids : conf'.hash[c] \in Nat
  BY ConfigAssumption, BoundAssumption DEF TypeOK, Shards
<1>2. Before(p, always[p])' = {} /\ Before(p, ever[p])' = {}
  BY <1>1 DEF Before, TypeOK
<1>3. QED
  BY <1>2, FS_EmptySet DEF CountOK

LEMMA CountAdds ==
    ASSUME TypeOK, HistoryInv, NEW p \in Procs, pc[p] \in Counting, CountOK(p), CountShard(p)
    PROVE  CountOK(p)'
<1> DEFINE A == Before(p, always[p])
           C == Before(p, ever[p])
           S == Shard(at[p])
           B == Before(p, always[p])'
           D == Before(p, ever[p])'
<1>1. /\ at'[p] = at[p] + 1 /\ sum'[p] = sum[p] + Cardinality(S)
      /\ UNCHANGED <<conf, always, ever>>
  BY DEF CountShard, TypeOK
<1>2. conf.hash \in [Ids -> Nat] /\ at[p] \in Nat /\ sum[p] \in Nat
      /\ always[p] \subseteq conns /\ conns \subseteq ever[p] /\ ever[p] \subseteq Ids
  BY ConfType, BoundAssumption DEF TypeOK, Shards, HistoryInv, Reading
<1>3. /\ B \subseteq A \cup S /\ C \cup S \subseteq D /\ C \cap S = {}
      /\ {A, B, C, D, S, A \cup S, C \cup S} \subseteq SUBSET Ids
  BY <1>1, <1>2 DEF Before, Shard
<1>4. Cardinality(A) <= sum[p] /\ sum[p] <= Cardinality(C)
  BY DEF CountOK
<1> HIDE DEF A, B, C, D, S
<1>5. /\ Cardinality(B) <= Cardinality(A \cup S) /\ Cardinality(C \cup S) <= Cardinality(D)
      /\ \A X \in {A, B, C, D, S, A \cup S, C \cup S, A \cap S} :
            IsFiniteSet(X) /\ Cardinality(X) \in Nat
  BY <1>3, IdsFinite
<1>6. Cardinality(A \cup S) = Cardinality(A) + Cardinality(S) - Cardinality(A \cap S)
  BY <1>5, FS_Union
<1>7. Cardinality(C \cup S) = Cardinality(C) + Cardinality(S)
  <2>1. Cardinality(C \cup S) = Cardinality(C) + Cardinality(S) - Cardinality({})
    BY <1>3, <1>5, FS_Union
  <2>2. QED
    BY <1>5, <2>1, FS_EmptySet
<1>8. Cardinality(B) <= sum'[p] /\ sum'[p] <= Cardinality(D)
  BY <1>1, <1>2, <1>4, <1>5, <1>6, <1>7
<1>9. QED
  BY <1>8 DEF CountOK, B, D

LEMMA CountStep ==
    ASSUME TypeOK, TypeOK', PlaceInv, HistoryInv, CountInv, [Next]_vars
    PROVE  CountInv'
<1> USE ProcsAssumption
<1> DEFINE Kept(p) == /\ pc[p] \in Counting /\ at'[p] = at[p] /\ sum'[p] = sum[p]
                      /\ always'[p] \subseteq always[p] /\ ever[p] \subseteq ever'[p]
           Started(p) == at'[p] = 0 /\ sum'[p] = 0
           Ended(p) == pc'[p] \notin Counting
<1>1. ASSUME UNCHANGED conf, \A p \in Procs : Kept(p) \/ Started(p) \/ Ended(p)
      PROVE  CountInv'
  <2>1. ASSUME NEW p \in Procs, pc'[p] \in Counting PROVE CountOK(p)'
    <3>1. CASE Kept(p)
      BY <1>1, <3>1, CountKept DEF CountInv, CountOK
    <3>2. CASE Started(p)
      BY <3>2, CountStarted
    <3>3. QED
      BY <1>1, <2>1, <3>1, <3>2
  <2>2. QED
    BY <2>1 DEF CountInv, CountOK
<1>2. ASSUME NEW p \in Procs, CountShard(p) PROVE CountInv'
  <2>1. CountOK(p)'
    BY <1>2, CountAdds DEF CountInv, CountOK, CountShard
  <2>2. ASSUME NEW q \in Procs \ {p}, pc[q] \in Counting PROVE CountOK(q)'
    BY <1>2, <2>2, CountKept DEF CountInv, CountOK, CountShard, TypeOK
  <2>3. pc' = pc
    BY <1>2 DEF CountShard
  <2>4. QED
    BY <2>1, <2>2, <2>3 DEF CountInv, CountOK
<1>3. ASSUME NEW p \in Procs, LogShard(p) \/ AwaitLock(p) PROVE CountInv'
  BY <1>1, <1>3 DEF LogShard, AwaitLock, Counting, TypeOK, readVars
<1>4. ASSUME NEW p \in Procs, NEW cs, Write(p, cs) PROVE CountInv'
  BY <1>1, <1>4 DEF Write, Goto, Counting, Reading, TypeOK
<1>5. ASSUME NEW a \in Acceptors, \/ CheckLimit(a) \/ Delay(a) \/ Accept(a)
                                  \/ AcceptError(a) \/ Added(a)
      PROVE  CountInv'
  <2>1. \A p \in Procs : Kept(p) \/ Started(p) \/ Ended(p)
    BY <1>5 DEF CheckLimit, Delay, Accept, AcceptError, Added, Begin, End, Goto, Counting,
       TypeOK, Procs, readVars
  <2>2. QED
    BY <1>1, <1>5, <2>1 DEF CheckLimit, Delay, Accept, AcceptError, Added
<1>6. ASSUME NEW c \in Ids, Finalize(c) \/ Removed(c) PROVE CountInv'
  BY <1>1, <1>6 DEF Finalize, Removed, End, Goto, Counting, TypeOK, Procs, readVars
<1>7. ASSUME NEW u \in Users, GetAllConnID(u) \/ ClearConn(u) \/ RangeConn(u) PROVE CountInv'
  BY <1>1, <1>7 DEF GetAllConnID, ClearConn, RangeConn, Call, Begin, Goto, Counting, TypeOK, Procs
<1>8. ASSUME NEW u \in Users, Cleared(u) \/ Return(u) PROVE CountInv'
  BY <1>1, <1>8 DEF Cleared, Return, End, Goto, Counting, TypeOK, Procs
<1>9. ASSUME NEW u \in Users, \/ KeysStart(u) \/ RLockShard(u)
                               \/ InnerReturns(u) \/ RUnlock(u)
                               \/ \E s \in Shards : ReadShard(u, s)
      PROVE  CountInv'
  BY <1>1, <1>9 DEF KeysStart, RLockShard, InnerReturns, RUnlock, ReadShard, Goto, Counting,
     TypeOK, Procs, readVars
<1>10. ASSUME NEW u \in Users, NEW c \in Ids, Callback(u, c) PROVE CountInv'
  BY <1>1, <1>10 DEF Callback, Goto, Counting, TypeOK, Procs
<1>11. CASE UNCHANGED vars
  BY <1>1, <1>11 DEF vars, readVars
<1>12. ASSUME NEW c \in Ids, Remove(c) PROVE CountInv'
  BY <1>4, <1>12 DEF Remove, Procs
<1>13. ASSUME NEW a \in Acceptors, Set(a) PROVE CountInv'
  BY <1>4, <1>13 DEF Set, Procs
<1>14. QED
  BY <1>2, <1>3, <1>5, <1>6, <1>7, <1>8, <1>9, <1>10, <1>11, <1>12, <1>13, StepCases
  DEF StepOf

LEMMA SeenStep ==
    ASSUME TypeOK, TypeOK', PlaceInv, IdInv, HistoryInv, SeenInv, [Next]_vars
    PROVE  SeenInv'
<1> USE ProcsAssumption
<1> DEFINE Seen(u) ==
             /\ pc[u] \notin {"callback", "inner"} => todo[u] = {}
             /\ pc[u] = "capacity" => seen[u] = {}
             /\ pc[u] \in {"keys", "snapshot", "lock", "callback", "inner"} =>
                   /\ {c \in always[u] : conf.hash[c] \notin rest[u]} \subseteq seen[u] \cup todo[u]
                   /\ seen[u] \cup todo[u] \subseteq ever[u]
           Kept(u) == /\ pc'[u] = pc[u] /\ UNCHANGED <<rest[u], todo[u], seen[u]>>
                      /\ always'[u] \subseteq always[u]
                      /\ pc[u] \in Reading => ever[u] \subseteq ever'[u]
<1>1. ASSUME UNCHANGED conf, NEW u \in Users, Kept(u) PROVE Seen(u)'
  BY <1>1 DEF SeenInv, Reading, Counting
<1>2. ASSUME NEW p \in Procs, CountShard(p) \/ LogShard(p) \/ AwaitLock(p) PROVE SeenInv'
  <2>1. UNCHANGED conf /\ \A u \in Users : Kept(u)
    BY <1>2 DEF CountShard, LogShard, AwaitLock, iterVars, readVars
  <2>2. QED
    BY <1>1, <2>1 DEF SeenInv
<1>3. ASSUME NEW p \in Procs \ Users, NEW cs, Write(p, cs) PROVE SeenInv'
  <2>1. UNCHANGED conf /\ \A u \in Users : Kept(u)
    BY <1>3 DEF Write, Goto, iterVars, TypeOK, Procs
  <2>2. QED
    BY <1>1, <2>1 DEF SeenInv
<1>4. ASSUME NEW a \in Acceptors, \/ CheckLimit(a) \/ Delay(a) \/ Accept(a) \/ AcceptError(a)
      PROVE  SeenInv'
  <2>1. UNCHANGED conf /\ \A u \in Users : Kept(u)
    BY <1>4 DEF CheckLimit, Delay, Accept, AcceptError, Begin, End, Goto, TypeOK, Procs,
       readVars, iterVars
  <2>2. QED
    BY <1>1, <2>1 DEF SeenInv
<1>5. ASSUME NEW a \in Acceptors, Added(a) PROVE SeenInv'
  <2>1. id[a] \in Ids
    BY <1>5, BoundAssumption DEF Added, Counted, IdInv, TypeOK, Ids
  <2>2. UNCHANGED conf /\ \A u \in Users : Kept(u)
    BY <1>5, <2>1 DEF Added, Begin, TypeOK, Procs, iterVars
  <2>3. QED
    BY <1>1, <2>2 DEF SeenInv
<1>6. ASSUME NEW c \in Ids, Finalize(c) \/ Removed(c) PROVE SeenInv'
  <2>1. UNCHANGED conf /\ \A u \in Users : Kept(u)
    BY <1>6 DEF Finalize, Removed, End, Goto, TypeOK, Procs, readVars, iterVars
  <2>2. QED
    BY <1>1, <2>1 DEF SeenInv
<1>7. ASSUME NEW u \in Users,
             \/ GetAllConnID(u) \/ ClearConn(u) \/ RangeConn(u)
             \/ KeysStart(u) \/ Cleared(u) \/ RLockShard(u)
             \/ InnerReturns(u) \/ RUnlock(u) \/ Return(u)
             \/ \E s \in Shards : ReadShard(u, s)
             \/ \E c \in Ids : Callback(u, c)
      PROVE  Seen(u)'
  <2>1. CASE GetAllConnID(u) \/ ClearConn(u) \/ RangeConn(u)
    <3>1. \A c \in Ids : conf.hash[c] \in Shards
      BY ConfType
    <3>2. /\ pc[u] = "idle" /\ pc'[u] \in {"capacity", "snapshot", "lock"}
          /\ pc'[u] # "capacity" => rest'[u] = Shards
          /\ seen'[u] = {} /\ todo' = todo /\ always'[u] \subseteq Ids /\ conf' = conf
      BY <2>1 DEF GetAllConnID, ClearConn, RangeConn, Call, Goto, Begin, TypeOK, Procs
    <3>3. QED
      BY <3>1, <3>2 DEF SeenInv
  <2>2. CASE KeysStart(u)
    <3>1. \A c \in Ids : conf.hash[c] \in Shards
      BY ConfType
    <3>2. /\ pc[u] = "capacity" /\ pc'[u] = "keys" /\ rest'[u] = Shards
          /\ UNCHANGED <<seen, todo, always, ever, conf>> /\ always[u] \subseteq Ids
      BY <2>2 DEF KeysStart, Counted, Goto, readVars, TypeOK, Procs
    <3>3. QED
      BY <3>1, <3>2 DEF SeenInv
  <2>3. CASE Cleared(u) \/ Return(u)
    <3>1. pc'[u] \in {"log", "idle"} /\ todo' = todo /\ pc[u] \notin {"callback", "inner"}
      BY <2>3 DEF Cleared, Return, Counted, Goto, iterVars, TypeOK, Procs
    <3>2. QED
      BY <3>1 DEF SeenInv
  <2>4. CASE RLockShard(u)
    <3>1. PICK s \in rest[u] : /\ rest' = [rest EXCEPT ![u] = @ \ {s}]
                               /\ todo' = [todo EXCEPT ![u] = Shard(s)]
      BY <2>4 DEF RLockShard
    <3>2. /\ pc[u] = "lock" /\ pc'[u] = "callback" /\ UNCHANGED <<conf, seen, always, ever>>
      BY <2>4 DEF RLockShard, Goto, readVars, TypeOK, Procs
    <3>3. always[u] \subseteq conns /\ conns \subseteq ever[u]
      BY <3>2 DEF HistoryInv, Reading, Procs
    <3>4. rest'[u] = rest[u] \ {s} /\ todo'[u] = Shard(s) /\ Shard(s) \subseteq conns
          /\ todo[u] = {}
      BY <3>1, <3>2, SMTT(60) DEF TypeOK, Shard, SeenInv
    <3>5. {c \in always[u] : conf.hash[c] \notin rest'[u]} \subseteq seen[u] \cup Shard(s)
      BY <3>2, <3>3, <3>4 DEF SeenInv, Shard
    <3>6. QED
      BY <3>2, <3>3, <3>4, <3>5 DEF SeenInv
  <2>5. CASE InnerReturns(u)
    BY <2>5 DEF InnerReturns, Counted, Goto, SeenInv, TypeOK, Procs, readVars, iterVars
  <2>6. CASE RUnlock(u)
    BY <2>6 DEF RUnlock, Goto, SeenInv, TypeOK, Procs, readVars
  <2>7. ASSUME NEW s \in Shards, ReadShard(u, s) PROVE Seen(u)'
    <3>1. /\ pc[u] \in {"keys", "snapshot"} /\ UNCHANGED <<conf, pc, todo, always, ever>>
          /\ rest'[u] = rest[u] \ {s} /\ seen'[u] = seen[u] \cup Shard(s)
      BY <2>7 DEF ReadShard, readVars, TypeOK
    <3>2. always[u] \subseteq conns /\ conns \subseteq ever[u]
      BY <3>1 DEF HistoryInv, Reading, Procs
    <3>3. QED
      BY <3>1, <3>2 DEF SeenInv, Shard
  <2>8. ASSUME NEW c \in Ids, Callback(u, c) PROVE Seen(u)'
    <3>1. /\ pc[u] = "callback" /\ pc'[u] \in {"callback", "inner"} /\ c \in todo[u]
          /\ UNCHANGED <<conf, rest, always, ever>>
          /\ todo'[u] = todo[u] \ {c} /\ seen'[u] = seen[u] \cup {c}
      BY <2>8 DEF Callback, Goto, TypeOK, Procs
    <3>2. QED
      BY <3>1 DEF SeenInv
  <2>9. QED
    BY <1>7, <2>1, <2>2, <2>3, <2>4, <2>5, <2>6, <2>7, <2>8
<1>8. ASSUME NEW u \in Users,
             \/ GetAllConnID(u) \/ ClearConn(u) \/ RangeConn(u)
             \/ KeysStart(u) \/ Cleared(u) \/ RLockShard(u)
             \/ InnerReturns(u) \/ RUnlock(u) \/ Return(u)
             \/ \E s \in Shards : ReadShard(u, s)
             \/ \E c \in Ids : Callback(u, c)
      PROVE  SeenInv'
  <2>1. UNCHANGED conf /\ \A v \in Users \ {u} : Kept(v)
    BY <1>8, ReadersOnly DEF Procs
  <2>2. QED
    BY <1>1, <1>7, <1>8, <2>1 DEF SeenInv
<1>9. CASE UNCHANGED vars
  <2>1. UNCHANGED conf /\ \A u \in Users : Kept(u)
    BY <1>9 DEF vars, readVars, iterVars
  <2>2. QED
    BY <1>1, <2>1 DEF SeenInv
<1>10. ASSUME NEW c \in Ids, Remove(c) PROVE SeenInv'
  BY <1>3, <1>10 DEF Remove, Procs
<1>11. ASSUME NEW a \in Acceptors, Set(a) PROVE SeenInv'
  BY <1>3, <1>11 DEF Set, Procs
<1>12. QED
  BY <1>2, <1>4, <1>5, <1>6, <1>8, <1>9, <1>10, <1>11, StepCases DEF StepOf

-----------------------------------------------------------------------------
(* The limit.                                                              *)

\* A Count that has read every shard.
LEMMA FullCount ==
    ASSUME TypeOK, CountInv, NEW p \in Procs, pc[p] \in Counting, at[p] = ShardCount
    PROVE  Cardinality(always[p]) <= sum[p] /\ sum[p] <= Cardinality(ever[p])
<1>1. \A c \in Ids : conf.hash[c] < ShardCount
  BY ConfType, BoundAssumption DEF Shards
<1>2. Before(p, always[p]) = always[p] /\ Before(p, ever[p]) = ever[p]
  BY <1>1 DEF Before, TypeOK
<1>3. QED
  BY <1>2 DEF CountInv

LEMMA LimitShrinks ==
    ASSUME TypeOK, TypeOK', LimitInv,
           conns' \ Latest(Admitted \cup Overtaken)' \subseteq conns \ Latest(Admitted \cup Overtaken)
    PROVE  LimitInv'
<1> DEFINE S == conns' \ Latest(Admitted \cup Overtaken)'
           T == conns \ Latest(Admitted \cup Overtaken)
<1>1. S \in SUBSET Ids /\ T \in SUBSET Ids /\ S \subseteq T /\ Cardinality(T) <= MaxConn - 1
  BY DEF LimitInv, TypeOK
<1> HIDE DEF S, T
<1>2. Cardinality(S) <= MaxConn - 1
  BY <1>1, IdsFinite, BoundAssumption
<1>3. QED
  BY <1>2 DEF LimitInv, S

\* A step that admits nobody and adds no connection.
LEMMA Calm ==
    ASSUME TypeOK, TypeOK', OrderInv, LimitInv, Admitted' \subseteq Admitted,
           \A a \in Acceptors \ Admitted : id'[a] = id[a],
           conns' \subseteq conns,
           \A a \in Counters' : \/ a \in Counters /\ always'[a] = always[a] \cap conns'
                                \/ always'[a] = conns'
    PROVE  OrderInv' /\ LimitInv'
<1>1. Overtaken' \subseteq Overtaken
  <2>1. SUFFICES ASSUME NEW a \in Counters', UpToDate(a), a \in Counters,
                        always'[a] = always[a] \cap conns'
                 PROVE  UpToDate(a)'
    BY DEF Overtaken, UpToDate
  <2>2. conns' \ always'[a] \subseteq conns \ always[a]
    BY <2>1
  <2>3. Latest(Admitted \cup {a}) \subseteq Latest(Admitted \cup {a})'
    BY DEF Latest
  <2>4. QED
    BY <2>1, <2>2, <2>3 DEF UpToDate
<1>2. conns' \ Latest(Admitted \cup Overtaken)' \subseteq conns \ Latest(Admitted \cup Overtaken)
  BY <1>1 DEF Latest
<1>3. LimitInv'
  BY <1>2, LimitShrinks
<1>4. OrderInv'
  <2>1. \A a, b \in Counters' : always'[a] \subseteq always'[b] \/ always'[b] \subseteq always'[a]
    BY DEF OrderInv
  <2>2. ASSUME NEW a \in Counters', id'[a] \in conns' PROVE id'[a] \in always'[a]
    BY <2>2 DEF OrderInv, Counters, Admitted
  <2>3. QED
    BY <2>1, <2>2 DEF OrderInv
<1>5. QED
  BY <1>3, <1>4

\* Add.
LEMMA LimitSet ==
    ASSUME TypeOK, TypeOK', IdInv, HistoryInv, OrderInv, LimitInv, NEW a \in Acceptors, Set(a)
    PROVE  OrderInv' /\ LimitInv'
<1>1. /\ conns' = conns \cup {id[a]} /\ id' = id /\ pc[a] = "set"
      /\ Admitted' = Admitted /\ Counters' = Counters
  BY DEF Set, Write, Goto, Admitted, Counters, TypeOK, Procs
<1>2. \A b \in Acceptors : always'[b] = always[b]
  BY DEF Set, Write, HistoryInv, Procs
<1>3. a \notin Admitted \cup Counters /\ \A b \in Counters : id[b] # id[a]
  BY <1>1 DEF Admitted, Counters, IdInv
<1>4. Overtaken' \subseteq Overtaken
  <2>1. SUFFICES ASSUME NEW b \in Counters, UpToDate(b) PROVE UpToDate(b)'
    BY <1>1 DEF Overtaken
  <2>2. conns' \ always'[b] \subseteq (conns \ always[b]) \cup {id[a]}
    BY <1>1, <1>2 DEF Counters
  <2>3. id[a] \in Latest(Admitted \cup {b})
    BY <1>3 DEF Latest
  <2>4. QED
    BY <1>1, <2>1, <2>2, <2>3 DEF UpToDate, Latest
<1>5. conns' \ Latest(Admitted \cup Overtaken)' \subseteq conns \ Latest(Admitted \cup Overtaken)
  BY <1>1, <1>3, <1>4 DEF Latest, Overtaken
<1>6. LimitInv'
  BY <1>5, LimitShrinks
<1>7. OrderInv'
  BY <1>1, <1>2, <1>3 DEF OrderInv, Counters
<1>8. QED
  BY <1>6, <1>7

\* The limit test. Either somebody who counted later was admitted, and nothing new need
\* be counted, or everything but latest connections was there during the whole Count.
LEMMA LimitAdmits ==
    ASSUME TypeOK, TypeOK', CountInv, OrderInv, LimitInv, NEW a \in Acceptors, CheckLimit(a)
    PROVE  OrderInv' /\ LimitInv'
<1>1. /\ UNCHANGED <<conns, id>> /\ a \in Counters /\ a \notin Admitted
      /\ Admitted' = Admitted \cup {a} /\ Counters' = Counters \ {a}
      /\ \A b \in Acceptors \ {a} : always'[b] = always[b]
      /\ sum[a] < MaxConn /\ at[a] = ShardCount /\ pc[a] \in Counting
  BY DEF CheckLimit, Counted, Goto, End, Admitted, Counters, TypeOK, Procs, Counting
<1>2. OrderInv'
  BY <1>1 DEF OrderInv, Counters
<1>3. CASE a \in Overtaken
  <2>1. PICK c \in conns \ always[a] : c \notin Latest(Admitted \cup {a})
    BY <1>3 DEF Overtaken, UpToDate
  <2>2. Overtaken' \subseteq Overtaken
    <3>1. SUFFICES ASSUME NEW b \in Overtaken', UpToDate(b) PROVE FALSE
      BY <1>1 DEF Overtaken
    <3>2. b \in Counters /\ b # a /\ b \in Acceptors
      BY <1>1, <3>1 DEF Overtaken, Counters
    <3>3. PICK d \in conns \ always[b] : d \notin Latest(Admitted \cup {a} \cup {b})
      BY <1>1, <3>1, <3>2 DEF Overtaken, UpToDate, Latest
    <3>4. d = id[a]
      BY <3>1, <3>3 DEF UpToDate, Latest
    <3>5. always[b] \subseteq always[a]
      BY <1>1, <3>2, <3>3, <3>4 DEF OrderInv
    <3>6. c \in Latest(Admitted \cup {b})
      BY <2>1, <3>1, <3>5 DEF UpToDate
    <3>7. c = id[a]
      BY <2>1, <3>6 DEF Latest
    <3>8. QED
      BY <1>1, <2>1, <3>7 DEF OrderInv
  <2>3. conns' \ Latest(Admitted \cup Overtaken)' \subseteq conns \ Latest(Admitted \cup Overtaken)
    BY <1>1, <1>3, <2>2 DEF Latest
  <2>4. LimitInv'
    BY <2>3, LimitShrinks
  <2>5. QED
    BY <1>2, <2>4
<1>4. CASE a \notin Overtaken
  <2>1. UpToDate(a)
    BY <1>1, <1>4 DEF Overtaken
  <2>2. ASSUME NEW c \in conns \ always[a] PROVE c \in Latest(Admitted \cup Overtaken)'
    <3>1. PICK x \in Acceptors \ (Admitted \cup {a}) : c = id[x]
      BY <2>1, <2>2 DEF UpToDate, Latest
    <3>2. SUFFICES ASSUME x \in Overtaken' PROVE FALSE
      BY <1>1, <3>1 DEF Latest
    <3>3. x \in Counters /\ always'[x] = always[x]
      BY <1>1, <3>1, <3>2 DEF Overtaken
    <3>4. c \in always[x]
      BY <2>2, <3>1, <3>3 DEF OrderInv
    <3>5. always[a] \subseteq always[x]
      BY <1>1, <2>2, <3>3, <3>4 DEF OrderInv
    <3>6. PICK d \in conns \ always[x] : d \notin Latest(Admitted \cup {a} \cup {x})
      BY <1>1, <3>2, <3>3 DEF Overtaken, UpToDate, Latest
    <3>7. d \in Latest(Admitted \cup {a})
      BY <2>1, <3>5, <3>6 DEF UpToDate
    <3>8. d = id[x]
      BY <3>6, <3>7 DEF Latest
    <3>9. QED
      BY <3>3, <3>6, <3>8 DEF OrderInv
  <2>3. conns' \ Latest(Admitted \cup Overtaken)' \subseteq always[a]
    BY <1>1, <2>2
  <2>4. Cardinality(always[a]) <= sum[a] /\ sum[a] \in Nat /\ always[a] \in SUBSET Ids
    BY <1>1, FullCount DEF TypeOK, Procs
  <2>5. Cardinality(always[a]) <= MaxConn - 1
    BY <1>1, <2>4, IdsFinite, BoundAssumption
  <2>6. LimitInv'
    <3> DEFINE S == conns' \ Latest(Admitted \cup Overtaken)'
    <3>1. S \in SUBSET Ids /\ S \subseteq always[a]
      BY <2>3 DEF TypeOK
    <3> HIDE DEF S
    <3>2. Cardinality(S) <= MaxConn - 1
      BY <2>4, <2>5, <3>1, IdsFinite, BoundAssumption
    <3>3. QED
      BY <3>2 DEF LimitInv, S
  <2>7. QED
    BY <1>2, <2>6
<1>5. QED
  BY <1>3, <1>4

LEMMA LimitStep ==
    ASSUME TypeOK, TypeOK', PlaceInv, IdInv, HistoryInv, CountInv, OrderInv, LimitInv, [Next]_vars
    PROVE  OrderInv' /\ LimitInv'
<1> USE ProcsAssumption DEF Admitted, Counters
<1> DEFINE Same == /\ \A a \in Acceptors : pc'[a] = pc[a] /\ always'[a] = always[a] \cap conns'
                   /\ id' = id /\ conns' \subseteq conns
<1>1. ASSUME Same PROVE OrderInv' /\ LimitInv'
  BY <1>1, Calm
<1>2. \A p \in Procs : always[p] \cap conns = always[p]
  BY DEF HistoryInv
<1>3. ASSUME NEW p \in Procs, CountShard(p) \/ LogShard(p) \/ AwaitLock(p) PROVE Same
  BY <1>2, <1>3 DEF CountShard, LogShard, AwaitLock, readVars, Procs
<1>4. ASSUME NEW a \in Acceptors, Delay(a) \/ AcceptError(a) \/ Added(a)
      PROVE  OrderInv' /\ LimitInv'
  <2>1. id[a] \in Ids \/ ~Added(a)
    BY BoundAssumption DEF Added, Counted, IdInv, TypeOK, Ids
  <2>2. UNCHANGED <<conns, id>> /\ always' = [always EXCEPT ![a] = conns] /\ pc'[a] = "limit"
    BY <1>4, <2>1 DEF Delay, AcceptError, Added, Counted, Begin, Goto, TypeOK, Procs
  <2>3. \A b \in Acceptors \ {a} : pc'[b] = pc[b]
    BY <1>4, <2>1 DEF Delay, AcceptError, Added, Goto, TypeOK, Procs
  <2>4. \A b \in Acceptors : always'[b] = IF b = a THEN conns ELSE always[b]
    BY <2>2 DEF TypeOK, Procs
  <2>5. QED
    BY <1>2, <2>2, <2>3, <2>4, Calm DEF Procs
<1>5. ASSUME NEW a \in Acceptors, Accept(a) PROVE OrderInv' /\ LimitInv'
  <2>1. /\ conns' = conns /\ always' = always /\ pc[a] = "accept"
        /\ \A b \in Acceptors \ {a} : id'[b] = id[b] /\ pc'[b] = pc[b]
        /\ pc'[a] = "set"
    BY <1>5 DEF Accept, Goto, TypeOK, Procs, readVars
  <2>2. QED
    BY <1>2, <2>1, Calm DEF Procs
<1>6. ASSUME NEW c \in Ids, Finalize(c) \/ Remove(c) \/ Removed(c) PROVE Same
  <2>1. CASE Remove(c)
    BY <2>1 DEF Remove, Write, Goto, TypeOK, Procs
  <2>2. CASE Finalize(c) \/ Removed(c)
    BY <1>2, <2>2 DEF Finalize, Removed, End, Goto, TypeOK, Procs, readVars
  <2>3. QED
    BY <1>6, <2>1, <2>2
<1>7. ASSUME NEW u \in Users, UNCHANGED <<conns, id>>,
             \A p \in Procs \ {u} : pc'[p] = pc[p] /\ always'[p] = always[p]
      PROVE  Same
  BY <1>2, <1>7 DEF Procs
<1>8. CASE UNCHANGED vars
  BY <1>1, <1>2, <1>8 DEF vars, readVars, Procs
<1>9. QED
  BY <1>1, <1>3, <1>4, <1>5, <1>6, <1>7, <1>8, StepCases, ReadersOnly, LimitSet, LimitAdmits
  DEF StepOf

-----------------------------------------------------------------------------
(* What follows from the invariant.                                        *)

LEMMA Invariance == Spec => []IInv
<1>1. IInv /\ [Next]_vars => IInv'
  BY TypeStep, PlaceStep, IdStep, HistoryStep, CountStep, SeenStep, LimitStep DEF IInv
<1>2. QED
  BY InitIInv, <1>1, PTL DEF Spec

\* The manager's state, the histories and the locks keep their types.
THEOREM TypeCorrect == Spec => []TypeOK
BY Invariance, PTL DEF IInv

\* Whatever the shard-by-shard Count of ConnManager.Len misses or counts twice while
\* connections come and go, the accept loops never hold more than MaxConn connections
\* plus one for each further accept loop (Server.ListenTcpConn, ListenKcpConn).
THEOREM LimitHolds == Spec => []ConnLimit
<1>1. ASSUME IInv PROVE ConnLimit
  <2> DEFINE run == Acceptors \cap conf.run
             last == {id[a] : a \in run}
             old == conns \ Latest(Admitted \cup Overtaken)
  <2>1. conns \subseteq old \cup last
    <3>1. \A a \in Acceptors \ run : id[a] \notin conns
      BY <1>1, BoundAssumption DEF IInv, PlaceInv, TypeOK, Ids
    <3>2. QED
      BY <3>1 DEF Latest
  <2>2. IsFiniteSet(run) /\ Cardinality(run) \in Nat
    BY ProcsAssumption, FS_Subset, FS_CardinalityType
  <2>3. IsFiniteSet(last) /\ Cardinality(last) <= Cardinality(run)
    <3> DEFINE f == [a \in run |-> id[a]]
    <3>1. f \in Surjection(run, last)
      BY DEF Surjection
    <3>2. QED
      BY <2>2, <3>1, FS_Surjection
  <2>4. IsFiniteSet(old) /\ Cardinality(old) \in Nat /\ Cardinality(old) <= MaxConn - 1
    BY <1>1, IdsFinite DEF IInv, TypeOK, LimitInv
  <2>5. Cardinality(conns) \in Nat /\ Cardinality(last) \in Nat
    BY <1>1, <2>3, IdsFinite, FS_CardinalityType DEF IInv, TypeOK
  <2> HIDE DEF run, last, old
  <2>6. IsFiniteSet(old \cup last) /\ Cardinality(conns) <= Cardinality(old \cup last)
    BY <2>1, <2>3, <2>4, FS_Union, FS_Subset
  <2>7. Cardinality(old \cup last) <= Cardinality(old) + Cardinality(last)
    <3>1. IsFiniteSet(old \cap last)
      BY <2>4, FS_Subset
    <3>2. Cardinality(old \cap last) \in Nat
      BY <3>1, FS_CardinalityType
    <3>3. Cardinality(old \cup last)
             = Cardinality(old) + Cardinality(last) - Cardinality(old \cap last)
      BY <2>3, <2>4, FS_Union
    <3>4. QED
      BY <2>4, <2>5, <3>2, <3>3
  <2>8. Cardinality(old \cup last) \in Nat
    BY <2>6, FS_CardinalityType
  <2>9. Cardinality(conns) <= (MaxConn - 1) + Cardinality(run)
    BY <2>2, <2>3, <2>4, <2>5, <2>6, <2>7, <2>8, BoundAssumption
  <2>10. QED
    BY <2>9 DEF ConnLimit, run
<1>2. QED
  BY <1>1, Invariance, PTL

\* Operations that span the shards are as good as the interleaving allows: the number
\* Count returns lies between the connections present all the time and those present at
\* some time; GetAllConnID, ClearConn and Range miss none of the former and deliver only
\* the latter (ShardLockMaps.Count, Keys, IterBuffered, IterCb).
THEOREM SnapshotsFaithful == Spec => []SnapshotFaithful
<1>1. ASSUME IInv PROVE SnapshotFaithful
  <2>1. \A p \in Procs : pc[p] \in Counting /\ at[p] = ShardCount =>
           Cardinality(always[p]) <= sum[p] /\ sum[p] <= Cardinality(ever[p])
    BY <1>1, FullCount DEF IInv
  <2>2. \A u \in Users : pc[u] \in {"keys", "snapshot", "lock"} /\ rest[u] = {} =>
           always[u] \subseteq seen[u] /\ seen[u] \subseteq ever[u]
    BY <1>1 DEF IInv, SeenInv
  <2>3. QED
    BY <2>1, <2>2 DEF SnapshotFaithful
<1>2. QED
  BY <1>1, Invariance, PTL
=============================================================================
