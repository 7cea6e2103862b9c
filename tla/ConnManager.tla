----------------------------- MODULE ConnManager -----------------------------
(***************************************************************************)
(* The connection manager of gnet/connmanager.go over the sharded map of   *)
(* gutils/shard_lock_map.go, lock by lock. Module Server treats its        *)
(* operations as atomic; here Len reads one shard after the other,         *)
(* GetAllConnID and ClearConn read the shards in any order, and Range runs *)
(* the caller's callback under the read lock of a shard, while accept      *)
(* goroutines and finalizers write.                                        *)
(*                                                                         *)
(* A sync.RWMutex that a writer waits for admits no new reader. Set and    *)
(* Remove hold the write lock for one step, Count, Keys and IterBuffered   *)
(* the read lock for one step, and only Range (IterCb) keeps the read lock *)
(* over several. The processes are the accept goroutines, the finalizer of *)
(* every connection and the user goroutines that call the manager.         *)
(***************************************************************************)
EXTENDS Naturals, FiniteSets

CONSTANTS
    Acceptors,      \* goroutines that accept connections
    Users,          \* goroutines of user code that call the manager
    ShardCount,     \* gutils.ShardCount
    MaxConn,        \* GlobalObject.MaxConn
    MaxIds,         \* bound: connections accepted during one behaviour
    MaxCalls,       \* bound: calls each user makes
    Configs         \* the configurations to consider

Ids == 1..MaxIds
Shards == 0..(ShardCount - 1)
Procs == Acceptors \cup Ids \cup Users

ASSUME BoundAssumption ==
    /\ ShardCount \in Nat \ {0} /\ MaxConn \in Nat \ {0}
    /\ MaxIds \in Nat /\ MaxCalls \in Nat
ASSUME ProcsAssumption ==
    /\ IsFiniteSet(Acceptors)
    /\ Acceptors \cap Ids = {} /\ Acceptors \cap Users = {} /\ Users \cap Ids = {}

\* What a behaviour fixes: the hash function (modulo ShardCount), whether a Range
\* callback calls Len itself, and, as bounds, which acceptors and users run and how
\* many connections arrive.
ASSUME ConfigAssumption ==
    Configs \subseteq [hash: [Ids -> Shards], reenter: BOOLEAN,
                      run: SUBSET (Acceptors \cup Users), accepts: 0..MaxIds]

VARIABLES
    conf,       \* the configuration, chosen at start
    conns,      \* the ids stored in the map
    cID,        \* Server.cID
    id,         \* id[a]: the id acceptor a drew
    pc,         \* pc[p]: where process p is
    at, sum,    \* Count: the shard process p reads next, the sum so far
    rest,       \* rest[u]: shards the iteration of user u has still to read
    todo,       \* todo[u]: keys of the current shard Range has still to call with
    seen,       \* seen[u]: keys the iteration of user u has delivered
    held,       \* held[u]: shards whose read lock user u keeps (IterCb)
    pending,    \* processes blocked in Lock
    calls,      \* calls[u]: calls user u has made
    always,     \* history: keys stored during the whole of p's current call
    ever        \* history: keys stored at some time during p's current call

readVars == <<at, sum, always, ever>>
iterVars == <<rest, todo, seen, held, calls>>
vars == <<conf, conns, cID, id, pc, readVars, iterVars, pending>>

Init ==
    /\ conf \in Configs
    /\ conns = {} /\ cID = 0 /\ pending = {}
    /\ id = [a \in Acceptors |-> 0]
    /\ pc = [p \in Procs |-> CASE p \in Ids -> "none"
                               [] p \in Acceptors \cap conf.run -> "limit"
                               [] p \in Users \cap conf.run -> "idle"
                               [] OTHER -> "off"]
    /\ at = [p \in Procs |-> 0] /\ sum = [p \in Procs |-> 0]
    /\ always = [p \in Procs |-> {}] /\ ever = [p \in Procs |-> {}]
    /\ rest = [u \in Users |-> {}] /\ todo = [u \in Users |-> {}]
    /\ seen = [u \in Users |-> {}] /\ held = [u \in Users |-> {}]
    /\ calls = [u \in Users |-> 0]

\* Calls of Count whose result matters, and all calls that read the map; of the Len
\* in a log line ("log") only the locks matter.
Counting == {"limit", "capacity", "inner"}
Reading == Counting \cup {"keys", "snapshot", "lock", "callback"}

Shard(s) == {c \in conns : conf.hash[c] = s}
Key(p) == IF p \in Ids THEN p ELSE id[p]

\* A reader is admitted to shard s, a writer to the shard of its key.
Readable(s) == \A p \in pending : conf.hash[Key(p)] # s
Writable(s) == \A u \in Users : s \notin held[u]

\* Process p starts a call that reads the map. A call without Count leaves at and
\* sum alone.
Begin(p) ==
    /\ at' = [at EXCEPT ![p] = 0] /\ sum' = [sum EXCEPT ![p] = 0]
    /\ always' = [always EXCEPT ![p] = conns]
    /\ ever' = [ever EXCEPT ![p] = conns]

\* The call of p is over: what the histories held no longer matters.
End(p) ==
    /\ at' = [at EXCEPT ![p] = 0] /\ sum' = [sum EXCEPT ![p] = 0]
    /\ always' = [always EXCEPT ![p] = {}] /\ ever' = [ever EXCEPT ![p] = {}]

Goto(p, label) == pc' = [pc EXCEPT ![p] = label]

\* Mutant of CountShard: the last shard is left out.
CountShard_short(p) ==
    /\ pc[p] \in Counting
    /\ at[p] < ShardCount
    /\ Readable(at[p])
    /\ sum' = [sum EXCEPT ![p] =
                 @ + (IF at[p] = ShardCount - 1 THEN 0 ELSE Cardinality(Shard(at[p])))]
    /\ at' = [at EXCEPT ![p] = @ + 1]
    /\ UNCHANGED <<conf, conns, cID, id, pc, always, ever, iterVars, pending>>

\* Count: RLock, len, RUnlock of one shard.
CountShard(p) ==
    /\ pc[p] \in Counting
    /\ at[p] < ShardCount
    /\ Readable(at[p])
    /\ sum' = [sum EXCEPT ![p] = @ + Cardinality(Shard(at[p]))]
    /\ at' = [at EXCEPT ![p] = @ + 1]
    /\ UNCHANGED <<conf, conns, cID, id, pc, always, ever, iterVars, pending>>

\* The same walk over the locks, for the number in a log line.
LogShard(p) ==
    /\ pc[p] = "log"
    /\ at[p] < ShardCount
    /\ Readable(at[p])
    /\ at' = [at EXCEPT ![p] = @ + 1]
    /\ UNCHANGED <<conf, conns, cID, id, pc, sum, always, ever, iterVars,
                   pending>>

\* Process p is in a Count that has read every shard.
Counted(p, label) == pc[p] = label /\ at[p] = ShardCount

\* Lock finds a reader: the writer waits, and keeps new readers out.
AwaitLock(p) ==
    /\ pc[p] \in {"set", "remove"}
    /\ p \notin pending
    /\ ~Writable(conf.hash[Key(p)])
    /\ pending' = pending \cup {p}
    /\ UNCHANGED <<conf, conns, cID, id, pc, readVars, iterVars>>

\* Process p changes the map to cs and goes on to the Len of its log line.
Write(p, cs) ==
    /\ Writable(conf.hash[Key(p)])
    /\ conns' = cs
    /\ pending' = pending \ {p}
    /\ Goto(p, "log")
    /\ always' = [q \in Procs |-> always[q] \cap cs]
    /\ ever' = [q \in Procs |->
                  IF pc[q] \in Reading THEN ever[q] \cup cs ELSE ever[q]]
    /\ UNCHANGED <<conf, cID, id, at, sum, iterVars>>

-----------------------------------------------------------------------------
(* The accept goroutines: Len for the limit, Accept, Add.                  *)

\* Mutant of CheckLimit: one connection too many.
CheckLimit_le(a) ==
    /\ Counted(a, "limit")
    /\ sum[a] <= MaxConn
    /\ Goto(a, "accept")
    /\ End(a)
    /\ UNCHANGED <<conf, conns, cID, id, iterVars, pending>>

CheckLimit(a) ==
    /\ Counted(a, "limit")
    /\ sum[a] < MaxConn
    /\ Goto(a, "accept")
    /\ End(a)
    /\ UNCHANGED <<conf, conns, cID, id, iterVars, pending>>

\* The limit is reached: sleep, then ask again.
Delay(a) ==
    /\ Counted(a, "limit")
    /\ sum[a] >= MaxConn
    /\ Begin(a)
    /\ UNCHANGED <<conf, conns, cID, id, pc, iterVars, pending>>

Accept(a) ==
    /\ pc[a] = "accept"
    /\ cID < conf.accepts
    /\ cID' = cID + 1
    /\ id' = [id EXCEPT ![a] = cID + 1]
    /\ Goto(a, "set")
    /\ UNCHANGED <<conf, conns, readVars, iterVars, pending>>

AcceptError(a) ==
    /\ pc[a] = "accept"
    /\ Goto(a, "limit")
    /\ Begin(a)
    /\ UNCHANGED <<conf, conns, cID, id, iterVars, pending>>

Set(a) == pc[a] = "set" /\ Write(a, conns \cup {id[a]})

\* Add has logged: the connection's goroutine starts, the loop goes on.
Added(a) ==
    /\ Counted(a, "log")
    /\ pc' = [pc EXCEPT ![a] = "limit", ![id[a]] = "live"]
    /\ Begin(a)
    /\ UNCHANGED <<conf, conns, cID, id, iterVars, pending>>

-----------------------------------------------------------------------------
(* The finalizer of connection c.                                          *)

\* The connection is cancelled, for whatever reason.
Finalize(c) ==
    /\ pc[c] = "live"
    /\ Goto(c, "remove")
    /\ UNCHANGED <<conf, conns, cID, id, readVars, iterVars, pending>>

Remove(c) == pc[c] = "remove" /\ Write(c, conns \ {c})

Removed(c) ==
    /\ Counted(c, "log")
    /\ Goto(c, "gone")
    /\ End(c)
    /\ UNCHANGED <<conf, conns, cID, id, iterVars, pending>>

-----------------------------------------------------------------------------
(* The calls of user code.                                                 *)

Call(u, label, shards) ==
    /\ pc[u] = "idle"
    /\ calls[u] < MaxCalls
    /\ calls' = [calls EXCEPT ![u] = @ + 1]
    /\ Goto(u, label)
    /\ Begin(u)
    /\ rest' = [rest EXCEPT ![u] = shards]
    /\ seen' = [seen EXCEPT ![u] = {}]
    /\ UNCHANGED <<conf, conns, cID, id, todo, held, pending>>

\* Keys asks Count for the capacity of its channel before it reads the shards.
GetAllConnID(u) == Call(u, "capacity", {})
ClearConn(u) == Call(u, "snapshot", Shards)
RangeConn(u) == Call(u, "lock", Shards)

KeysStart(u) ==
    /\ Counted(u, "capacity")
    /\ Goto(u, "keys")
    /\ rest' = [rest EXCEPT ![u] = Shards]
    /\ UNCHANGED <<conf, conns, cID, id, readVars, todo, seen, held, calls,
                   pending>>

\* The goroutine of shard s (one per shard, in Keys and in snapshot) copies it.
ReadShard(u, s) ==
    /\ pc[u] \in {"keys", "snapshot"}
    /\ s \in rest[u]
    /\ Readable(s)
    /\ rest' = [rest EXCEPT ![u] = @ \ {s}]
    /\ seen' = [seen EXCEPT ![u] = @ \cup Shard(s)]
    /\ UNCHANGED <<conf, conns, cID, id, pc, readVars, todo, held, calls,
                   pending>>

\* ClearConn has stopped every connection it saw (Stop only cancels a context)
\* and calls Len for its log line.
Cleared(u) ==
    /\ pc[u] = "snapshot" /\ rest[u] = {}
    /\ Goto(u, "log")
    /\ End(u)
    /\ UNCHANGED <<conf, conns, cID, id, iterVars, pending>>

\* IterCb: RLock of the next shard, in order.
RLockShard(u) ==
    /\ pc[u] = "lock"
    /\ \E s \in rest[u] :
          /\ \A t \in rest[u] : s <= t
          /\ Readable(s)
          /\ rest' = [rest EXCEPT ![u] = @ \ {s}]
          /\ held' = [held EXCEPT ![u] = @ \cup {s}]
          /\ todo' = [todo EXCEPT ![u] = Shard(s)]
    /\ Goto(u, "callback")
    /\ UNCHANGED <<conf, conns, cID, id, readVars, seen, calls, pending>>

\* The callback of one key; it may call Len while the read lock is held.
Callback(u, c) ==
    /\ pc[u] = "callback"
    /\ c \in todo[u]
    /\ todo' = [todo EXCEPT ![u] = @ \ {c}]
    /\ seen' = [seen EXCEPT ![u] = @ \cup {c}]
    /\ Goto(u, IF conf.reenter THEN "inner" ELSE "callback")
    /\ at' = [at EXCEPT ![u] = 0] /\ sum' = [sum EXCEPT ![u] = 0]
    /\ UNCHANGED <<conf, conns, cID, id, always, ever, rest, held, calls,
                   pending>>

InnerReturns(u) ==
    /\ Counted(u, "inner")
    /\ Goto(u, "callback")
    /\ UNCHANGED <<conf, conns, cID, id, readVars, iterVars, pending>>

\* Mutant of RUnlock: the last callback returned an error and the loop returns.
RUnlock_errorReturns(u) ==
    /\ pc[u] = "callback" /\ todo[u] = {}
    /\ Goto(u, "lock")
    /\ held' = [held EXCEPT ![u] = IF seen[u] = {} THEN {} ELSE @]
    /\ UNCHANGED <<conf, conns, cID, id, readVars, rest, todo, seen, calls,
                   pending>>

RUnlock(u) ==
    /\ pc[u] = "callback" /\ todo[u] = {}
    /\ Goto(u, "lock")
    /\ held' = [held EXCEPT ![u] = {}]
    /\ UNCHANGED <<conf, conns, cID, id, readVars, rest, todo, seen, calls,
                   pending>>

Return(u) ==
    /\ \/ pc[u] \in {"keys", "lock"} /\ rest[u] = {}
       \/ Counted(u, "log")
    /\ Goto(u, "idle")
    /\ End(u)
    /\ UNCHANGED <<conf, conns, cID, id, iterVars, pending>>

-----------------------------------------------------------------------------
Acceptor(a) ==
    \/ CountShard(a)
    \/ LogShard(a)
    \/ CheckLimit(a)
    \/ Delay(a)
    \/ AwaitLock(a)
    \/ Set(a)
    \/ Added(a)

Finalizer(c) ==
    \/ LogShard(c)
    \/ AwaitLock(c)
    \/ Remove(c)
    \/ Removed(c)

User(u) ==
    \/ CountShard(u)
    \/ LogShard(u)
    \/ KeysStart(u)
    \/ \E s \in Shards : ReadShard(u, s)
    \/ Cleared(u)
    \/ RLockShard(u)
    \/ \E c \in Ids : Callback(u, c)
    \/ InnerReturns(u)
    \/ RUnlock(u)
    \/ Return(u)

Next ==
    \/ \E a \in Acceptors : Acceptor(a) \/ Accept(a) \/ AcceptError(a)
    \/ \E c \in Ids : Finalizer(c) \/ Finalize(c)
    \/ \E u \in Users : User(u) \/ GetAllConnID(u) \/ ClearConn(u) \/ RangeConn(u)

Spec == Init /\ [][Next]_vars

\* The Go scheduler runs every goroutine that is not blocked. Finalizers and callers
\* take a bounded number of steps, so one condition serves them all; an accept loop
\* polls for ever and needs its own. Peers and callers owe nothing, but a callback
\* of Range returns.
FairSpec ==
    /\ Spec
    /\ \A a \in Acceptors : WF_vars(Acceptor(a))
    /\ WF_vars((\E c \in Ids : Finalizer(c)) \/ (\E u \in Users : User(u)))

-----------------------------------------------------------------------------
(* Properties.                                                             *)

\* Type invariant of the manager's state.
TypeOK ==
    /\ conf \in Configs
    /\ conns \subseteq Ids /\ cID \in 0..MaxIds
    /\ id \in [Acceptors -> 0..MaxIds]
    /\ pc \in [Procs -> Reading \cup {"accept", "set", "none", "live", "remove",
                                      "gone", "idle", "log", "off"}]
    /\ at \in [Procs -> 0..ShardCount] /\ sum \in [Procs -> Nat]
    /\ rest \in [Users -> SUBSET Shards] /\ held \in [Users -> SUBSET Shards]
    /\ todo \in [Users -> SUBSET Ids] /\ seen \in [Users -> SUBSET Ids]
    /\ pending \subseteq Procs
    /\ calls \in [Users -> 0..MaxCalls]
    /\ always \in [Procs -> SUBSET Ids] /\ ever \in [Procs -> SUBSET Ids]

\* Although Len adds up the shards one by one while others add and remove (so that
\* it may return a number of connections that never existed), the accept loops
\* overshoot MaxConn by no more than one per accept goroutine: the limit holds for
\* the sum they read (server.go, "Set the maximum connection control").
ConnLimit == Cardinality(conns) <= (MaxConn - 1) + Cardinality(Acceptors \cap conf.run)

\* What a reader of the sharded map may rely on: the count lies between the number
\* of connections present all the time and of those present at some time of the
\* call, and GetAllConnID, ClearConn and Range deliver every connection present
\* all the time and none that was never there.
SnapshotFaithful ==
    /\ \A p \in Procs : pc[p] \in Counting /\ at[p] = ShardCount =>
          Cardinality(always[p]) <= sum[p] /\ sum[p] <= Cardinality(ever[p])
    /\ \A u \in Users : pc[u] \in {"keys", "snapshot", "lock"} /\ rest[u] = {} =>
          always[u] \subseteq seen[u] /\ seen[u] \subseteq ever[u]

\* Callbacks that called Len under the read lock wait for shards whose writers
\* wait for read locks among them.
Deadlocked ==
    \E U \in (SUBSET Users) \ {{}} : \A u \in U :
        /\ pc[u] = "inner" /\ at[u] < ShardCount
        /\ ~Readable(at[u])
        /\ \E v \in U : at[u] \in held[v]

Busy == (Reading \ {"limit"}) \cup {"set", "remove", "log"}

\* The calls of a behaviour all return: no interleaving of readers and writers keeps
\* an accept loop from registering, a finalizer from deleting its connection or a
\* caller from its result for ever, save Range callbacks that call the manager
\* themselves. (The calls being finitely many, none is under way in the end; a
\* limit test that waited for ever would wait for such a call.)
OpsReturn == []<>((\A p \in Procs : pc[p] \notin Busy) \/ Deadlocked)
=============================================================================
