---------------------------- MODULE ServerProofs ----------------------------
(***************************************************************************)
(* Proofs about module Server, for every configuration: any connection     *)
(* limit, pool size, number of websocket handlers and accepted             *)
(* connections; and about module Client, for any number of calls.          *)
(***************************************************************************)
EXTENDS Server, Client, FiniteSetTheorems, TLAPS

\* The accept goroutines that are past their limit test.
Past == {a \in AllAcceptors : apc[a] \in {"accept", "add"}}

\* Only the goroutines that the mode starts ever run.
AcceptorsInv ==
    \A a \in AllAcceptors : apc[a] # "exit" => a \in Acceptors(conf.mode)

\* ConnLimit, with the registrations that are still to come counted in.
LimitInv ==
    Cardinality(conns) + Cardinality(Past)
        <= (MaxConn - 1) + Cardinality(Acceptors(conf.mode))

\* Ids beyond the counter are unused; an id is registered only once used.
IdInv ==
    /\ \A c \in Ids : c > cID => pc[c] = "none" /\ c \notin open
    /\ \A c \in Ids : pc[c] = "none" => c \notin conns
    /\ \A a \in AllAcceptors : apc[a] = "add" => aid[a] \in 1..cID

\* What the position of a connection's goroutine says of its context, its
\* socket and its worker.
PhaseInv ==
    /\ \A c \in Ids : pc[c] \in {"none", "created"} => ctx[c] = "nil" /\ c \notin readers
    /\ \A c \in Ids : pc[c] \in {"close", "remove", "free", "done"} => ctx[c] = "done"
    /\ \A c \in Ids : pc[c] \in {"remove", "free", "done"} => c \notin open
    /\ conf.workerMode = "Bind" => worker \in [Ids -> 0..(MaxConn - 1)]

\* Where a connection that was registered when Server.Stop began still is.
StopInv ==
    \A c \in atStop :
        \/ crashed /\ spc = "clear"
        \/ ctx[c] = "done"
        \/ spc = "snapshot" /\ c \in scan /\ c \in conns
        \/ spc \in {"snapshot", "clear"} /\ c \in todo

IInv ==
    /\ TypeOK
    /\ AcceptorsInv
    /\ LimitInv
    /\ IdInv
    /\ FreshIds
    /\ PhaseInv
    /\ SocketTracked
    /\ NoWorkerLost
    /\ StopInv

-----------------------------------------------------------------------------
(* The sets that are counted are finite.                                   *)

\* A mode's accept goroutines are among AllAcceptors, and finitely many.
LEMMA AcceptorsFinite ==
    ASSUME NEW mode \in Modes
    PROVE  /\ IsFiniteSet(AllAcceptors)
           /\ Acceptors(mode) \subseteq AllAcceptors
           /\ IsFiniteSet(Acceptors(mode))
           /\ Cardinality(Acceptors(mode)) \in Nat
<1>1. IsFiniteSet({"tcp", "kcp"} \cup Handlers)
  <2>1. IsFiniteSet(Handlers \cup {"tcp"})
    BY HandlersAssumption, FS_AddElement
  <2>2. IsFiniteSet((Handlers \cup {"tcp"}) \cup {"kcp"})
    BY <2>1, FS_AddElement
  <2>3. (Handlers \cup {"tcp"}) \cup {"kcp"} = {"tcp", "kcp"} \cup Handlers
    OBVIOUS
  <2> QED BY <2>2, <2>3
<1>2. Acceptors(mode) \subseteq AllAcceptors
  BY ConfigAssumption DEF Acceptors, AllAcceptors
<1>3. IsFiniteSet(Acceptors(mode))
  BY <1>1, <1>2, FS_Subset DEF AllAcceptors
<1> QED
  BY <1>1, <1>2, <1>3, FS_CardinalityType DEF AllAcceptors

\* The fields of a configuration.
LEMMA ConfigTypes ==
    ASSUME conf \in Configs
    PROVE  conf.mode \in Modes /\ conf.accepts \in 0..MaxAccept
BY ConfigAssumption DEF Configuration

\* Both counted sets are finite in every state, and the second is bounded.
LEMMA CountsFinite ==
    ASSUME TypeOK, AcceptorsInv
    PROVE  /\ IsFiniteSet(conns) /\ Cardinality(conns) \in Nat
           /\ IsFiniteSet(Past) /\ Cardinality(Past) \in Nat
           /\ Cardinality(Past) <= Cardinality(Acceptors(conf.mode))
<1>1. IsFiniteSet(Ids)
  BY LimitAssumption, FS_Interval DEF Ids
<1>2. IsFiniteSet(conns) /\ Cardinality(conns) \in Nat
  BY <1>1, FS_Subset, FS_CardinalityType DEF TypeOK
<1>3. conf.mode \in Modes
  BY ConfigTypes DEF TypeOK
<1>4. Past \subseteq Acceptors(conf.mode)
  BY DEF Past, AcceptorsInv
<1> QED
  BY <1>2, <1>3, <1>4, AcceptorsFinite, FS_Subset, FS_CardinalityType

-----------------------------------------------------------------------------
(* The initial states.                                                     *)

LEMMA InitIInv == Init => IInv
<1> SUFFICES ASSUME Init PROVE IInv
  OBVIOUS
<1>1. conf.mode \in Modes
  BY ConfigTypes DEF Init
<1>2. TypeOK
  <2>1. conf \in Configs
    BY DEF Init
  <2>2. apc \in [AllAcceptors -> {"check", "accept", "add", "exit"}]
    BY DEF Init
  <2>3. /\ aid \in [AllAcceptors -> 0..MaxAccept] /\ cID \in 0..MaxAccept
        /\ worker \in [Ids -> Nat]
    BY LimitAssumption DEF Init
  <2>4. /\ conns \subseteq Ids /\ kind \in [Ids -> {"tcp", "kcp", "ws"}]
        /\ pc \in [Ids -> Pcs] /\ ctx \in [Ids -> {"nil", "live", "done"}]
        /\ open \subseteq Ids /\ readers \subseteq Ids
    BY DEF Init, Pcs
  <2>5. /\ free \subseteq 0..(MaxConn - 1)
        /\ spc \in {"idle", "snapshot", "clear", "done"}
        /\ scan \subseteq Ids /\ todo \subseteq Ids /\ atStop \subseteq Ids
        /\ crashed \in BOOLEAN
    BY DEF Init
  <2>6. lpc \in [{"tcp", "kcp"} -> {"listen", "closing", "closed"}]
    BY DEF Init
  <2> QED
    BY <2>1, <2>2, <2>3, <2>4, <2>5, <2>6 DEF TypeOK
<1>3. AcceptorsInv
  BY DEF Init, AcceptorsInv
<1>4. LimitInv
  <2>1. Past = {} /\ conns = {}
    BY DEF Init, Past
  <2> QED
    BY <1>1, <2>1, AcceptorsFinite, FS_EmptySet, LimitAssumption DEF LimitInv
<1>5. IdInv /\ FreshIds /\ SocketTracked
  BY DEF Init, IdInv, FreshIds, SocketTracked
<1>6. PhaseInv
  BY LimitAssumption DEF Init, PhaseInv
<1>7. NoWorkerLost /\ StopInv
  BY DEF Init, NoWorkerLost, StopInv
<1> QED
  BY <1>2, <1>3, <1>4, <1>5, <1>6, <1>7 DEF IInv

\* useWorker always finds a worker, and in Bind mode one of the pool.
LEMMA PickWorkerRange ==
    ASSUME TypeOK, NEW c \in Ids, NEW w \in PickWorker(c)
    PROVE  /\ w \in Nat
           /\ conf.workerMode = "Bind" => w \in 0..(MaxConn - 1)
<1>1. \A n \in Nat \ {0} : c % n \in 0..(n - 1)
  BY DEF Ids
<1> QED
  BY <1>1, LimitAssumption DEF TypeOK, PickWorker, WorkerPoolSize

-----------------------------------------------------------------------------
(* One step preserves each part of the invariant.                          *)

\* The actions a step can be.
LEMMA StepCases ==
    ASSUME [Next]_vars
    PROVE  \/ UNCHANGED vars
           \/ \E a \in AllAcceptors :
                 \/ CheckLimit(a) \/ BackToCheck(a) \/ AddConn(a)
                 \/ \E k \in {"tcp", "kcp", "ws"} : DrawId(a, k)
           \/ TcpListenerClosed
           \/ \E c \in Ids :
                 \/ ConnGoroutine(c) \/ Stop(c) \/ StartReader(c)
                 \/ SnapshotShard(c) \/ ClearConn(c)
           \/ CallStop
           \/ SendExit
           \/ \E l \in {"tcp", "kcp"} : CloseListener(l)
  BY DEF Next, Accepting, Registering, Stopping, AllAcceptors, TcpAccept,
         TcpAcceptError, KcpAccept, KcpAcceptError, WsUpgrade, WsReject,
         newServerConn, newKcpServerConn, newWebsocketConn

LEMMA TypeStep ==
    ASSUME IInv, [Next]_vars
    PROVE  TypeOK'
<1> USE LimitAssumption
<1> USE DEF IInv, TypeOK, NoCrash, acceptVars, connVars, poolVars, stopVars
<1>1. CASE UNCHANGED vars
  BY <1>1 DEF vars
<1>2. ASSUME NEW a \in AllAcceptors, CheckLimit(a) PROVE TypeOK'
  BY <1>2 DEF CheckLimit
<1>3. ASSUME NEW a \in AllAcceptors, NEW k \in {"tcp", "kcp", "ws"}, DrawId(a, k)
      PROVE TypeOK'
  <2>1. cID + 1 \in Ids /\ cID + 1 \in 0..MaxAccept
    BY <1>3, ConfigTypes DEF DrawId, Ids
  <2> HIDE DEF Ids
  <2>2. aid' \in [AllAcceptors -> 0..MaxAccept] /\ cID' \in 0..MaxAccept
    BY <1>3, <2>1 DEF DrawId
  <2>3. kind' \in [Ids -> {"tcp", "kcp", "ws"}] /\ open' \subseteq Ids
    BY <1>3, <2>1 DEF DrawId
  <2>4. apc' \in [AllAcceptors -> {"check", "accept", "add", "exit"}]
    BY <1>3 DEF DrawId
  <2> QED BY <1>3, <2>2, <2>3, <2>4 DEF DrawId
<1>4. ASSUME NEW a \in AllAcceptors, BackToCheck(a) PROVE TypeOK'
  BY <1>4 DEF BackToCheck
<1>5. CASE TcpListenerClosed
  BY <1>5 DEF TcpListenerClosed
<1>6. ASSUME NEW a \in AllAcceptors, AddConn(a) PROVE TypeOK'
  <2>1. aid[a] \in Ids
    BY <1>6 DEF AddConn, IdInv, Ids
  <2> QED BY <1>6, <2>1 DEF AddConn, Pcs
<1>7. ASSUME NEW c \in Ids, Start(c) PROVE TypeOK'
  BY <1>7 DEF Start, Goto, Pcs
<1>8. ASSUME NEW c \in Ids, callOnConnStart(c) PROVE TypeOK'
  BY <1>8 DEF callOnConnStart, Goto, Pcs
<1>9. ASSUME NEW c \in Ids, HookPanic(c) PROVE TypeOK'
  BY <1>9 DEF HookPanic, Goto, Pcs
<1>10. ASSUME NEW c \in Ids, useWorker(c) PROVE TypeOK'
  <2>1. PICK w \in PickWorker(c) : /\ worker' = [worker EXCEPT ![c] = w]
                                  /\ free' = free \ {w}
    BY <1>10 DEF useWorker
  <2>2. w \in Nat
    BY PickWorkerRange
  <2> QED BY <1>10, <2>1, <2>2 DEF useWorker, Goto, Pcs
<1>11. ASSUME NEW c \in Ids, Stop(c) PROVE TypeOK'
  BY <1>11 DEF Stop
<1>12. ASSUME NEW c \in Ids, StartReader(c) PROVE TypeOK'
  BY <1>12 DEF StartReader
<1>13. ASSUME NEW c \in Ids, callOnConnStop(c) PROVE TypeOK'
  BY <1>13 DEF callOnConnStop, Goto, Pcs
<1>14. ASSUME NEW c \in Ids, CloseSocket(c) PROVE TypeOK'
  BY <1>14 DEF CloseSocket, Goto, Pcs
<1>15. ASSUME NEW c \in Ids, Remove(c) PROVE TypeOK'
  BY <1>15 DEF Remove, Goto, Pcs
<1>16. ASSUME NEW c \in Ids, freeWorker(c) PROVE TypeOK'
  <2>1. conf.workerMode = "Bind" => worker[c] \in 0..(MaxConn - 1)
    BY DEF PhaseInv
  <2>2. free' \subseteq 0..(MaxConn - 1)
    BY <1>16, <2>1 DEF freeWorker
  <2> QED BY <1>16, <2>2 DEF freeWorker, Goto, Pcs
<1>17. CASE CallStop
  BY <1>17 DEF CallStop
<1>18. ASSUME NEW c \in Ids, SnapshotShard(c) PROVE TypeOK'
  BY <1>18 DEF SnapshotShard
<1>19. ASSUME NEW c \in Ids, ClearConn(c) PROVE TypeOK'
  BY <1>19 DEF ClearConn
<1>20. CASE SendExit
  <2>1. lpc' \in [{"tcp", "kcp"} -> {"listen", "closing", "closed"}]
    BY <1>20 DEF SendExit
  <2> QED BY <1>20, <2>1 DEF SendExit
<1>21. ASSUME NEW l \in {"tcp", "kcp"}, CloseListener(l) PROVE TypeOK'
  BY <1>21 DEF CloseListener
<1> QED
  BY StepCases, <1>1, <1>2, <1>3, <1>4, <1>5, <1>6, <1>7, <1>8, <1>9, <1>10,
     <1>11, <1>12, <1>13, <1>14, <1>15, <1>16, <1>17, <1>18, <1>19, <1>20, <1>21
  DEF ConnGoroutine

LEMMA AcceptorsStep ==
    ASSUME IInv, [Next]_vars
    PROVE  AcceptorsInv' /\ conf' = conf
<1> USE DEF IInv, TypeOK, AcceptorsInv, acceptVars, connVars, poolVars, stopVars
<1>1. ASSUME NEW a \in AllAcceptors,
             \/ CheckLimit(a) \/ BackToCheck(a) \/ AddConn(a)
             \/ \E k \in {"tcp", "kcp", "ws"} : DrawId(a, k)
      PROVE  AcceptorsInv' /\ conf' = conf
  BY <1>1 DEF CheckLimit, BackToCheck, AddConn, DrawId
<1>2. ASSUME TcpListenerClosed PROVE AcceptorsInv' /\ conf' = conf
  BY <1>2 DEF TcpListenerClosed
<1>3. CASE UNCHANGED <<conf, apc>>
  BY <1>3
<1> QED
  BY StepCases, <1>1, <1>2, <1>3
  DEF vars, ConnGoroutine, Start, callOnConnStart, HookPanic, useWorker,
      callOnConnStop, CloseSocket, Remove, freeWorker, Stop, StartReader,
      CallStop, SnapshotShard, ClearConn, SendExit, CloseListener

\* An accept goroutine is counted from its test on, when there were at most
\* MaxConn - 1 connections, until its connection is counted itself.
LEMMA LimitStep ==
    ASSUME IInv, [Next]_vars
    PROVE  LimitInv'
<1> USE LimitAssumption
<1> USE DEF acceptVars, connVars, poolVars, stopVars
<1>1. TypeOK /\ AcceptorsInv /\ LimitInv
  BY DEF IInv
<1>2. /\ IsFiniteSet(conns) /\ Cardinality(conns) \in Nat
      /\ IsFiniteSet(Past) /\ Cardinality(Past) \in Nat
  BY <1>1, CountsFinite
<1>3. conf' = conf /\ AcceptorsInv' /\ conf.mode \in Modes
  BY <1>1, AcceptorsStep, ConfigTypes DEF TypeOK
<1>4. /\ IsFiniteSet(Acceptors(conf.mode))
      /\ Cardinality(Acceptors(conf.mode)) \in Nat
  BY <1>3, AcceptorsFinite
<1>5. ASSUME NEW a \in AllAcceptors, CheckLimit(a) PROVE LimitInv'
  <2>1. Past' \subseteq Acceptors(conf.mode)
    BY <1>3 DEF Past, AcceptorsInv
  <2>2. Cardinality(Past') \in Nat /\ Cardinality(Past') <= Cardinality(Acceptors(conf.mode))
    BY <2>1, <1>4, FS_Subset, FS_CardinalityType
  <2>3. conns' = conns /\ Cardinality(conns) <= MaxConn - 1
    BY <1>2, <1>5 DEF CheckLimit
  <2> QED BY <2>2, <2>3, <1>2, <1>3, <1>4 DEF LimitInv
<1>6. ASSUME NEW a \in AllAcceptors, NEW k \in {"tcp", "kcp", "ws"}, DrawId(a, k)
      PROVE  LimitInv'
  <2>1. Past' = Past /\ conns' = conns
    BY <1>1, <1>6 DEF DrawId, Past, TypeOK
  <2> QED BY <2>1, <1>1, <1>3 DEF LimitInv
<1>7. ASSUME NEW a \in AllAcceptors, Past' = Past \ {a}, conns' = conns
      PROVE  LimitInv'
  <2>1. Cardinality(Past') \in Nat /\ Cardinality(Past') <= Cardinality(Past)
    BY <1>2, <1>7, FS_Subset, FS_CardinalityType
  <2> QED BY <2>1, <1>1, <1>2, <1>3, <1>4, <1>7 DEF LimitInv
<1>8. ASSUME NEW a \in AllAcceptors, BackToCheck(a) PROVE LimitInv'
  <2>1. Past' = Past \ {a} /\ conns' = conns
    BY <1>1, <1>8 DEF BackToCheck, Past, TypeOK
  <2> QED BY <2>1, <1>7
<1>9. CASE TcpListenerClosed
  <2>1. Past' = Past \ {"tcp"} /\ conns' = conns /\ "tcp" \in AllAcceptors
    BY <1>1, <1>9 DEF TcpListenerClosed, Past, TypeOK, AllAcceptors
  <2> QED BY <2>1, <1>7
<1>10. ASSUME NEW a \in AllAcceptors, AddConn(a) PROVE LimitInv'
  <2>1. Past' = Past \ {a} /\ a \in Past /\ conns' = conns \cup {aid[a]}
    BY <1>1, <1>10 DEF AddConn, Past, TypeOK
  <2>2. Cardinality(Past') = Cardinality(Past) - 1
    BY <2>1, <1>2, FS_RemoveElement
  <2>3. Cardinality(conns') \in Nat /\ Cardinality(conns') <= Cardinality(conns) + 1
    <3>1. /\ IsFiniteSet(conns \cup {aid[a]})
          /\ Cardinality(conns \cup {aid[a]}) =
               IF aid[a] \in conns THEN Cardinality(conns) ELSE Cardinality(conns) + 1
      BY <1>2, FS_AddElement
    <3> QED BY <3>1, <2>1, <1>2
  <2> QED BY <2>2, <2>3, <1>1, <1>2, <1>3, <1>4 DEF LimitInv
<1>11. ASSUME NEW c \in Ids, Remove(c) PROVE LimitInv'
  <2>1. Past' = Past /\ conns' = conns \ {c}
    BY <1>11 DEF Remove, Past
  <2>2. Cardinality(conns') \in Nat /\ Cardinality(conns') <= Cardinality(conns)
    BY <2>1, <1>2, FS_Subset, FS_CardinalityType
  <2> QED BY <2>1, <2>2, <1>1, <1>2, <1>3, <1>4 DEF LimitInv
<1>12. CASE UNCHANGED <<conf, apc, conns>>
  <2>1. Past' = Past
    BY <1>12 DEF Past
  <2> QED BY <2>1, <1>1, <1>12 DEF LimitInv
<1> QED
  BY StepCases, <1>5, <1>6, <1>8, <1>9, <1>10, <1>11, <1>12
  DEF vars, ConnGoroutine, Start, callOnConnStart, HookPanic, useWorker,
      callOnConnStop, CloseSocket, freeWorker, Stop, StartReader,
      CallStop, SnapshotShard, ClearConn, SendExit, CloseListener

LEMMA IdStep ==
    ASSUME IInv, [Next]_vars
    PROVE  IdInv' /\ FreshIds'
<1> USE LimitAssumption
<1> USE DEF IInv, TypeOK, IdInv, FreshIds, acceptVars, connVars, poolVars, stopVars
<1>1. ASSUME NEW a \in AllAcceptors, NEW k \in {"tcp", "kcp", "ws"}, DrawId(a, k)
      PROVE  IdInv' /\ FreshIds'
  <2>1. /\ cID' = cID + 1 /\ aid' = [aid EXCEPT ![a] = cID + 1]
        /\ apc' = [apc EXCEPT ![a] = "add"] /\ open' = open \cup {cID + 1}
        /\ pc' = pc /\ conns' = conns /\ cID + 1 \in Ids /\ cID \in Nat
    BY <1>1, ConfigTypes DEF DrawId, Ids, TypeOK
  <2>2. IdInv'
    BY <2>1 DEF Ids
  <2>3. pc[cID + 1] = "none" /\ cID + 1 \notin conns
    BY <2>1 DEF Ids
  <2>4. FreshIds'
    BY <2>1, <2>3 DEF Ids
  <2> QED BY <2>2, <2>4
<1>2. ASSUME NEW a \in AllAcceptors, AddConn(a) PROVE IdInv' /\ FreshIds'
  <2>1. aid[a] \in Ids /\ aid[a] <= cID
    BY <1>2 DEF AddConn, Ids
  <2>2. IdInv'
    BY <1>2, <2>1 DEF AddConn, Ids
  <2>3. FreshIds'
    BY <1>2, <2>1 DEF AddConn
  <2> QED BY <2>2, <2>3
<1>3. ASSUME NEW a \in AllAcceptors, CheckLimit(a) \/ BackToCheck(a)
      PROVE  IdInv' /\ FreshIds'
  BY <1>3 DEF CheckLimit, BackToCheck
<1>4. CASE TcpListenerClosed
  BY <1>4 DEF TcpListenerClosed
\* A connection's goroutine only moves an id that is in use, and removes ids.
<1>5. ASSUME NEW c \in Ids, pc[c] # "none", UNCHANGED <<apc, aid, cID>>,
             NEW label \in Pcs \ {"none"}, pc' = [pc EXCEPT ![c] = label],
             conns' \subseteq conns, open' \subseteq open
      PROVE  IdInv' /\ FreshIds'
  BY <1>5
<1>6. ASSUME NEW c \in Ids, ConnGoroutine(c) PROVE IdInv' /\ FreshIds'
  BY <1>5, <1>6
  DEF ConnGoroutine, Start, callOnConnStart, HookPanic, useWorker, callOnConnStop,
      CloseSocket, Remove, freeWorker, Goto, Pcs
<1>7. CASE UNCHANGED <<apc, aid, cID, pc, conns, open>>
  BY <1>7
<1> QED
  BY StepCases, <1>1, <1>2, <1>3, <1>4, <1>6, <1>7
  DEF vars, Stop, StartReader, CallStop, SnapshotShard, ClearConn, SendExit,
      CloseListener

LEMMA PhaseStep ==
    ASSUME IInv, [Next]_vars
    PROVE  PhaseInv'
<1> USE LimitAssumption
<1> USE DEF IInv, TypeOK, PhaseInv, acceptVars, connVars, poolVars, stopVars
<1>1. conf' = conf
  BY AcceptorsStep
<1>2. ASSUME NEW a \in AllAcceptors, NEW k \in {"tcp", "kcp", "ws"}, DrawId(a, k)
      PROVE  PhaseInv'
  <2>1. cID + 1 \in Ids /\ pc[cID + 1] = "none"
    BY <1>2, ConfigTypes DEF DrawId, IdInv, Ids, TypeOK
  <2> QED BY <1>2, <2>1 DEF DrawId
<1>3. ASSUME NEW a \in AllAcceptors, AddConn(a) PROVE PhaseInv'
  <2>1. aid[a] \in Ids /\ pc[aid[a]] = "none"
    BY <1>3 DEF AddConn, IdInv, FreshIds, Ids
  <2> QED BY <1>3, <2>1 DEF AddConn
<1>4. ASSUME NEW c \in Ids, Start(c) \/ callOnConnStart(c) \/ HookPanic(c)
      PROVE PhaseInv'
  BY <1>4 DEF Start, callOnConnStart, HookPanic, Goto
<1>5. ASSUME NEW c \in Ids, useWorker(c) PROVE PhaseInv'
  <2>1. PICK w \in PickWorker(c) : worker' = [worker EXCEPT ![c] = w]
    BY <1>5 DEF useWorker
  <2>2. conf.workerMode = "Bind" => w \in 0..(MaxConn - 1)
    BY PickWorkerRange
  <2>3. conf'.workerMode = "Bind" => worker' \in [Ids -> 0..(MaxConn - 1)]
    BY <1>1, <2>1, <2>2
  <2> QED BY <1>5, <2>3 DEF useWorker, Goto
<1>6. ASSUME NEW c \in Ids, Stop(c) \/ StartReader(c) PROVE PhaseInv'
  BY <1>6 DEF Stop, StartReader
<1>7. ASSUME NEW c \in Ids,
             callOnConnStop(c) \/ CloseSocket(c) \/ Remove(c) \/ freeWorker(c)
      PROVE  PhaseInv'
  BY <1>7 DEF callOnConnStop, CloseSocket, Remove, freeWorker, Goto
<1>8. ASSUME NEW c \in Ids, ClearConn(c) PROVE PhaseInv'
  BY <1>8 DEF ClearConn
<1>9. CASE UNCHANGED <<conf, pc, ctx, open, readers, worker>>
  BY <1>9
<1> QED
  BY StepCases, <1>2, <1>3, <1>4, <1>5, <1>6, <1>7, <1>8, <1>9
  DEF vars, ConnGoroutine, CheckLimit, BackToCheck, TcpListenerClosed, CallStop,
      SnapshotShard, SendExit, CloseListener

\* Only Remove takes an id out of the manager, and CloseSocket came before it.
LEMMA TrackedStep ==
    ASSUME IInv, [Next]_vars
    PROVE  SocketTracked'
<1> USE DEF IInv, TypeOK, SocketTracked, acceptVars, connVars, poolVars, stopVars
<1>1. ASSUME NEW a \in AllAcceptors, NEW k \in {"tcp", "kcp", "ws"}, DrawId(a, k)
      PROVE  SocketTracked'
  BY <1>1 DEF DrawId
<1>2. ASSUME NEW a \in AllAcceptors, AddConn(a) PROVE SocketTracked'
  BY <1>2 DEF AddConn
<1>3. ASSUME NEW a \in AllAcceptors, CheckLimit(a) \/ BackToCheck(a)
      PROVE  SocketTracked'
  BY <1>3 DEF CheckLimit, BackToCheck
<1>4. CASE TcpListenerClosed
  BY <1>4 DEF TcpListenerClosed
<1>5. ASSUME NEW c \in Ids, Remove(c) PROVE SocketTracked'
  <2>1. c \notin open
    BY <1>5 DEF Remove, PhaseInv
  <2> QED BY <1>5, <2>1 DEF Remove
<1>6. CASE UNCHANGED <<apc, aid, conns>> /\ open' \subseteq open
  BY <1>6
<1> QED
  BY StepCases, <1>1, <1>2, <1>3, <1>4, <1>5, <1>6
  DEF vars, ConnGoroutine, Start, callOnConnStart, HookPanic, useWorker,
      callOnConnStop, CloseSocket, freeWorker, Stop, StartReader, CallStop,
      SnapshotShard, ClearConn, SendExit, CloseListener

\* A worker leaves the free set into the hands of a connection and goes back when
\* that connection is done, whoever else was sent to it meanwhile.
LEMMA WorkerStep ==
    ASSUME IInv, [Next]_vars
    PROVE  NoWorkerLost'
<1> SUFFICES ASSUME conf.workerMode = "Bind", NEW w \in 0..(MaxConn - 1)
             PROVE  \/ w \in free'
                    \/ \E c \in Ids : /\ pc'[c] \in Holding \cup {"dead"}
                                      /\ worker'[c] = w
  BY AcceptorsStep DEF NoWorkerLost
<1> USE DEF IInv, TypeOK, acceptVars, connVars, poolVars, stopVars, Goto, Holding
<1>1. w \in free \/ \E c \in Ids : /\ pc[c] \in Holding \cup {"dead"}
                                  /\ worker[c] = w
  BY DEF NoWorkerLost
<1>2. ASSUME NEW a \in AllAcceptors, AddConn(a)
      PROVE  free' = free /\ worker' = worker
             /\ \A c \in Ids : pc[c] # "none" => pc'[c] = pc[c]
  BY <1>2 DEF AddConn, FreshIds
<1>3. ASSUME NEW c \in Ids,
             \/ Start(c) \/ callOnConnStart(c) \/ HookPanic(c)
             \/ callOnConnStop(c) \/ CloseSocket(c) \/ Remove(c)
      PROVE  /\ free' = free /\ worker' = worker
             /\ \A d \in Ids : pc[d] \in Holding \cup {"dead"}
                                => pc'[d] \in Holding \cup {"dead"}
  BY <1>3 DEF Start, callOnConnStart, HookPanic, callOnConnStop, CloseSocket, Remove
<1>4. ASSUME NEW c \in Ids, useWorker(c)
      PROVE  \/ w \in free'
             \/ \E d \in Ids : pc'[d] \in Holding \cup {"dead"} /\ worker'[d] = w
  <2>1. PICK v \in PickWorker(c) : worker' = [worker EXCEPT ![c] = v]
                                  /\ free' = free \ {v}
    BY <1>4 DEF useWorker
  <2>2. pc' = [pc EXCEPT ![c] = "running"] /\ pc[c] = "useWorker"
    BY <1>4 DEF useWorker
  <2>3. CASE w = v
    BY <2>1, <2>2, <2>3
  <2>4. CASE w # v
    BY <1>1, <2>1, <2>2, <2>4
  <2> QED BY <2>3, <2>4
<1>5. ASSUME NEW c \in Ids, freeWorker(c)
      PROVE  \/ w \in free'
             \/ \E d \in Ids : pc'[d] \in Holding \cup {"dead"} /\ worker'[d] = w
  <2>1. free' = free \cup {worker[c]} /\ worker' = worker
        /\ pc' = [pc EXCEPT ![c] = "done"]
    BY <1>5 DEF freeWorker
  <2> QED BY <1>1, <2>1
<1>6. CASE UNCHANGED <<pc, worker, free>>
  BY <1>1, <1>6
<1> QED
  BY StepCases, <1>1, <1>2, <1>3, <1>4, <1>5, <1>6
  DEF vars, ConnGoroutine, CheckLimit, BackToCheck, DrawId, TcpListenerClosed,
      Stop, StartReader, CallStop, SnapshotShard, ClearConn, SendExit,
      CloseListener

\* A registered connection is seen by the scan of its shard or was cancelled
\* before it left the manager; what the scan has seen is cancelled in turn.
LEMMA StopStep ==
    ASSUME IInv, [Next]_vars
    PROVE  StopInv'
<1> USE DEF IInv, TypeOK, StopInv, acceptVars, connVars, poolVars, stopVars
<1>1. ASSUME NEW a \in AllAcceptors, AddConn(a) PROVE StopInv'
  BY <1>1 DEF AddConn, NoCrash
<1>2. ASSUME NEW c \in Ids, Start(c) PROVE StopInv'
  <2>1. ctx[c] = "nil"
    BY <1>2 DEF Start, PhaseInv
  <2> QED BY <1>2, <2>1 DEF Start, NoCrash
<1>3. ASSUME NEW c \in Ids, Remove(c) PROVE StopInv'
  <2>1. ctx[c] = "done"
    BY <1>3 DEF Remove, PhaseInv
  <2> QED BY <1>3, <2>1 DEF Remove, NoCrash
<1>4. ASSUME NEW c \in Ids, Stop(c) \/ StartReader(c) PROVE StopInv'
  BY <1>4 DEF Stop, StartReader, NoCrash
<1>5. CASE CallStop
  BY <1>5 DEF CallStop
<1>6. ASSUME NEW c \in Ids, SnapshotShard(c) PROVE StopInv'
  BY <1>6 DEF SnapshotShard, NoCrash
<1>7. ASSUME NEW c \in Ids, ClearConn(c) PROVE StopInv'
  BY <1>7 DEF ClearConn
<1>8. CASE SendExit
  BY <1>8 DEF SendExit, NoCrash
<1>9. CASE UNCHANGED <<conns, ctx, spc, scan, todo, atStop>> /\ ~crashed
  BY <1>9
<1>10. CASE UNCHANGED vars
  BY <1>10 DEF vars
<1> QED
  BY StepCases, <1>1, <1>2, <1>3, <1>4, <1>5, <1>6, <1>7, <1>8, <1>9, <1>10
  DEF ConnGoroutine, callOnConnStart, HookPanic, useWorker, callOnConnStop,
      CloseSocket, freeWorker, CheckLimit, BackToCheck, DrawId,
      TcpListenerClosed, CloseListener, NoCrash

-----------------------------------------------------------------------------
(* The theorems.                                                           *)

\* Every reachable state of the server satisfies the inductive invariant.
THEOREM Invariance == Spec => []IInv
<1>1. IInv /\ [Next]_vars => IInv'
  BY TypeStep, AcceptorsStep, LimitStep, IdStep, PhaseStep, TrackedStep,
     WorkerStep, StopStep DEF IInv
<1> QED
  BY InitIInv, <1>1, PTL DEF Spec

\* Type correctness of the server.
THEOREM TypeCorrect == Spec => []TypeOK
<1>1. IInv => TypeOK
  BY DEF IInv
<1> QED BY Invariance, <1>1, PTL

\* The connection limit (server.go, the limit test of the accept loops) can be
\* exceeded by at most the number of accept goroutines less one.
THEOREM LimitHolds == Spec => []ConnLimit
<1>1. IInv => ConnLimit
  <2> SUFFICES ASSUME IInv PROVE ConnLimit
    OBVIOUS
  <2>1. TypeOK /\ AcceptorsInv /\ LimitInv
    BY DEF IInv
  <2>2. Cardinality(conns) \in Nat /\ Cardinality(Past) \in Nat
    BY <2>1, CountsFinite
  <2>3. Cardinality(Acceptors(conf.mode)) \in Nat
    BY <2>1, AcceptorsFinite, ConfigTypes DEF TypeOK
  <2> QED BY <2>1, <2>2, <2>3, LimitAssumption DEF LimitInv, ConnLimit
<1> QED BY Invariance, <1>1, PTL

\* With the single TCP or KCP accept loop the limit is exact.
THEOREM SingleAcceptorLimit ==
    Spec => [](conf.mode \in {"tcp", "kcp"} => Cardinality(conns) <= MaxConn)
<1>1. TypeOK /\ ConnLimit
      => (conf.mode \in {"tcp", "kcp"} => Cardinality(conns) <= MaxConn)
  <2> SUFFICES ASSUME TypeOK, ConnLimit, conf.mode \in {"tcp", "kcp"}
               PROVE  Cardinality(conns) <= MaxConn
    OBVIOUS
  <2>1. Acceptors(conf.mode) = {conf.mode}
    BY DEF Acceptors
  <2>2. Cardinality(Acceptors(conf.mode)) = 1
    BY <2>1, FS_Singleton
  <2>3. Cardinality(conns) \in Nat
    <3>1. IsFiniteSet(Ids)
      BY LimitAssumption, FS_Interval DEF Ids
    <3> QED BY <3>1, FS_Subset, FS_CardinalityType DEF TypeOK
  <2> QED BY <2>2, <2>3, LimitAssumption DEF ConnLimit
<1> QED BY TypeCorrect, LimitHolds, <1>1, PTL

\* No open socket escapes the connection manager.
THEOREM SocketsTracked == Spec => []SocketTracked
<1>1. IInv => SocketTracked
  BY DEF IInv
<1> QED BY Invariance, <1>1, PTL

\* Connection ids are never reused, whatever number of goroutines accept.
THEOREM IdsFresh == Spec => []FreshIds
<1>1. IInv => FreshIds
  BY DEF IInv
<1> QED BY Invariance, <1>1, PTL

\* The Bind-mode pool never loses a worker, although workers come to be shared.
THEOREM WorkersKept == Spec => []NoWorkerLost
<1>1. IInv => NoWorkerLost
  BY DEF IInv
<1> QED BY Invariance, <1>1, PTL

\* Server.Stop has cancelled all the connections it found when it returns.
THEOREM StopCancels == Spec => []StopCancelsAll
<1>1. IInv => StopCancelsAll
  BY DEF IInv, StopInv, StopCancelsAll
<1> QED BY Invariance, <1>1, PTL

-----------------------------------------------------------------------------
(* The other side: a client, module Client, for every number of calls of   *)
(* Start, Restart and Stop.                                                *)

\* Call g dials, or its connection has not ended.
CallBusy(g) == cpc[g] \in {"dial", "bind", "spawn"} \/ kpc[g] \notin {"none", "done", "panicked"}

ClientTypes ==
    /\ cpc \in [Calls -> {"none", "dial", "bind", "spawn", "err", "failed", "select", "wait",
                          "over"}]
    /\ kpc \in [Calls -> {"none", "new", "onConnStart", "hcStart", "wait", "onConnStop", "hcStop",
                          "done", "panicked"}]
    /\ of \in [Calls -> Calls \cup {Nil}]
    /\ cctx \in [Calls -> Calls \cup {Nil}]
    /\ hpc \in [Calls -> {"none", "wait", "writing", "quit"}]
    /\ conn \in Calls \cup {Nil}
    /\ upc \in {"idle", "conn", "exit", "send", "close", "closeErr"}
    /\ stops \in Nat
    /\ crash \in BOOLEAN /\ errClosed \in BOOLEAN

\* The calls of Restart are made one after the other: one dial or connection at a time.
SerialInv ==
    /\ \A f, g \in Calls : CallBusy(f) /\ CallBusy(g) => f = g
    /\ \A g \in Calls : CallBusy(g) /\ cpc[g] # "dial" => conn = g
    /\ \A g \in Calls :
          kpc[g] # "none" => cpc[g] \in {"select", "wait", "over"} /\ of[g] = g
    /\ \A g \in Calls : kpc[g] \notin {"none", "new"} => cctx[g] # Nil

\* The checker has the connection that is alive, and a checker goroutine was started
\* for the connections that have waited for their context only.
CheckerInv ==
    /\ \A g \in bound : cpc[g] \notin {"none", "dial", "bind"} /\ hcConn # Nil
    /\ \A g \in Calls : CallBusy(g) /\ g \in bound => hcConn = g
    /\ \A g \in Calls :
          hpc[g] # "none" =>
              /\ g \in bound
              /\ kpc[g] \in {"wait", "onConnStop", "hcStop", "done", "panicked"}

\* onConnStop has panicked: a checker goroutine was not stopped.
CheckerLeft == \E g \in Calls : kpc[g] = "panicked" /\ hpc[g] # "none"

\* Unless one was left, only the connection that is alive has a checker goroutine.
OneChecker ==
    CheckerLeft \/ \A g \in Calls :
        hpc[g] \in {"wait", "writing"} => kpc[g] \in {"wait", "onConnStop", "hcStop"}

\* Stop is called once, when a connection runs, and nothing is dialled after it.
ClientStopInv ==
    /\ stops <= 1
    /\ stops = 0 => upc = "idle" /\ exitClosed = {} /\ ~errClosed
    /\ upc \in {"conn", "exit", "send", "close"} => exitClosed = {}
    /\ upc # "idle" => ~errClosed /\ conn # Nil /\ cctx[conn] # Nil /\ ~Dialling

UsualInv ==
    ~crash /\ misuse = {} => SerialInv /\ CheckerInv /\ OneChecker /\ ClientStopInv

-----------------------------------------------------------------------------

\* The steps of a client.
LEMMA ClientCases ==
  ASSUME ClientNext
  PROVE  \/ Runs /\ Restart
         \/ ClientStop \/ StopsConn \/ BeginSend \/ CloseExitChan \/ CloseErrChan
         \/ \E g \in Calls :
               \/ Dialled(g) \/ DialFailed(g) \/ BindConn(g) \/ Spawn(g)
               \/ Select(g) \/ ExitClosed(g) \/ SendErr(g)
               \/ NewContext(g) \/ StartChecker(g)
               \/ ContextDone(g) \/ HookReturns(g) \/ HookPanics(g) \/ StopChecker(g)
               \/ check(g) \/ SendHeartBeatMsg(g) \/ BeatWritten(g)
               \/ ExitSent(g) \/ StopConn(g)
  BY Zenon
    DEF ClientNext, UserRestart, HookRestart, ClientStopStep, StartStep, ConnStep

\* Every step of a client keeps the types of its variables.
LEMMA ClientTypesStep ==
  ASSUME ClientTypes, ClientNext
  PROVE  ClientTypes'
  <1> USE ClientAssumption
    DEF ClientTypes, Calls, Nil, fieldVars, startVars,
        kpcVars, checkVars, userVars
  <1>1. CASE Runs /\ Restart
    BY <1>1 DEF Restart
  <1>2. CASE StopsConn
    BY <1>2 DEF StopsConn
  <1>3. CASE BeginSend
    BY <1>3 DEF BeginSend
  <1>4. CASE CloseExitChan
    BY <1>4 DEF CloseExitChan
  <1>5. CASE CloseErrChan
    BY <1>5 DEF CloseErrChan
  <1>6. CASE ClientStop
    BY <1>6 DEF ClientStop
  <1>7. ASSUME NEW g \in Calls, Dialled(g) PROVE ClientTypes'
    BY <1>7 DEF Dialled
  <1>8. ASSUME NEW g \in Calls, DialFailed(g) PROVE ClientTypes'
    BY <1>8 DEF DialFailed
  <1>9. ASSUME NEW g \in Calls, BindConn(g) PROVE ClientTypes'
    BY <1>9 DEF BindConn
  <1>10. ASSUME NEW g \in Calls, Spawn(g) PROVE ClientTypes'
    BY <1>10 DEF Spawn
  <1>11. ASSUME NEW g \in Calls, Select(g) PROVE ClientTypes'
    BY <1>11 DEF Select
  <1>12. ASSUME NEW g \in Calls, ExitClosed(g) PROVE ClientTypes'
    BY <1>12 DEF ExitClosed
  <1>13. ASSUME NEW g \in Calls, SendErr(g) PROVE ClientTypes'
    BY <1>13 DEF SendErr
  <1>14. ASSUME NEW g \in Calls, NewContext(g) PROVE ClientTypes'
    BY <1>14 DEF NewContext
  <1>15. ASSUME NEW g \in Calls, StartChecker(g) PROVE ClientTypes'
    BY <1>15 DEF StartChecker
  <1>16. ASSUME NEW g \in Calls, ContextDone(g) PROVE ClientTypes'
    BY <1>16 DEF ContextDone
  <1>17. ASSUME NEW g \in Calls, HookReturns(g) PROVE ClientTypes'
    BY <1>17 DEF HookReturns, InHook
  <1>18. ASSUME NEW g \in Calls, StopChecker(g) PROVE ClientTypes'
    BY <1>18 DEF StopChecker
  <1>19. ASSUME NEW g \in Calls, check(g) PROVE ClientTypes'
    BY <1>19 DEF check
  <1>20. ASSUME NEW g \in Calls, ExitSent(g) PROVE ClientTypes'
    BY <1>20 DEF ExitSent
  <1>21. ASSUME NEW g \in Calls, StopConn(g) PROVE ClientTypes'
    BY <1>21 DEF StopConn
  <1>22. ASSUME NEW g \in Calls, HookPanics(g) PROVE ClientTypes'
    BY <1>22 DEF HookPanics, InHook
  <1>23. ASSUME NEW g \in Calls, SendHeartBeatMsg(g) PROVE ClientTypes'
    BY <1>23 DEF SendHeartBeatMsg
  <1>24. ASSUME NEW g \in Calls, BeatWritten(g) PROVE ClientTypes'
    BY <1>24 DEF BeatWritten
  <1>25. QED
    BY <1>1, <1>2, <1>3, <1>4, <1>5, <1>6, <1>7, <1>8, <1>9, <1>10, <1>11, <1>12, <1>13,
       <1>14, <1>15, <1>16, <1>17, <1>18, <1>19, <1>20, <1>21, <1>22, <1>23, <1>24, ClientCases

\* Nothing happens after a panic, and what was unusual stays so.
LEMMA StaysUsual ==
  ASSUME ClientNext, misuse' = {}
  PROVE  ~crash /\ misuse = {}
  <1> USE DEF Runs, userVars
  <1>1. CASE Runs /\ Restart
    BY <1>1 DEF Restart
  <1>2. CASE StopsConn
    BY <1>2 DEF StopsConn
  <1>3. CASE BeginSend
    BY <1>3 DEF BeginSend
  <1>4. CASE CloseExitChan
    BY <1>4 DEF CloseExitChan
  <1>5. CASE CloseErrChan
    BY <1>5 DEF CloseErrChan
  <1>6. CASE ClientStop
    BY <1>6 DEF ClientStop
  <1>7. ASSUME NEW g \in Calls, Dialled(g) PROVE ~crash /\ misuse = {}
    BY <1>7 DEF Dialled
  <1>8. ASSUME NEW g \in Calls, DialFailed(g) PROVE ~crash /\ misuse = {}
    BY <1>8 DEF DialFailed
  <1>9. ASSUME NEW g \in Calls, BindConn(g) PROVE ~crash /\ misuse = {}
    BY <1>9 DEF BindConn
  <1>10. ASSUME NEW g \in Calls, Spawn(g) PROVE ~crash /\ misuse = {}
    BY <1>10 DEF Spawn
  <1>11. ASSUME NEW g \in Calls, Select(g) PROVE ~crash /\ misuse = {}
    BY <1>11 DEF Select
  <1>12. ASSUME NEW g \in Calls, ExitClosed(g) PROVE ~crash /\ misuse = {}
    BY <1>12 DEF ExitClosed
  <1>13. ASSUME NEW g \in Calls, SendErr(g) PROVE ~crash /\ misuse = {}
    BY <1>13 DEF SendErr
  <1>14. ASSUME NEW g \in Calls, NewContext(g) PROVE ~crash /\ misuse = {}
    BY <1>14 DEF NewContext
  <1>15. ASSUME NEW g \in Calls, StartChecker(g) PROVE ~crash /\ misuse = {}
    BY <1>15 DEF StartChecker
  <1>16. ASSUME NEW g \in Calls, ContextDone(g) PROVE ~crash /\ misuse = {}
    BY <1>16 DEF ContextDone
  <1>17. ASSUME NEW g \in Calls, HookReturns(g) PROVE ~crash /\ misuse = {}
    BY <1>17 DEF HookReturns, InHook
  <1>18. ASSUME NEW g \in Calls, StopChecker(g) PROVE ~crash /\ misuse = {}
    BY <1>18 DEF StopChecker
  <1>19. ASSUME NEW g \in Calls, check(g) PROVE ~crash /\ misuse = {}
    BY <1>19 DEF check
  <1>20. ASSUME NEW g \in Calls, ExitSent(g) PROVE ~crash /\ misuse = {}
    BY <1>20 DEF ExitSent
  <1>21. ASSUME NEW g \in Calls, StopConn(g) PROVE ~crash /\ misuse = {}
    BY <1>21 DEF StopConn
  <1>22. ASSUME NEW g \in Calls, HookPanics(g) PROVE ~crash /\ misuse = {}
    BY <1>22 DEF HookPanics, InHook
  <1>23. ASSUME NEW g \in Calls, SendHeartBeatMsg(g) PROVE ~crash /\ misuse = {}
    BY <1>23 DEF SendHeartBeatMsg
  <1>24. ASSUME NEW g \in Calls, BeatWritten(g) PROVE ~crash /\ misuse = {}
    BY <1>24 DEF BeatWritten
  <1>25. QED
    BY <1>1, <1>2, <1>3, <1>4, <1>5, <1>6, <1>7, <1>8, <1>9, <1>10, <1>11, <1>12, <1>13,
       <1>14, <1>15, <1>16, <1>17, <1>18, <1>19, <1>20, <1>21, <1>22, <1>23, <1>24, ClientCases

\* What a Restart that is not unusual finds.
LEMMA UsualRestart ==
  ASSUME Restart, misuse' = {}
  PROVE  /\ ~Dialling /\ ~errClosed /\ upc = "idle"
         /\ \A f \in Calls : kpc[f] \in {"none", "done", "panicked"}
  <1> HIDE DEF Dialling
  <1>1. Unusual = {}
    BY DEF Restart
  <1>2. ~Dialling
    BY <1>1 DEF Unusual
  <1>3. ~errClosed /\ upc = "idle"
    BY <1>1 DEF Unusual
  <1>4. ASSUME NEW f \in Calls, kpc[f] \notin {"none", "done", "panicked"}
        PROVE  FALSE
    <2>1. "early" \in
             {"early" : g \in {h \in Calls : kpc[h] \notin {"none", "done", "panicked"}}}
      BY <1>4
    <2>2. QED
      BY <1>1, <2>1 DEF Unusual
  <1>5. QED
    BY <1>2, <1>3, <1>4

\* Unless it is unusual, a step keeps the calls one after the other.
LEMMA SerialStep ==
  ASSUME ClientTypes, SerialInv, CheckerInv, ClientStopInv, ClientNext,
         ~crash, misuse = {}, ~crash', misuse' = {}
  PROVE  SerialInv'
  <1> USE
    DEF SerialInv, CallBusy, ClientTypes, Calls, Nil, fieldVars, startVars,
        kpcVars, checkVars, userVars
  <1>1. CASE Runs /\ Restart
    <2>1. \A f \in Calls :
             cpc[f] \notin {"dial", "bind", "spawn"} /\ kpc[f] \in {"none", "done", "panicked"}
      BY <1>1, UsualRestart DEF Dialling
    <2>2. PICK g \in Calls : cpc[g] = "none" /\ cpc' = [cpc EXCEPT ![g] = "dial"]
      BY <1>1 DEF Restart
    <2>3. UNCHANGED <<conn, bound, kpc, of, cctx, hcConn, hpc>>
      BY <1>1 DEF Restart, kpcVars, checkVars
    <2>4. QED
      BY <2>1, <2>2, <2>3 DEF SerialInv, CallBusy, ClientTypes, Nil
  <1>2. CASE StopsConn
    BY <1>2 DEF StopsConn
  <1>3. CASE BeginSend
    BY <1>3 DEF BeginSend
  <1>4. CASE CloseExitChan
    BY <1>4 DEF CloseExitChan
  <1>5. CASE CloseErrChan
    BY <1>5 DEF CloseErrChan
  <1>6. CASE ClientStop
    BY <1>6 DEF ClientStop
  <1>7. ASSUME NEW g \in Calls, Dialled(g) PROVE SerialInv'
    BY <1>7 DEF Dialled
  <1>8. ASSUME NEW g \in Calls, DialFailed(g) PROVE SerialInv'
    BY <1>8 DEF DialFailed
  <1>9. ASSUME NEW g \in Calls, BindConn(g) PROVE SerialInv'
    BY <1>9 DEF BindConn
  <1>10. ASSUME NEW g \in Calls, Spawn(g) PROVE SerialInv'
    BY <1>10 DEF Spawn
  <1>11. ASSUME NEW g \in Calls, Select(g) PROVE SerialInv'
    BY <1>11 DEF Select
  <1>12. ASSUME NEW g \in Calls, ExitClosed(g) PROVE SerialInv'
    BY <1>12 DEF ExitClosed
  <1>13. ASSUME NEW g \in Calls, SendErr(g) PROVE SerialInv'
    <2>1. /\ cpc[g] = "err" /\ cpc' = [cpc EXCEPT ![g] = "failed"]
          /\ UNCHANGED <<conn, bound, kpc, of, cctx, hcConn, hpc>>
      BY <1>13 DEF SendErr, fieldVars, kpcVars, checkVars
    <2>2. QED
      BY <2>1 DEF SerialInv, CallBusy, ClientTypes
  <1>14. ASSUME NEW g \in Calls, NewContext(g) PROVE SerialInv'
    BY <1>14 DEF NewContext
  <1>15. ASSUME NEW g \in Calls, StartChecker(g) PROVE SerialInv'
    BY <1>15 DEF StartChecker
  <1>16. ASSUME NEW g \in Calls, ContextDone(g) PROVE SerialInv'
    BY <1>16 DEF ContextDone
  <1>17. ASSUME NEW g \in Calls, HookReturns(g) PROVE SerialInv'
    BY <1>17 DEF HookReturns, InHook
  <1>18. ASSUME NEW g \in Calls, StopChecker(g) PROVE SerialInv'
    BY <1>18 DEF StopChecker
  <1>19. ASSUME NEW g \in Calls, check(g) PROVE SerialInv'
    BY <1>19 DEF check
  <1>20. ASSUME NEW g \in Calls, ExitSent(g) PROVE SerialInv'
    BY <1>20 DEF ExitSent
  <1>21. ASSUME NEW g \in Calls, StopConn(g) PROVE SerialInv'
    BY <1>21 DEF StopConn
  <1>22. ASSUME NEW g \in Calls, HookPanics(g) PROVE SerialInv'
    BY <1>22 DEF HookPanics, InHook
  <1>23. ASSUME NEW g \in Calls, SendHeartBeatMsg(g) PROVE SerialInv'
    BY <1>23 DEF SendHeartBeatMsg
  <1>24. ASSUME NEW g \in Calls, BeatWritten(g) PROVE SerialInv'
    BY <1>24 DEF BeatWritten
  <1>25. QED
    BY <1>1, <1>2, <1>3, <1>4, <1>5, <1>6, <1>7, <1>8, <1>9, <1>10, <1>11, <1>12, <1>13,
       <1>14, <1>15, <1>16, <1>17, <1>18, <1>19, <1>20, <1>21, <1>22, <1>23, <1>24, ClientCases

\* Unless it is unusual, a step keeps the checker with the connection that is alive.
LEMMA CheckerStep ==
  ASSUME ClientTypes, SerialInv, CheckerInv, ClientStopInv, ClientNext,
         ~crash, misuse = {}, ~crash', misuse' = {}
  PROVE  CheckerInv'
  <1> USE
    DEF CheckerInv, SerialInv, CallBusy, ClientTypes, Calls, Nil, fieldVars,
        startVars, kpcVars, checkVars, userVars
  <1>1. CASE Runs /\ Restart
    BY <1>1, UsualRestart DEF Restart, Dialling
  <1>2. CASE StopsConn
    BY <1>2 DEF StopsConn
  <1>3. CASE BeginSend
    BY <1>3 DEF BeginSend
  <1>4. CASE CloseExitChan
    BY <1>4 DEF CloseExitChan
  <1>5. CASE CloseErrChan
    BY <1>5 DEF CloseErrChan
  <1>6. CASE ClientStop
    BY <1>6 DEF ClientStop
  <1>7. ASSUME NEW g \in Calls, Dialled(g) PROVE CheckerInv'
    BY <1>7 DEF Dialled
  <1>8. ASSUME NEW g \in Calls, DialFailed(g) PROVE CheckerInv'
    BY <1>8 DEF DialFailed
  <1>9. ASSUME NEW g \in Calls, BindConn(g) PROVE CheckerInv'
    BY <1>9 DEF BindConn
  <1>10. ASSUME NEW g \in Calls, Spawn(g) PROVE CheckerInv'
    <2>1. CallBusy(g) /\ kpc[g] = "none"
      BY <1>10 DEF Spawn
    <2>2. /\ cpc' = [cpc EXCEPT ![g] = "select"] /\ kpc' = [kpc EXCEPT ![g] = "new"]
          /\ UNCHANGED <<bound, hcConn, hpc>>
      BY <1>10 DEF Spawn
    <2>3. \A f \in Calls : CallBusy(f)' => CallBusy(f)
      BY <2>1, <2>2
    <2>4. QED
      BY <2>1, <2>2, <2>3
  <1>11. ASSUME NEW g \in Calls, Select(g) PROVE CheckerInv'
    BY <1>11 DEF Select
  <1>12. ASSUME NEW g \in Calls, ExitClosed(g) PROVE CheckerInv'
    BY <1>12 DEF ExitClosed
  <1>13. ASSUME NEW g \in Calls, SendErr(g) PROVE CheckerInv'
    <2>1. /\ cpc[g] = "err" /\ cpc' = [cpc EXCEPT ![g] = "failed"]
          /\ UNCHANGED <<conn, bound, kpc, of, cctx, hcConn, hpc>>
      BY <1>13 DEF SendErr, fieldVars, kpcVars, checkVars
    <2>2. QED
      BY <2>1 DEF CheckerInv, SerialInv, CallBusy, ClientTypes
  <1>14. ASSUME NEW g \in Calls, NewContext(g) PROVE CheckerInv'
    BY <1>14 DEF NewContext
  <1>15. ASSUME NEW g \in Calls, StartChecker(g) PROVE CheckerInv'
    BY <1>15 DEF StartChecker
  <1>16. ASSUME NEW g \in Calls, ContextDone(g) PROVE CheckerInv'
    BY <1>16 DEF ContextDone
  <1>17. ASSUME NEW g \in Calls, HookReturns(g) PROVE CheckerInv'
    BY <1>17 DEF HookReturns, InHook
  <1>18. ASSUME NEW g \in Calls, StopChecker(g) PROVE CheckerInv'
    BY <1>18 DEF StopChecker
  <1>19. ASSUME NEW g \in Calls, check(g) PROVE CheckerInv'
    BY <1>19 DEF check
  <1>20. ASSUME NEW g \in Calls, ExitSent(g) PROVE CheckerInv'
    BY <1>20 DEF ExitSent
  <1>21. ASSUME NEW g \in Calls, StopConn(g) PROVE CheckerInv'
    BY <1>21 DEF StopConn
  <1>22. ASSUME NEW g \in Calls, HookPanics(g) PROVE CheckerInv'
    BY <1>22 DEF HookPanics, InHook
  <1>23. ASSUME NEW g \in Calls, SendHeartBeatMsg(g) PROVE CheckerInv'
    BY <1>23 DEF SendHeartBeatMsg
  <1>24. ASSUME NEW g \in Calls, BeatWritten(g) PROVE CheckerInv'
    BY <1>24 DEF BeatWritten
  <1>25. QED
    BY <1>1, <1>2, <1>3, <1>4, <1>5, <1>6, <1>7, <1>8, <1>9, <1>10, <1>11, <1>12, <1>13,
       <1>14, <1>15, <1>16, <1>17, <1>18, <1>19, <1>20, <1>21, <1>22, <1>23, <1>24, ClientCases

\* The steps of the connections and of the checker goroutines.
LEMMA GoroutineCases ==
  ASSUME ClientNext
  PROVE  \/ UNCHANGED <<kpc, hpc>>
         \/ \E g \in Calls :
               \/ Spawn(g) \/ NewContext(g) \/ StartChecker(g) \/ ContextDone(g)
               \/ HookReturns(g) \/ HookPanics(g) \/ StopChecker(g)
               \/ SendHeartBeatMsg(g) \/ BeatWritten(g)
  BY ClientCases
    DEF Restart, StopsConn, BeginSend, CloseExitChan, CloseErrChan, ClientStop, Dialled,
        DialFailed, BindConn, Select, ExitClosed, SendErr, check, ExitSent, StopConn,
        kpcVars, checkVars

\* A checker goroutine that was left stays left.
LEMMA LeftStays ==
  ASSUME ClientTypes, SerialInv, ClientNext, CheckerLeft
  PROVE  CheckerLeft'
  <1>1. PICK f \in Calls : kpc[f] = "panicked" /\ hpc[f] # "none"
    BY DEF CheckerLeft
  <1>2. SUFFICES kpc'[f] = "panicked" /\ hpc'[f] # "none"
    BY DEF CheckerLeft
  <1> USE <1>1 DEF ClientTypes, SerialInv, CallBusy, checkVars, kpcVars
  <1>3. CASE UNCHANGED <<kpc, hpc>>
    BY <1>3
  <1>4. ASSUME NEW g \in Calls, Spawn(g) PROVE kpc'[f] = "panicked" /\ hpc'[f] # "none"
    BY <1>4 DEF Spawn
  <1>5. ASSUME NEW g \in Calls, NewContext(g) PROVE kpc'[f] = "panicked" /\ hpc'[f] # "none"
    BY <1>5 DEF NewContext
  <1>6. ASSUME NEW g \in Calls, StartChecker(g)
        PROVE kpc'[f] = "panicked" /\ hpc'[f] # "none"
    BY <1>6 DEF StartChecker
  <1>7. ASSUME NEW g \in Calls, ContextDone(g)
        PROVE kpc'[f] = "panicked" /\ hpc'[f] # "none"
    BY <1>7 DEF ContextDone
  <1>8. ASSUME NEW g \in Calls, HookReturns(g)
        PROVE kpc'[f] = "panicked" /\ hpc'[f] # "none"
    BY <1>8 DEF HookReturns, InHook
  <1>9. ASSUME NEW g \in Calls, HookPanics(g)
        PROVE kpc'[f] = "panicked" /\ hpc'[f] # "none"
    BY <1>9 DEF HookPanics, InHook
  <1>10. ASSUME NEW g \in Calls, StopChecker(g)
         PROVE kpc'[f] = "panicked" /\ hpc'[f] # "none"
    BY <1>10 DEF StopChecker
  <1>11. ASSUME NEW g \in Calls, SendHeartBeatMsg(g)
         PROVE kpc'[f] = "panicked" /\ hpc'[f] # "none"
    BY <1>11 DEF SendHeartBeatMsg
  <1>12. ASSUME NEW g \in Calls, BeatWritten(g)
         PROVE kpc'[f] = "panicked" /\ hpc'[f] # "none"
    BY <1>12 DEF BeatWritten
  <1>13. QED
    BY <1>3, <1>4, <1>5, <1>6, <1>7, <1>8, <1>9, <1>10, <1>11, <1>12, GoroutineCases

\* A step leaves no checker goroutine behind, unless onConnStop panics.
LEMMA OneCheckerStep ==
  ASSUME ClientTypes, SerialInv, CheckerInv, OneChecker, ClientNext
  PROVE  OneChecker'
  <1> DEFINE Live(g) == hpc[g] \in {"wait", "writing"} =>
                            kpc[g] \in {"wait", "onConnStop", "hcStop"}
  <1>1. CASE CheckerLeft
    BY <1>1, LeftStays DEF OneChecker
  <1>2. SUFFICES ASSUME \A g \in Calls : Live(g)
                 PROVE  OneChecker'
    BY <1>1 DEF OneChecker
  <1> USE <1>2 DEF ClientTypes, OneChecker, checkVars, kpcVars
  <1>3. CASE UNCHANGED <<kpc, hpc>>
    BY <1>3 DEF CheckerLeft
  <1>4. ASSUME NEW g \in Calls, Spawn(g) PROVE OneChecker'
    BY <1>4 DEF Spawn, SerialInv, CallBusy
  <1>5. ASSUME NEW g \in Calls, NewContext(g) PROVE OneChecker'
    BY <1>5 DEF NewContext
  <1>6. ASSUME NEW g \in Calls, StartChecker(g) PROVE OneChecker'
    BY <1>6 DEF StartChecker
  <1>7. ASSUME NEW g \in Calls, ContextDone(g) PROVE OneChecker'
    BY <1>7 DEF ContextDone
  <1>8. ASSUME NEW g \in Calls, HookReturns(g) PROVE OneChecker'
    BY <1>8 DEF HookReturns, InHook, SerialInv, CheckerInv
  <1>9. ASSUME NEW g \in Calls, HookPanics(g) PROVE OneChecker'
    <2>1. /\ kpc' = [kpc EXCEPT ![g] = "panicked"] /\ hpc' = hpc
      BY <1>9 DEF HookPanics, InHook
    <2>2. CASE hpc[g] = "none"
      BY <2>1, <2>2
    <2>3. CASE hpc[g] # "none"
      BY <2>1, <2>3 DEF CheckerLeft
    <2>4. QED
      BY <2>2, <2>3
  <1>10. ASSUME NEW g \in Calls, StopChecker(g) PROVE OneChecker'
    <2>1. PICK h \in Calls : hpc[h] = "wait" /\ hpc' = [hpc EXCEPT ![h] = "quit"]
      BY <1>10 DEF StopChecker
    <2>2. kpc[g] = "hcStop" /\ kpc' = [kpc EXCEPT ![g] = "done"]
      BY <1>10 DEF StopChecker
    <2>3. CallBusy(h) /\ CallBusy(g)
      BY <2>1, <2>2 DEF CallBusy
    <2>4. h = g
      BY <2>3 DEF SerialInv
    <2>5. QED
      BY <2>1, <2>2, <2>4
  <1>11. ASSUME NEW g \in Calls, SendHeartBeatMsg(g) PROVE OneChecker'
    BY <1>11 DEF SendHeartBeatMsg
  <1>12. ASSUME NEW g \in Calls, BeatWritten(g) PROVE OneChecker'
    BY <1>12 DEF BeatWritten
  <1>13. QED
    BY <1>3, <1>4, <1>5, <1>6, <1>7, <1>8, <1>9, <1>10, <1>11, <1>12, GoroutineCases

\* Unless it is unusual, a step keeps what Stop relies on.
LEMMA StopOnceStep ==
  ASSUME ClientTypes, SerialInv, CheckerInv, ClientStopInv, ClientNext,
         ~crash, misuse = {}, ~crash', misuse' = {}
  PROVE  ClientStopInv'
  <1> USE
    DEF ClientStopInv, Dialling, ClientTypes, Calls, Nil, fieldVars,
        startVars, kpcVars, checkVars, userVars
  <1>1. CASE Runs /\ Restart
    <2>1. upc = "idle"
      BY <1>1, UsualRestart
    <2>2. UNCHANGED <<exitClosed, errClosed, upc, stops>>
      BY <1>1 DEF Restart
    <2>3. QED
      BY <2>1, <2>2 DEF ClientStopInv
  <1>2. CASE StopsConn
    BY <1>2 DEF StopsConn
  <1>3. CASE BeginSend
    BY <1>3 DEF BeginSend
  <1>4. CASE CloseExitChan
    BY <1>4 DEF CloseExitChan
  <1>5. CASE CloseErrChan
    BY <1>5 DEF CloseErrChan
  <1>6. CASE ClientStop
    <2> HIDE DEF Dialling, ClientStopInv, Calls, Nil, fieldVars, startVars,
                 kpcVars, checkVars, userVars
    <2>1. /\ stops' = stops + 1 /\ upc' = "conn"
          /\ UNCHANGED <<fieldVars, startVars, kpcVars>>
      BY <1>6 DEF ClientStop
    <2>2. stops = 0
      BY <1>6 DEF ClientStop, ClientTypes
    <2>3. conn # Nil /\ cctx[conn] # Nil /\ ~Dialling
      BY <1>6 DEF ClientStop
    <2>4. ~Dialling'
      BY <2>1, <2>3 DEF Dialling, startVars
    <2>5. QED
      BY <2>1, <2>2, <2>3, <2>4 DEF ClientStopInv, fieldVars, kpcVars
  <1>7. ASSUME NEW g \in Calls, Dialled(g) PROVE ClientStopInv'
    BY <1>7 DEF Dialled
  <1>8. ASSUME NEW g \in Calls, DialFailed(g) PROVE ClientStopInv'
    BY <1>8 DEF DialFailed
  <1>9. ASSUME NEW g \in Calls, BindConn(g) PROVE ClientStopInv'
    BY <1>9 DEF BindConn
  <1>10. ASSUME NEW g \in Calls, Spawn(g) PROVE ClientStopInv'
    BY <1>10 DEF Spawn
  <1>11. ASSUME NEW g \in Calls, Select(g) PROVE ClientStopInv'
    BY <1>11 DEF Select
  <1>12. ASSUME NEW g \in Calls, ExitClosed(g) PROVE ClientStopInv'
    BY <1>12 DEF ExitClosed
  <1>13. ASSUME NEW g \in Calls, SendErr(g) PROVE ClientStopInv'
    BY <1>13 DEF SendErr
  <1>14. ASSUME NEW g \in Calls, NewContext(g) PROVE ClientStopInv'
    BY <1>14 DEF NewContext
  <1>15. ASSUME NEW g \in Calls, StartChecker(g) PROVE ClientStopInv'
    BY <1>15 DEF StartChecker
  <1>16. ASSUME NEW g \in Calls, ContextDone(g) PROVE ClientStopInv'
    BY <1>16 DEF ContextDone
  <1>17. ASSUME NEW g \in Calls, HookReturns(g) PROVE ClientStopInv'
    BY <1>17 DEF HookReturns, InHook
  <1>18. ASSUME NEW g \in Calls, StopChecker(g) PROVE ClientStopInv'
    BY <1>18 DEF StopChecker
  <1>19. ASSUME NEW g \in Calls, check(g) PROVE ClientStopInv'
    BY <1>19 DEF check
  <1>20. ASSUME NEW g \in Calls, ExitSent(g) PROVE ClientStopInv'
    BY <1>20 DEF ExitSent
  <1>21. ASSUME NEW g \in Calls, StopConn(g) PROVE ClientStopInv'
    BY <1>21 DEF StopConn
  <1>22. ASSUME NEW g \in Calls, HookPanics(g) PROVE ClientStopInv'
    BY <1>22 DEF HookPanics, InHook
  <1>23. ASSUME NEW g \in Calls, SendHeartBeatMsg(g) PROVE ClientStopInv'
    BY <1>23 DEF SendHeartBeatMsg
  <1>24. ASSUME NEW g \in Calls, BeatWritten(g) PROVE ClientStopInv'
    BY <1>24 DEF BeatWritten
  <1>25. QED
    BY <1>1, <1>2, <1>3, <1>4, <1>5, <1>6, <1>7, <1>8, <1>9, <1>10, <1>11, <1>12, <1>13,
       <1>14, <1>15, <1>16, <1>17, <1>18, <1>19, <1>20, <1>21, <1>22, <1>23, <1>24, ClientCases

\* Unless the client is used in an unusual way, a step keeps its invariants.
LEMMA UsualStep ==
  ASSUME ClientTypes, UsualInv, ClientNext
  PROVE  UsualInv'
  <1> HIDE DEF SerialInv, CheckerInv, OneChecker, ClientStopInv
  <1>1. SUFFICES ASSUME ~crash', misuse' = {}
                 PROVE  SerialInv' /\ CheckerInv' /\ OneChecker' /\ ClientStopInv'
    BY Zenon DEF UsualInv
  <1>2. ~crash /\ misuse = {}
    BY <1>1, StaysUsual
  <1>3. SerialInv /\ CheckerInv /\ OneChecker /\ ClientStopInv
    BY <1>2 DEF UsualInv
  <1>4. QED
    BY <1>1, <1>2, <1>3, SerialStep, CheckerStep, OneCheckerStep,
       StopOnceStep

\* The error of a failed dial is to be sent on ErrChan, which is closed.
SentLate == errClosed /\ \E g \in Calls : cpc[g] = "err"

Excused == SentLate \/ Leftover

\* A step that panics is an unusual use, sends an error on the closed ErrChan, or is the
\* tick of a checker goroutine that was left.
LEMMA PanicStep ==
  ASSUME ClientTypes, UsualInv, PanicOnlyMisuse, ClientNext
  PROVE  PanicOnlyMisuse'
  <1>1. SUFFICES ASSUME crash', misuse' = {}
                 PROVE  Excused'
    BY DEF PanicOnlyMisuse, Excused, SentLate
  <1>2. ~crash /\ misuse = {}
    BY <1>1, StaysUsual
  <1>3. SerialInv /\ CheckerInv /\ OneChecker /\ ClientStopInv
    BY <1>2 DEF UsualInv
  <1>4. Excused'
    <2> USE
      DEF Excused, SentLate, Runs, SerialInv, CheckerInv, ClientStopInv, CallBusy,
      ClientTypes,
          Calls, Nil, fieldVars, startVars, kpcVars, checkVars,
          userVars
    <2>1. CASE Runs /\ Restart
      BY <2>1, <1>1, <1>2, <1>3 DEF Restart
    <2>2. CASE StopsConn
      BY <2>2, <1>1, <1>2, <1>3 DEF StopsConn
    <2>3. CASE BeginSend
      BY <2>3, <1>1, <1>2, <1>3 DEF BeginSend
    <2>4. CASE CloseExitChan
      BY <2>4, <1>1, <1>2, <1>3 DEF CloseExitChan
    <2>5. CASE CloseErrChan
      BY <2>5, <1>1, <1>2, <1>3 DEF CloseErrChan
    <2>6. CASE ClientStop
      BY <2>6, <1>1, <1>2, <1>3 DEF ClientStop
    <2>7. ASSUME NEW g \in Calls, Dialled(g) PROVE Excused'
      BY <2>7, <1>1, <1>2, <1>3 DEF Dialled
    <2>8. ASSUME NEW g \in Calls, DialFailed(g) PROVE Excused'
      BY <2>8, <1>1, <1>2, <1>3 DEF DialFailed
    <2>9. ASSUME NEW g \in Calls, BindConn(g) PROVE Excused'
      BY <2>9, <1>1, <1>2, <1>3 DEF BindConn
    <2>10. ASSUME NEW g \in Calls, Spawn(g) PROVE Excused'
      BY <2>10, <1>1, <1>2, <1>3 DEF Spawn
    <2>11. ASSUME NEW g \in Calls, Select(g) PROVE Excused'
      BY <2>11, <1>1, <1>2, <1>3 DEF Select
    <2>12. ASSUME NEW g \in Calls, ExitClosed(g) PROVE Excused'
      BY <2>12, <1>1, <1>2, <1>3 DEF ExitClosed
    <2>13. ASSUME NEW g \in Calls, SendErr(g) PROVE Excused'
      BY <2>13, <1>1, <1>2, <1>3 DEF SendErr
    <2>14. ASSUME NEW g \in Calls, NewContext(g) PROVE Excused'
      BY <2>14, <1>1, <1>2, <1>3 DEF NewContext
    <2>15. ASSUME NEW g \in Calls, StartChecker(g) PROVE Excused'
      BY <2>15, <1>1, <1>2, <1>3 DEF StartChecker
    <2>16. ASSUME NEW g \in Calls, ContextDone(g) PROVE Excused'
      BY <2>16, <1>1, <1>2, <1>3 DEF ContextDone
    <2>17. ASSUME NEW g \in Calls, HookReturns(g) PROVE Excused'
      BY <2>17, <1>1, <1>2, <1>3 DEF HookReturns, InHook
    <2>18. ASSUME NEW g \in Calls, StopChecker(g) PROVE Excused'
      BY <2>18, <1>1, <1>2, <1>3 DEF StopChecker
    <2>19. ASSUME NEW g \in Calls, check(g) PROVE Excused'
      <3>1. hpc[g] = "wait" /\ cctx[hcConn] = Nil
        BY <2>19, <1>1, <1>2 DEF check
      <3>2. UNCHANGED <<kpc, hpc, hcConn, cctx>>
        BY <2>19 DEF check
      <3>3. g \in bound /\ kpc[g] \in {"wait", "onConnStop", "hcStop", "done", "panicked"}
        BY <3>1, <1>3
      <3>4. kpc[g] \in {"done", "panicked"}
        BY <3>1, <3>3, <1>3
      <3>5. CheckerLeft
        BY <3>1, <3>4, <1>3 DEF OneChecker
      <3>6. hcConn # Nil
        BY <3>3, <1>3
      <3>7. Leftover
        BY <3>1, <3>4, <3>5, <3>6 DEF Leftover, CheckerLeft
      <3>8. QED
        BY <3>2, <3>7 DEF Leftover
    <2>20. ASSUME NEW g \in Calls, ExitSent(g) PROVE Excused'
      BY <2>20, <1>1, <1>2, <1>3 DEF ExitSent
    <2>21. ASSUME NEW g \in Calls, StopConn(g) PROVE Excused'
      BY <2>21, <1>1, <1>2, <1>3 DEF StopConn
    <2>22. ASSUME NEW g \in Calls, HookPanics(g) PROVE Excused'
      BY <2>22, <1>1, <1>2, <1>3 DEF HookPanics, InHook
    <2>23. ASSUME NEW g \in Calls, SendHeartBeatMsg(g) PROVE Excused'
      BY <2>23, <1>1, <1>2, <1>3 DEF SendHeartBeatMsg
    <2>24. ASSUME NEW g \in Calls, BeatWritten(g) PROVE Excused'
      BY <2>24, <1>1, <1>2, <1>3 DEF BeatWritten
    <2>25. QED
      BY <2>1, <2>2, <2>3, <2>4, <2>5, <2>6, <2>7, <2>8, <2>9, <2>10, <2>11, <2>12, <2>13,
         <2>14, <2>15, <2>16, <2>17, <2>18, <2>19, <2>20, <2>21, <2>22, <2>23, <2>24, ClientCases
  <1>5. QED
    BY <1>4

\* The process panics only if the client was used in an unusual way, if Stop closes
\* ErrChan before the error of a dial is received, or if a checker goroutine that a panic
\* of onConnStop has left meets the next connection before its Start; for any number of
\* calls of Start, Restart and Stop.
THEOREM PanicsOnlyOnMisuse == ClientSpec => []PanicOnlyMisuse
  <1> DEFINE Inv == ClientTypes /\ UsualInv /\ PanicOnlyMisuse
  <1>1. ClientInit => Inv
    <2>1. SUFFICES ASSUME ClientInit
                   PROVE  Inv
      OBVIOUS
    <2>2. ClientTypes
      BY <2>1 DEF ClientInit, ClientTypes, Nil
    <2>3. SerialInv /\ CheckerInv /\ OneChecker /\ ClientStopInv
      BY <2>1 DEF ClientInit, SerialInv, CheckerInv, OneChecker, CheckerLeft,
        ClientStopInv, CallBusy, Nil
    <2>4. PanicOnlyMisuse
      BY <2>1 DEF ClientInit, PanicOnlyMisuse
    <2>5. QED
      BY <2>2, <2>3, <2>4 DEF UsualInv
  <1>2. Inv /\ [ClientNext]_clientVars => Inv'
    <2>1. CASE ClientNext
      BY <2>1, ClientTypesStep, UsualStep, PanicStep
    <2>2. CASE UNCHANGED clientVars
      BY <2>2
        DEF clientVars, fieldVars, startVars, kpcVars, checkVars, userVars,
            ClientTypes, UsualInv, PanicOnlyMisuse, Leftover, SerialInv, CheckerInv,
            OneChecker,
            CheckerLeft, ClientStopInv,
            CallBusy, Dialling
    <2>3. QED
      BY <2>1, <2>2
  <1>3. QED
    BY <1>1, <1>2, PTL DEF ClientSpec
=============================================================================
