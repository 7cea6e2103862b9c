------------------------------- MODULE Server -------------------------------
(***************************************************************************)
(* The server side of gray: the accept loops of gnet/server.go, the        *)
(* connection manager of gnet/connmanager.go, the life of a connection     *)
(* (Start .. finalizer) and the worker pool book-keeping of                *)
(* gnet/msghandler.go, together with the shutdown protocol Server.Stop.    *)
(*                                                                         *)
(* Every goroutine of the program is a process here and every step between *)
(* two accesses to state that another goroutine can see is an action:      *)
(*   - one accept loop for TCP, one for KCP, and one process per           *)
(*     concurrently running websocket HTTP handler;                        *)
(*   - the listener goroutines that wait for exitChan;                     *)
(*   - per connection, the goroutine of Server.StartConn and the reader;   *)
(*   - the goroutine that calls Server.Stop.                               *)
(* No heartbeat checker is configured (s.hc = nil); the checker is the     *)
(* subject of module Heartbeat.                                            *)
(***************************************************************************)
EXTENDS Naturals, FiniteSets

CONSTANTS
    Configs,        \* the configurations to consider
    MaxConn,        \* GlobalObject.MaxConn
    PoolSize,       \* GlobalObject.WorkerPoolSize (used in Hash mode)
    Handlers,       \* HTTP handler goroutines that can run at the same time
    MaxAccept       \* bound on the connections of one behaviour

\* GlobalObject.Mode (any other value is treated as "") and WorkerMode; whether the
\* user's hooks may panic and whether the user calls Server.Stop; the connections that
\* arrive, at most.
Modes == {"tcp", "kcp", "websocket", ""}
Configuration == [mode: Modes, workerMode: {"Hash", "Bind"}, panics: BOOLEAN,
                  stopped: BOOLEAN, accepts: 0..MaxAccept]

ASSUME ConfigAssumption == Configs \subseteq Configuration
ASSUME LimitAssumption ==
    MaxConn \in Nat \ {0} /\ PoolSize \in Nat /\ MaxAccept \in Nat
ASSUME HandlersAssumption ==
    IsFiniteSet(Handlers) /\ "tcp" \notin Handlers /\ "kcp" \notin Handlers

Ids == 1..MaxAccept

AllAcceptors == {"tcp", "kcp"} \cup Handlers

\* Server.Start: which listeners a mode starts; the default is TCP and websocket.
Acceptors(mode) ==
    CASE mode = "tcp"       -> {"tcp"}
      [] mode = "kcp"       -> {"kcp"}
      [] mode = "websocket" -> Handlers
      [] OTHER              -> {"tcp"} \cup Handlers

\* newMsgHandler: Bind mode sizes the pool by the connection limit.
WorkerPoolSize(mode) == IF mode = "Bind" THEN MaxConn ELSE PoolSize

VARIABLES
    conf,       \* the configuration read at start, never changed afterwards
    apc,        \* apc[a]: where accept loop / handler a is
    aid,        \* aid[a]: the connection id a drew from s.cID
    cID,        \* Server.cID
    conns,      \* ConnManager.connections (the ids stored)
    kind,       \* kind[c]: transport of connection c
    pc,         \* pc[c]: where the goroutine of StartConn(c) is
    ctx,        \* ctx[c]: "nil" before Start, then "live", "done" once cancelled
    open,       \* ids whose socket is open
    readers,    \* ids whose reader goroutine runs
    worker,     \* worker[c]: Connection.workerID
    free,       \* MsgHandler.freeWorkers
    spc,        \* where Server.Stop is
    scan,       \* ids whose shard ClearConn's snapshot has not read yet
    todo,       \* ids ClearConn has still to Stop
    atStop,     \* history: the ids registered when Server.Stop was called
    lpc,        \* lpc[l]: where the goroutine of ListenTcpConn / ListenKcpConn is
    crashed     \* an unrecovered panic has ended the process

acceptVars == <<apc, aid, cID>>
connVars   == <<conns, kind, pc, ctx, open, readers>>
poolVars   == <<worker, free>>
stopVars   == <<spc, scan, todo, atStop, lpc>>
vars == <<conf, acceptVars, connVars, poolVars, stopVars, crashed>>

Init ==
    /\ conf \in Configs
    /\ apc = [a \in AllAcceptors |->
                IF a \in Acceptors(conf.mode) THEN "check" ELSE "exit"]
    /\ aid = [a \in AllAcceptors |-> 0]
    /\ cID = 0
    /\ conns = {}
    /\ kind = [c \in Ids |-> "tcp"]
    /\ pc = [c \in Ids |-> "none"]
    /\ ctx = [c \in Ids |-> "nil"]
    /\ open = {}
    /\ readers = {}
    /\ worker = [c \in Ids |-> 0]
    /\ free = IF conf.workerMode = "Bind" THEN 0..(MaxConn - 1) ELSE {}
    /\ spc = "idle"
    /\ scan = {}
    /\ todo = {}
    /\ atStop = {}
    /\ lpc = [l \in {"tcp", "kcp"} |->
                IF l \in Acceptors(conf.mode) THEN "listen" ELSE "closed"]
    /\ crashed = FALSE

\* Guard and frame of a step of the living process that does not end it.
NoCrash == ~crashed /\ crashed' = FALSE

-----------------------------------------------------------------------------
(* The accept loops and the websocket handler.                             *)

\* Mutant of CheckLimit: no limit.
CheckLimit_noLimit(a) ==
    /\ NoCrash
    /\ apc[a] = "check"
    /\ apc' = [apc EXCEPT ![a] = "accept"]
    /\ UNCHANGED <<conf, aid, cID, connVars, poolVars, stopVars>>

\* The limit test lets a goroutine go on when it sees fewer than MaxConn
\* connections; otherwise it sleeps (AcceptDelay) and tests again, or, in the
\* websocket handler, drops the request: no state changes.
CheckLimit(a) ==
    /\ NoCrash
    /\ apc[a] = "check"
    /\ Cardinality(conns) < MaxConn
    /\ apc' = [apc EXCEPT ![a] = "accept"]
    /\ UNCHANGED <<conf, aid, cID, connVars, poolVars, stopVars>>

\* A socket of transport k arrives and draws a fresh id with AddUint64.
DrawId(a, k) ==
    /\ NoCrash
    /\ apc[a] = "accept"
    /\ cID < conf.accepts
    /\ cID' = cID + 1
    /\ aid' = [aid EXCEPT ![a] = cID + 1]
    /\ kind' = [kind EXCEPT ![cID + 1] = k]
    /\ open' = open \cup {cID + 1}
    /\ apc' = [apc EXCEPT ![a] = "add"]
    /\ UNCHANGED <<conf, conns, pc, ctx, readers, poolVars, stopVars>>

TcpAccept == lpc["tcp"] # "closed" /\ DrawId("tcp", "tcp")

KcpAccept == lpc["kcp"] # "closed" /\ DrawId("kcp", "kcp")

WsUpgrade(h) == DrawId(h, "ws")

BackToCheck(a) ==
    /\ NoCrash
    /\ apc[a] = "accept"
    /\ apc' = [apc EXCEPT ![a] = "check"]
    /\ UNCHANGED <<conf, aid, cID, connVars, poolVars, stopVars>>

\* Accept failed for another reason than a closed listener: delay, then loop.
TcpAcceptError == lpc["tcp"] # "closed" /\ BackToCheck("tcp")

\* The KCP loop makes no difference between errors: it never ends.
KcpAcceptError == BackToCheck("kcp")

\* Authentication or the upgrade failed: the handler returns.
WsReject(h) == BackToCheck(h)

\* errors.Is(err, net.ErrClosed): the TCP accept goroutine returns.
TcpListenerClosed ==
    /\ NoCrash
    /\ apc["tcp"] = "accept"
    /\ lpc["tcp"] = "closed"
    /\ apc' = [apc EXCEPT !["tcp"] = "exit"]
    /\ UNCHANGED <<conf, aid, cID, connVars, poolVars, stopVars>>

\* The constructor stores the connection in the manager, then the accept loop
\* starts the goroutine of StartConn.
AddConn(a) ==
    /\ NoCrash
    /\ apc[a] = "add"
    /\ conns' = conns \cup {aid[a]}
    /\ pc' = [pc EXCEPT ![aid[a]] = "created"]
    /\ apc' = [apc EXCEPT ![a] = "check"]
    /\ UNCHANGED <<conf, aid, cID, kind, ctx, open, readers, poolVars, stopVars>>

newServerConn == AddConn("tcp")
newKcpServerConn == AddConn("kcp")
newWebsocketConn(h) == AddConn(h)

Accepting ==
    \/ \E a \in AllAcceptors : CheckLimit(a)
    \/ TcpAccept
    \/ TcpAcceptError
    \/ TcpListenerClosed
    \/ KcpAccept
    \/ KcpAcceptError
    \/ \E h \in Handlers : WsUpgrade(h)
    \/ \E h \in Handlers : WsReject(h)

Registering ==
    \/ newServerConn
    \/ newKcpServerConn
    \/ \E h \in Handlers : newWebsocketConn(h)

-----------------------------------------------------------------------------
(* The life of one connection: Start, finalizer, freeWorker.               *)

Goto(c, label) == pc' = [pc EXCEPT ![c] = label]

\* Start creates the cancellable context; only now is c.cancel set.
Start(c) ==
    /\ NoCrash
    /\ pc[c] = "created"
    /\ ctx' = [ctx EXCEPT ![c] = "live"]
    /\ Goto(c, "onStart")
    /\ UNCHANGED <<conf, acceptVars, conns, kind, open, readers, poolVars,
                   stopVars>>

callOnConnStart(c) ==
    /\ NoCrash
    /\ pc[c] = "onStart"
    /\ Goto(c, "useWorker")
    /\ UNCHANGED <<conf, acceptVars, conns, kind, ctx, open, readers, poolVars,
                   stopVars>>

\* A hook panics: the TCP and KCP Start recover, so its goroutine ends with the
\* connection still registered and open; the websocket Start does not recover.
HookPanic(c) ==
    /\ ~crashed
    /\ conf.panics
    /\ pc[c] = "onStart" \/ (pc[c] = "running" /\ ctx[c] = "done")
    /\ Goto(c, "dead")
    /\ crashed' = (kind[c] = "ws")
    /\ UNCHANGED <<conf, acceptVars, conns, kind, ctx, open, readers, poolVars,
                   stopVars>>

\* In Bind mode any free worker; without one, and in Hash mode, the worker the
\* connection id selects.
PickWorker(c) ==
    IF conf.workerMode = "Bind" /\ free # {}
    THEN free
    ELSE {IF WorkerPoolSize(conf.workerMode) = 0 THEN 0
          ELSE c % WorkerPoolSize(conf.workerMode)}

\* useWorker, then the reader goroutine is started.
useWorker(c) ==
    /\ NoCrash
    /\ pc[c] = "useWorker"
    /\ \E w \in PickWorker(c) :
          /\ worker' = [worker EXCEPT ![c] = w]
          /\ free' = free \ {w}
    /\ readers' = readers \cup {c}
    /\ Goto(c, "running")
    /\ UNCHANGED <<conf, acceptVars, conns, kind, ctx, open, stopVars>>

\* Connection.Stop called by user code that holds the started connection.
Stop(c) ==
    /\ NoCrash
    /\ ctx[c] = "live"
    /\ ctx' = [ctx EXCEPT ![c] = "done"]
    /\ UNCHANGED <<conf, acceptVars, conns, kind, pc, open, readers, poolVars,
                   stopVars>>

\* Mutant of StartReader: the deferred Stop is missing.
StartReader_noStop(c) ==
    /\ NoCrash
    /\ c \in readers
    /\ readers' = readers \ {c}
    /\ UNCHANGED <<conf, acceptVars, conns, kind, ctx, pc, open, poolVars,
                   stopVars>>

\* The reader returns (peer gone, read error, cancelled context, recovered
\* panic) and its deferred Stop cancels the context.
StartReader(c) ==
    /\ NoCrash
    /\ c \in readers
    /\ readers' = readers \ {c}
    /\ ctx' = [ctx EXCEPT ![c] = "done"]
    /\ UNCHANGED <<conf, acceptVars, conns, kind, pc, open, poolVars, stopVars>>

\* finalizer: the hook, then the socket, then the manager.
callOnConnStop(c) ==
    /\ NoCrash
    /\ pc[c] = "running"
    /\ ctx[c] = "done"
    /\ Goto(c, "close")
    /\ UNCHANGED <<conf, acceptVars, conns, kind, ctx, open, readers, poolVars,
                   stopVars>>

\* Mutant of CloseSocket: the socket is left open.
CloseSocket_skip(c) ==
    /\ NoCrash
    /\ pc[c] = "close"
    /\ Goto(c, "remove")
    /\ UNCHANGED <<conf, acceptVars, conns, kind, ctx, open, readers, poolVars,
                   stopVars>>

CloseSocket(c) ==
    /\ NoCrash
    /\ pc[c] = "close"
    /\ open' = open \ {c}
    /\ Goto(c, "remove")
    /\ UNCHANGED <<conf, acceptVars, conns, kind, ctx, readers, poolVars,
                   stopVars>>

Remove(c) ==
    /\ NoCrash
    /\ pc[c] = "remove"
    /\ conns' = conns \ {c}
    /\ Goto(c, "free")
    /\ UNCHANGED <<conf, acceptVars, kind, ctx, open, readers, poolVars,
                   stopVars>>

\* Mutant of freeWorker: the worker is not given back.
freeWorker_skip(c) ==
    /\ NoCrash
    /\ pc[c] = "free"
    /\ Goto(c, "done")
    /\ UNCHANGED <<conf, acceptVars, conns, kind, ctx, open, readers, poolVars,
                   stopVars>>

freeWorker(c) ==
    /\ NoCrash
    /\ pc[c] = "free"
    /\ free' = IF conf.workerMode = "Bind" THEN free \cup {worker[c]} ELSE free
    /\ Goto(c, "done")
    /\ UNCHANGED <<conf, acceptVars, conns, kind, ctx, open, readers, worker,
                   stopVars>>

\* The steps of the goroutine `go s.StartConn(conn)`.
ConnGoroutine(c) ==
    \/ Start(c)
    \/ callOnConnStart(c)
    \/ HookPanic(c)
    \/ useWorker(c)
    \/ callOnConnStop(c)
    \/ CloseSocket(c)
    \/ Remove(c)
    \/ freeWorker(c)

-----------------------------------------------------------------------------
(* Server.Stop, called once by the user.                                   *)

\* ClearConn ranges over IterBuffered, which snapshots the shards one by one.
CallStop ==
    /\ NoCrash
    /\ spc = "idle" /\ conf.stopped
    /\ spc' = "snapshot"
    /\ scan' = Ids
    /\ atStop' = conns
    /\ UNCHANGED <<conf, acceptVars, connVars, poolVars, todo, lpc>>

SnapshotShard(c) ==
    /\ NoCrash
    /\ spc = "snapshot"
    /\ c \in scan
    /\ scan' = scan \ {c}
    /\ todo' = IF c \in conns THEN todo \cup {c} ELSE todo
    /\ spc' = IF scan = {c} THEN "clear" ELSE "snapshot"
    /\ UNCHANGED <<conf, acceptVars, connVars, poolVars, atStop, lpc>>

\* ClearConn stops one connection of its snapshot. c.cancel is nil until Start
\* has run, and calling it panics in the goroutine of Server.Stop.
ClearConn(c) ==
    /\ ~crashed
    /\ spc = "clear"
    /\ c \in todo
    /\ todo' = todo \ {c}
    /\ crashed' = (ctx[c] = "nil")
    /\ ctx' = IF ctx[c] = "nil" THEN ctx ELSE [ctx EXCEPT ![c] = "done"]
    /\ UNCHANGED <<conf, acceptVars, conns, kind, pc, open, readers, poolVars,
                   spc, scan, atStop, lpc>>

\* Mutant of SendExit: waits until the manager is empty.
SendExit_waitsEmpty ==
    /\ NoCrash
    /\ spc = "clear"
    /\ conns = {}
    /\ \E l \in {"tcp", "kcp"} :
          /\ lpc[l] = "listen"
          /\ lpc' = [lpc EXCEPT ![l] = "closing"]
    /\ spc' = "done"
    /\ UNCHANGED <<conf, acceptVars, connVars, poolVars, scan, todo, atStop>>

\* Mutant of SendExit: does not wait for the connections to be cancelled.
SendExit_early ==
    /\ NoCrash
    /\ spc = "clear"
    /\ \E l \in {"tcp", "kcp"} :
          /\ lpc[l] = "listen"
          /\ lpc' = [lpc EXCEPT ![l] = "closing"]
    /\ spc' = "done"
    /\ UNCHANGED <<conf, acceptVars, connVars, poolVars, scan, todo, atStop>>

\* exitChan <- struct{}{}: an unbuffered send, received by a listener goroutine.
SendExit ==
    /\ NoCrash
    /\ spc = "clear"
    /\ todo = {}
    /\ \E l \in {"tcp", "kcp"} :
          /\ lpc[l] = "listen"
          /\ lpc' = [lpc EXCEPT ![l] = "closing"]
    /\ spc' = "done"
    /\ UNCHANGED <<conf, acceptVars, connVars, poolVars, scan, todo, atStop>>

CloseListener(l) ==
    /\ NoCrash
    /\ lpc[l] = "closing"
    /\ lpc' = [lpc EXCEPT ![l] = "closed"]
    /\ UNCHANGED <<conf, acceptVars, connVars, poolVars, spc, scan, todo, atStop>>

Stopping ==
    \/ \E c \in Ids : SnapshotShard(c)
    \/ \E c \in Ids : ClearConn(c)
    \/ SendExit

-----------------------------------------------------------------------------
Next ==
    \/ Accepting
    \/ Registering
    \/ \E c \in Ids : ConnGoroutine(c)
    \/ \E c \in Ids : Stop(c)
    \/ \E c \in Ids : StartReader(c)
    \/ CallStop
    \/ Stopping
    \/ \E l \in {"tcp", "kcp"} : CloseListener(l)

Spec == Init /\ [][Next]_vars

\* The steps of goroutines that are not waiting for a peer or for user code; a
\* reader is only sure to return once its socket is closed.
Runnable ==
    \/ Registering
    \/ \E c \in Ids : ConnGoroutine(c)
    \/ \E c \in Ids : c \notin open /\ StartReader(c)
    \/ Stopping
    \/ \E l \in {"tcp", "kcp"} : CloseListener(l)

\* The Go scheduler runs every goroutine that is not blocked. A goroutine takes a
\* bounded number of Runnable steps per accepted connection, so with MaxAccept
\* connections this single condition makes each of them run to its end. Nothing is
\* assumed of peers (whether they connect, send or leave) nor of user code.
FairSpec == Spec /\ WF_vars(Runnable)

-----------------------------------------------------------------------------
(* Properties.                                                             *)

Pcs == {"none", "created", "onStart", "useWorker", "running", "close", "remove",
        "free", "done", "dead"}

\* Type invariant of the server's state.
TypeOK ==
    /\ conf \in Configs
    /\ apc \in [AllAcceptors -> {"check", "accept", "add", "exit"}]
    /\ aid \in [AllAcceptors -> 0..MaxAccept]
    /\ cID \in 0..MaxAccept
    /\ conns \subseteq Ids
    /\ kind \in [Ids -> {"tcp", "kcp", "ws"}]
    /\ pc \in [Ids -> Pcs]
    /\ ctx \in [Ids -> {"nil", "live", "done"}]
    /\ open \subseteq Ids
    /\ readers \subseteq Ids
    /\ worker \in [Ids -> Nat]
    /\ free \subseteq 0..(MaxConn - 1)
    /\ spc \in {"idle", "snapshot", "clear", "done"}
    /\ scan \subseteq Ids
    /\ todo \subseteq Ids
    /\ atStop \subseteq Ids
    /\ lpc \in [{"tcp", "kcp"} -> {"listen", "closing", "closed"}]
    /\ crashed \in BOOLEAN

\* The limit test and the registration are two steps, so every goroutine that
\* accepts may overshoot by one: the manager never holds more than
\* MaxConn - 1 + (number of accepting goroutines) connections. For the single
\* TCP or KCP accept loop this is MaxConn itself (server.go, "Set the maximum
\* connection control").
ConnLimit ==
    Cardinality(conns) <= (MaxConn - 1) + Cardinality(Acceptors(conf.mode))

\* No connection escapes the manager: whoever has an open socket is registered,
\* or is in the hands of the accept loop that is about to register it, so that
\* ClearConn, Len and Get see every live peer (finalizer closes, then removes).
SocketTracked ==
    \A c \in open :
        c \in conns \/ \E a \in AllAcceptors : apc[a] = "add" /\ aid[a] = c

\* Concurrent accept goroutines never hold, register or reuse the same id: the
\* map key of a connection in the manager is never overwritten.
FreshIds ==
    \A a \in AllAcceptors : apc[a] = "add" =>
        /\ pc[aid[a]] = "none"
        /\ aid[a] \notin conns
        /\ \A b \in AllAcceptors \ {a} : apc[b] = "add" => aid[a] # aid[b]

Holding == {"running", "close", "remove", "free"}

\* In Bind mode no worker leaks, in whatever order connections end and start:
\* each one is free, or assigned to a connection that has still to give it back
\* (or whose onConnStop hook panicked).
NoWorkerLost ==
    conf.workerMode = "Bind" =>
        \A w \in 0..(MaxConn - 1) :
            w \in free \/ \E c \in Ids : /\ pc[c] \in Holding \cup {"dead"}
                                        /\ worker[c] = w

\* In Bind mode every connection has a worker of its own (newMsgHandler: "Assign
\* a workder to each link, avoid interactions when multiple links are processed
\* by the same worker").
BindExclusive ==
    conf.workerMode = "Bind" =>
        \A c, d \in Ids :
            c # d /\ pc[c] = "running" /\ pc[d] = "running" => worker[c] # worker[d]

\* Server.Stop returns only when every connection registered at the moment it
\* was called has been cancelled, although connections come and go while the
\* shards of the manager are read.
StopCancelsAll ==
    spc = "done" => \A c \in atStop : ctx[c] = "done"

\* A connection that was cancelled, or whose reader has returned because the peer
\* left, is eventually closed, deleted from the manager and done with its worker
\* (ClearConn: "stop will eventually trigger the deletion of the connection"),
\* unless one of its hooks panics or the process dies.
StopDeletes ==
    \A c \in Ids :
        /\ ctx[c] = "done" \/ (pc[c] = "running" /\ c \notin readers)
        /\ ~conf.panics
        ~> (c \notin open \cup conns /\ pc[c] = "done") \/ crashed

\* Server.Stop returns (server.go: "Stop stops the server"), unless a websocket hook
\* ends the process, or Stop itself does, by the nil cancel of a connection that is
\* registered but not started. In mode websocket it never returns, since nobody
\* receives from exitChan there.
StopReturns ==
    /\ spc # "idle" /\ conf.mode # "websocket"
       ~> \/ spc = "done"
          \/ crashed /\ \E c \in conns : pc[c] = "created" \/ (pc[c] = "dead" /\ kind[c] = "ws")
    /\ [](conf.mode = "websocket" => spc # "done")
=============================================================================
