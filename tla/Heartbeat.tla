----------------------------- MODULE Heartbeat ------------------------------
(***************************************************************************)
(* One started connection of gray and its heartbeat checker                *)
(* (gnet/heartbeat.go), for each of the three transports: the goroutine of *)
(* Connection.Start and finalizer, the reader, the checker goroutine, and  *)
(* the RWMutex msgLock that the websocket and KCP connections share        *)
(* between senders and finalizer.  The hooks and the worker pool are in    *)
(* module Server.                                                          *)
(*                                                                         *)
(* Time passes in intervals of the checker's ticker.  The checker uses its *)
(* default functions: SendHeartBeatMsg as the beat and notAliveDefaultFunc *)
(* when the peer is not alive.                                             *)
(***************************************************************************)
EXTENDS Naturals

CONSTANTS
    Transports,   \* transports to consider, a subset of {"tcp", "ws", "kcp"}
    HBMax,        \* HeartbeatMaxDuration, in ticker intervals
    PeerMayStall  \* may the peer stop reading, so that a write blocks?

ASSUME HeartbeatAssumption ==
    /\ Transports \subseteq {"tcp", "ws", "kcp"}
    /\ HBMax \in Nat \ {0}
    /\ PeerMayStall \in BOOLEAN

VARIABLES
    transport,  \* the transport of the connection
    fpc,        \* where the goroutine of Start / finalizer is
    hpc,        \* where the checker goroutine is
    ctx,        \* the connection's context: "live" or "done"
    closed,     \* WsConnection.isClosed / KcpConnection.closed
    open,       \* the socket is open
    wlock,      \* the finalizer and msgLock: "none", "wait" (in Lock) or "held"
    rlock,      \* the checker holds msgLock for reading
    age,        \* intervals since lastActivityTime; HBMax stands for "too long"
    tick,       \* the ticker's channel (capacity one) is full
    silent,     \* the peer sends nothing any more
    stalled     \* the peer reads nothing any more: a write blocks

connVars == <<transport, fpc, ctx, closed, open, wlock>>
checkVars == <<hpc, rlock, tick>>
peerVars == <<silent, stalled>>
vars == <<connVars, checkVars, age, peerVars>>

Init ==
    /\ transport \in Transports
    /\ fpc = "new"
    /\ hpc = "off"
    /\ ctx = "live"
    /\ closed = FALSE
    /\ open = TRUE
    /\ wlock = "none"
    /\ rlock = FALSE
    /\ age = HBMax          \* lastActivityTime is the zero Time
    /\ tick = FALSE
    /\ silent = FALSE
    /\ stalled = FALSE

-----------------------------------------------------------------------------
(* Start: the checker's goroutine first, the activity time after it.       *)

StartChecker ==
    /\ fpc = "new"
    /\ fpc' = "update"
    /\ hpc' = "wait"
    /\ UNCHANGED <<transport, ctx, closed, open, wlock, rlock, tick, age, peerVars>>

updateActivity ==
    /\ fpc = "update"
    /\ fpc' = "running"
    /\ age' = 0
    /\ UNCHANGED <<transport, ctx, closed, open, wlock, checkVars, peerVars>>

\* The context is cancelled by user code, by Server.Stop, or by the reader when
\* the peer closes the connection.
Cancel ==
    /\ ctx = "live"
    /\ ctx' = "done"
    /\ UNCHANGED <<transport, fpc, closed, open, wlock, checkVars, age, peerVars>>

\* StartReader: data from the peer renews the activity time.
ReadData ==
    /\ fpc = "running"
    /\ open /\ ~silent
    /\ age' = 0
    /\ UNCHANGED <<connVars, checkVars, peerVars>>

PeerSilent ==
    /\ ~silent
    /\ silent' = TRUE
    /\ UNCHANGED <<connVars, checkVars, age, stalled>>

PeerStalls ==
    /\ PeerMayStall /\ ~stalled
    /\ stalled' = TRUE
    /\ UNCHANGED <<connVars, checkVars, age, silent>>

\* One interval of the ticker passes; a tick nobody has taken is dropped.
Interval ==
    /\ hpc \notin {"off", "quit"}
    /\ age' = IF age < HBMax THEN age + 1 ELSE age
    /\ tick' = TRUE
    /\ UNCHANGED <<connVars, hpc, rlock, peerVars>>

-----------------------------------------------------------------------------
(* finalizer, one sequence of steps per transport.                         *)

TcpFinalize ==
    /\ transport = "tcp"
    /\ fpc = "running" /\ ctx = "done"
    /\ fpc' = "hcStop"
    /\ UNCHANGED <<transport, ctx, closed, open, wlock, checkVars, age, peerVars>>

\* KCP sets the closed flag, then asks for the lock.
KcpFinalize ==
    /\ transport = "kcp"
    /\ fpc = "running" /\ ctx = "done"
    /\ closed' = TRUE
    /\ fpc' = "lock"
    /\ UNCHANGED <<transport, ctx, open, wlock, checkVars, age, peerVars>>

\* The websocket sets its flag only at the end, under the lock.
WsFinalize ==
    /\ transport = "ws"
    /\ fpc = "running" /\ ctx = "done"
    /\ fpc' = "lock"
    /\ UNCHANGED <<transport, ctx, closed, open, wlock, checkVars, age, peerVars>>

\* msgLock.Lock(): from the moment it waits, no new reader gets in.
LockWait ==
    /\ fpc = "lock" /\ wlock = "none"
    /\ wlock' = "wait"
    /\ UNCHANGED <<transport, fpc, ctx, closed, open, checkVars, age, peerVars>>

LockHeld ==
    /\ fpc = "lock" /\ wlock = "wait"
    /\ ~rlock
    /\ wlock' = "held"
    /\ fpc' = "hcStop"
    /\ UNCHANGED <<transport, ctx, closed, open, checkVars, age, peerVars>>

\* Mutant of StopChecker: a send that does not wait for the checker.
StopChecker_async ==
    /\ fpc = "hcStop"
    /\ fpc' = "close"
    /\ hpc' = IF hpc = "wait" THEN "quit" ELSE hpc
    /\ UNCHANGED <<transport, ctx, closed, open, wlock, rlock, tick, age, peerVars>>

\* hc.Stop sends on the unbuffered quitChan: it meets the checker in its select.
StopChecker ==
    /\ fpc = "hcStop"
    /\ hpc = "wait"
    /\ fpc' = "close"
    /\ hpc' = "quit"
    /\ UNCHANGED <<transport, ctx, closed, open, wlock, rlock, tick, age, peerVars>>

\* conn.Close, removal from the manager; websocket: isClosed = true; the lock is
\* released on return.
CloseConn ==
    /\ fpc = "close"
    /\ open' = FALSE
    /\ closed' = (closed \/ transport = "ws")
    /\ wlock' = "none"
    /\ fpc' = "done"
    /\ UNCHANGED <<transport, ctx, checkVars, age, peerVars>>

Finalizer ==
    \/ TcpFinalize
    \/ KcpFinalize
    \/ WsFinalize
    \/ LockWait
    \/ LockHeld
    \/ StopChecker
    \/ CloseConn

-----------------------------------------------------------------------------
(* The checker goroutine.                                                  *)

CheckerAt(from, to) ==
    /\ hpc = from
    /\ hpc' = to
    /\ UNCHANGED <<connVars, age, peerVars>>

\* case <-ticker.C
TakeTick ==
    /\ tick
    /\ tick' = FALSE
    /\ CheckerAt("wait", "check")
    /\ UNCHANGED rlock

TcpIsAlive == ctx = "live" /\ age < HBMax
WsIsAlive == ~closed /\ age < HBMax
KcpIsAlive == ~closed /\ age < HBMax

\* Mutant of IsAlive: the activity time is not consulted.
IsAlive_noTime == ctx = "live"

IsAlive ==
    CASE transport = "tcp" -> TcpIsAlive
      [] transport = "ws"  -> WsIsAlive
      [] OTHER             -> KcpIsAlive

PeerAlive ==
    /\ IsAlive
    /\ CheckerAt("check", "send")
    /\ UNCHANGED <<rlock, tick>>

RemoteNotAlive ==
    /\ hpc = "check" /\ ~IsAlive
    /\ hpc' = "notAlive"
    /\ UNCHANGED <<connVars, rlock, tick, age, peerVars>>

\* Mutant of notAliveDefaultFunc: the checker returns by itself.
notAliveDefaultFunc_returns ==
    /\ hpc = "notAlive"
    /\ ctx' = "done"
    /\ hpc' = "quit"
    /\ UNCHANGED <<transport, fpc, closed, open, wlock, rlock, tick, age, peerVars>>

\* conn.Stop() from within the checker's goroutine; the checker goes on.
notAliveDefaultFunc ==
    /\ hpc = "notAlive"
    /\ ctx' = "done"
    /\ hpc' = "wait"
    /\ UNCHANGED <<transport, fpc, closed, open, wlock, rlock, tick, age, peerVars>>

\* TCP SendMsg: no lock; it writes unless the context is done.
TcpSendMsg ==
    /\ transport = "tcp"
    /\ CheckerAt("send", IF ctx = "live" THEN "write" ELSE "wait")
    /\ UNCHANGED <<rlock, tick>>

\* KCP SendMsg tests the flag, then Send takes the lock.
KcpSendMsg ==
    /\ transport = "kcp"
    /\ CheckerAt("send", IF closed THEN "wait" ELSE "rlock")
    /\ UNCHANGED <<rlock, tick>>

\* The websocket SendMsg starts with the lock.
WsSendMsg ==
    /\ transport = "ws"
    /\ CheckerAt("send", "rlock")
    /\ UNCHANGED <<rlock, tick>>

\* msgLock.RLock() succeeds while the finalizer neither holds nor awaits the
\* lock; then the flag is tested (again, for KCP).
RLock ==
    /\ wlock = "none"
    /\ CheckerAt("rlock", IF closed THEN "wait" ELSE "write")
    /\ rlock' = ~closed
    /\ UNCHANGED tick

\* The write returns once the peer takes the data, or fails on a closed socket.
WriteReturns ==
    /\ ~stalled \/ ~open
    /\ CheckerAt("write", "wait")
    /\ rlock' = FALSE
    /\ UNCHANGED tick

Checker ==
    \/ TakeTick
    \/ PeerAlive
    \/ RemoteNotAlive
    \/ notAliveDefaultFunc
    \/ TcpSendMsg
    \/ KcpSendMsg
    \/ WsSendMsg
    \/ RLock
    \/ WriteReturns

-----------------------------------------------------------------------------
Next ==
    \/ StartChecker
    \/ updateActivity
    \/ Cancel
    \/ ReadData
    \/ PeerSilent
    \/ PeerStalls
    \/ Interval
    \/ Finalizer
    \/ Checker

Spec == Init /\ [][Next]_vars

\* Goroutines that are not blocked run, time passes, and a blocked receive of
\* quitChan is not starved for ever by the ticker: Go's select chooses at random
\* among the ready cases, hence the strong fairness of the meeting.
FairSpec ==
    /\ Spec
    /\ WF_vars(StartChecker) /\ WF_vars(updateActivity)
    /\ WF_vars(Finalizer) /\ SF_vars(StopChecker)
    /\ WF_vars(Checker) /\ WF_vars(Interval)

-----------------------------------------------------------------------------
(* Properties.                                                             *)

\* Type invariant of the connection, its checker and its lock.
TypeOK ==
    /\ transport \in Transports
    /\ fpc \in {"new", "update", "running", "lock", "hcStop", "close", "done"}
    /\ hpc \in {"off", "wait", "check", "notAlive", "send", "rlock", "write", "quit"}
    /\ ctx \in {"live", "done"}
    /\ closed \in BOOLEAN /\ open \in BOOLEAN /\ rlock \in BOOLEAN
    /\ wlock \in {"none", "wait", "held"}
    /\ age \in 0..HBMax
    /\ tick \in BOOLEAN /\ silent \in BOOLEAN /\ stalled \in BOOLEAN

\* The socket is closed only after the checker goroutine has returned, so no
\* heartbeat is written to a closed socket and the checker does not outlive its
\* connection (finalizer: hc.Stop before conn.Close).
CheckerStopsFirst == ~open => hpc = "quit"

\* The finalizer of a websocket or KCP connection has the connection for itself
\* from the moment it holds msgLock: no heartbeat is being written.
NoWriteUnderLock == wlock = "held" => hpc # "write" /\ ~rlock

\* A peer that falls silent is detected: the connection is cancelled, unless the
\* peer has also stopped reading, which blocks the checker in its write.
SilentPeerStopped == silent ~> (ctx = "done" \/ stalled)

\* The checker waits for the lock that the finalizer, which waits for the
\* checker, has asked for.
LockCycle == hpc = "rlock" /\ wlock \in {"wait", "held"}

\* A cancelled connection ends, unless its peer has stopped reading or the
\* checker and the finalizer wait for each other.
StopFinishesUnlessStuck == (ctx = "done") ~> (fpc = "done" \/ stalled \/ LockCycle)

\* A cancelled connection ends (KcpConnection.Stop, WsConnection.Stop: "Stop stops
\* the connection and ends the current connection state").
StopFinishes == (ctx = "done") ~> (fpc = "done")
=============================================================================
