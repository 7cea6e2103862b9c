------------------------------ MODULE Dispatch -------------------------------
(***************************************************************************)
(* The way of a request of gray from the reader of its connection to its   *)
(* router: StartReader takes the frames of each read one after the other,  *)
(* makes a request of each (GetRequest, possibly from RequestPool) and     *)
(* sends it down the chain of interceptors; the last one, MsgHandler,      *)
(* puts it into the queue of the connection's worker, or starts a          *)
(* goroutine for it when GlobalObject.WorkerPoolSize is zero, which a      *)
(* client of the same process makes it (client.go).                        *)
(*                                                                         *)
(* The frames of a connection are numbered as they come.  A read that      *)
(* completes no frame changes nothing here.                                *)
(***************************************************************************)
EXTENDS Naturals, FiniteSets, Sequences

CONSTANTS
    Conns,             \* connections of the server
    Workers,           \* the workers of the pool
    Configs,           \* the configurations to consider, see ConfigAssumption
    MaxWorkerTaskLen,  \* GlobalObject.MaxWorkerTaskLen
    MaxChunk,          \* bound: frames completed by one read
    Quota              \* bound: Quota[c] is the number of frames of connection c

ASSUME WorkersAssumption == Workers \cap Nat = {}
ASSUME ConnsAssumption == IsFiniteSet(Conns)
\* The transport; has a connection a frame decoder; GlobalObject.RequestPoolMode; does
\* the process start a client too; Connection.workerID of each connection.
ASSUME ConfigAssumption ==
    Configs \subseteq [transport: {"tcp", "ws", "kcp"}, framed: BOOLEAN, pool: BOOLEAN,
                      client: BOOLEAN, workerID: [Conns -> Workers]]
ASSUME LimitAssumption ==
    /\ MaxWorkerTaskLen \in Nat \ {0} /\ MaxChunk \in Nat \ {0}
    /\ Quota \in [Conns -> Nat]

\* Request objects; a request that runs outside the pool names its goroutine too.
Frames == UNION {{c} \X (1..Quota[c]) : c \in Conns}
Requests == 1..Cardinality(Frames)
Executors == Workers \cup Requests

VARIABLES
    conf,      \* the configuration: never changed
    usePool,   \* GlobalObject.WorkerPoolSize > 0
    ctx,       \* ctx[c]: the context, "live" or "done"
    rpc,       \* rpc[c]: where the reader of c is
    nread,     \* nread[c]: frames read so far
    rest,      \* rest[c]: frames of the last read not yet taken
    hand,      \* hand[c]: the request the reader of c holds, 0 for none
    seen,      \* seen[c]: the request it has queued and has still to log, 0 for none
    obj,       \* obj[r]: connection, frame number and response of request r
    fresh,     \* the next request object never used so far
    pool,      \* RequestPool
    queue,     \* queue[w]: MsgHandler.TaskQueue
    xpc,       \* xpc[e]: where the worker or goroutine e is
    cur,       \* cur[e]: the request e works on, 0 for none
    began,     \* history: what cur[e] was when its handler began
    settled,   \* history: settled[c], the frames whose handler began, or dropped
    crashed    \* an unrecovered panic has ended the process

readerVars == <<ctx, rpc, nread, rest, hand, seen>>
objVars == <<obj, fresh, pool>>
execVars == <<queue, xpc, cur, began>>
vars == <<conf, usePool, readerVars, objVars, execVars, settled, crashed>>

Init ==
    /\ conf \in Configs
    /\ usePool = TRUE
    /\ ctx = [c \in Conns |-> "live"]
    /\ rpc = [c \in Conns |-> "loop"]
    /\ nread = [c \in Conns |-> 0]
    /\ rest = [c \in Conns |-> 0]
    /\ hand = [c \in Conns |-> 0]
    /\ seen = [c \in Conns |-> 0]
    /\ obj = [r \in Requests |-> [conn |-> "none", num |-> 0, resp |-> "none"]]
    /\ fresh = 1
    /\ pool = {}
    /\ queue = [w \in Workers |-> <<>>]
    /\ xpc = [e \in Executors |-> "idle"]
    /\ cur = [e \in Executors |-> 0]
    /\ began = [e \in Executors |-> <<>>]
    /\ settled = [c \in Conns |-> {}]
    /\ crashed = FALSE

Alive == ~crashed /\ crashed' = FALSE

-----------------------------------------------------------------------------
(* The reader.                                                             *)

\* The select before each read: the context is not done.
EnterRead(c) ==
    /\ Alive /\ rpc[c] = "loop" /\ rest[c] = 0 /\ ctx[c] = "live"
    /\ rpc' = [rpc EXCEPT ![c] = "blocked"]
    /\ UNCHANGED <<conf, usePool, ctx, nread, rest, hand, seen, objVars, execVars, settled>>

ReaderDone(c) ==
    /\ Alive /\ rpc[c] = "loop" /\ rest[c] = 0 /\ ctx[c] = "done"
    /\ rpc' = [rpc EXCEPT ![c] = "exit"]
    /\ UNCHANGED <<conf, usePool, ctx, nread, rest, hand, seen, objVars, execVars, settled>>

\* The reader waits in Read; "closed" when the socket has been closed meanwhile.
InRead(c) == rpc[c] \in {"blocked", "closed"}

\* A read completes k frames; without a frame decoder it is the frame.
Read(c, k) ==
    /\ Alive /\ InRead(c)
    /\ nread[c] + k <= Quota[c]
    /\ ~conf.framed => k = 1
    /\ nread' = [nread EXCEPT ![c] = @ + k]
    /\ rest' = [rest EXCEPT ![c] = k]
    /\ rpc' = [rpc EXCEPT ![c] = "loop"]
    /\ UNCHANGED <<conf, usePool, ctx, hand, seen, objVars, execVars, settled>>

\* Mutant of ReadError: the error is not distinguished from an empty read.
ReadError_retry(c) ==
    /\ Alive /\ InRead(c)
    /\ UNCHANGED <<conf, usePool, readerVars, objVars, execVars, settled>>

\* The peer has gone, or finalizer has closed the socket; the deferred Stop cancels.
ReadError(c) ==
    /\ Alive /\ InRead(c)
    /\ rpc' = [rpc EXCEPT ![c] = "exit"]
    /\ ctx' = [ctx EXCEPT ![c] = "done"]
    /\ UNCHANGED <<conf, usePool, nread, rest, hand, seen, objVars, execVars, settled>>

\* Request.Reset sets every field but icResp, router and handlers: a response that
\* is there remains, as one of an earlier request.
Reset(r, c, m) ==
    [conn |-> c, num |-> m, resp |-> IF obj[r].resp = "none" THEN "none" ELSE "stale"]

\* Mutant of Intercept: the decoder takes a message with an empty value for a short one.
Intercept_noEmpty(request) == {[request EXCEPT !.resp = "own"], request}

\* The decoder at the head of the chain sets the response. A frame cut by the frame
\* decoder has its header; other data may be shorter than one, and there need be no
\* decoder at all: it is passed on as it is.
Intercept(request) ==
    {[request EXCEPT !.resp = "own"]} \cup (IF conf.framed THEN {} ELSE {request})

\* The next frame becomes a request, a new one or one of RequestPool, which enters
\* the chain of interceptors.
GetRequest(c) ==
    /\ Alive /\ rpc[c] = "loop" /\ rest[c] > 0
    /\ \E r \in Requests :
          /\ \/ r = fresh /\ fresh' = fresh + 1 /\ pool' = pool
             \/ r \in pool /\ pool' = pool \ {r} /\ fresh' = fresh
          /\ \E request \in Intercept(Reset(r, c, nread[c] - rest[c] + 1)) :
                obj' = [obj EXCEPT ![r] = request]
          /\ hand' = [hand EXCEPT ![c] = r]
    /\ rest' = [rest EXCEPT ![c] = @ - 1]
    /\ rpc' = [rpc EXCEPT ![c] = "chain"]
    /\ UNCHANGED <<conf, usePool, ctx, nread, seen, execVars, settled>>

-----------------------------------------------------------------------------
(* The chain of interceptors, executed by the reader.                      *)

\* The frame of a request counts as settled.
Settle(r) == settled' = [settled EXCEPT ![obj[r].conn] = @ \cup {obj[r].num}]

\* A user's interceptor does not call Proceed.
Withhold(c) ==
    /\ Alive /\ rpc[c] = "chain"
    /\ Settle(hand[c])
    /\ hand' = [hand EXCEPT ![c] = 0]
    /\ rpc' = [rpc EXCEPT ![c] = "loop"]
    /\ UNCHANGED <<conf, usePool, ctx, nread, rest, seen, objVars, execVars>>

\* An interceptor panics, as HtlvCrcDecoder does when the CRC is wrong: the TCP and
\* KCP readers recover and stop the connection, the ws reader does not recover.
ChainPanic(c) ==
    /\ ~crashed /\ rpc[c] = "chain"
    /\ crashed' = (conf.transport = "ws")
    /\ rpc' = [rpc EXCEPT ![c] = "exit"]
    /\ ctx' = [ctx EXCEPT ![c] = "done"]
    /\ Settle(hand[c])
    /\ hand' = [hand EXCEPT ![c] = 0]
    /\ UNCHANGED <<conf, usePool, nread, rest, seen, objVars, execVars>>

\* MsgHandler.Intercept at the tail, with the pool: on to SendMsgToTaskQueue.
UsePool(c) ==
    /\ Alive /\ rpc[c] = "chain" /\ usePool
    /\ rpc' = [rpc EXCEPT ![c] = "send"]
    /\ UNCHANGED <<conf, usePool, ctx, nread, rest, hand, seen, objVars, execVars, settled>>

\* The request leaves the reader's hands.
Pass(c) ==
    /\ hand' = [hand EXCEPT ![c] = 0]
    /\ rpc' = [rpc EXCEPT ![c] = "loop"]

\* MsgHandler.Intercept without the pool: a goroutine for this request.
GoHandler(c) ==
    /\ Alive /\ rpc[c] = "chain" /\ ~usePool
    /\ xpc' = [xpc EXCEPT ![hand[c]] = "started"]
    /\ cur' = [cur EXCEPT ![hand[c]] = hand[c]]
    /\ Pass(c)
    /\ UNCHANGED <<conf, usePool, ctx, nread, rest, seen, objVars, queue, began, settled>>

\* The worker has the request now; the reader has still to log it.
HandOver(c) ==
    /\ hand' = [hand EXCEPT ![c] = 0]
    /\ seen' = [seen EXCEPT ![c] = hand[c]]
    /\ rpc' = [rpc EXCEPT ![c] = "log"]

\* Mutant of SendMsgToTaskQueue: any worker with room takes the request.
SendMsgToTaskQueue_any(c) ==
    /\ Alive /\ rpc[c] = "send"
    /\ \E w \in Workers :
          /\ Len(queue[w]) < MaxWorkerTaskLen
          /\ queue' = [queue EXCEPT ![w] = Append(@, hand[c])]
    /\ HandOver(c)
    /\ UNCHANGED <<conf, usePool, ctx, nread, rest, objVars, xpc, cur, began, settled>>

\* The send blocks while the queue is full, whatever becomes of the context.
SendMsgToTaskQueue(c) ==
    /\ Alive /\ rpc[c] = "send"
    /\ Len(queue[conf.workerID[c]]) < MaxWorkerTaskLen
    /\ queue' = [queue EXCEPT ![conf.workerID[c]] = Append(@, hand[c])]
    /\ HandOver(c)
    /\ UNCHANGED <<conf, usePool, ctx, nread, rest, objVars, xpc, cur, began, settled>>

\* The reader reads the data of the request it has queued (request.GetData(), which
\* is evaluated at every log level), whoever uses the request by then.
LogData(c) ==
    /\ Alive /\ rpc[c] = "log"
    /\ seen' = [seen EXCEPT ![c] = 0]
    /\ rpc' = [rpc EXCEPT ![c] = "loop"]
    /\ UNCHANGED <<conf, usePool, ctx, nread, rest, hand, objVars, execVars, settled>>

\* Steps of the reader that do not wait for the peer.
StartReader(c) ==
    \/ EnterRead(c)
    \/ ReaderDone(c)
    \/ GetRequest(c)
    \/ Withhold(c)
    \/ ChainPanic(c)
    \/ UsePool(c)
    \/ GoHandler(c)
    \/ SendMsgToTaskQueue(c)
    \/ LogData(c)

-----------------------------------------------------------------------------
(* The workers, and the goroutines started instead of them.                *)

\* The executor is done with its request.
Release(e) ==
    /\ xpc' = [xpc EXCEPT ![e] = "idle"]
    /\ cur' = [cur EXCEPT ![e] = 0]
    /\ began' = [began EXCEPT ![e] = <<>>]

\* "api msgID is not FOUND": the request does not go back to RequestPool.
NotFound(e, r) == Release(e) /\ pool' = pool

\* Mutant of Call: the request is recycled before its handler has run.
Call_putFirst(e, r) ==
    /\ xpc' = [xpc EXCEPT ![e] = "handle"]
    /\ cur' = [cur EXCEPT ![e] = r]
    /\ began' = [began EXCEPT ![e] = <<obj[r].conn, obj[r].num>>]
    /\ pool' = IF conf.pool THEN pool \cup {r} ELSE pool

\* The router is found and its handler begins.
Call(e, r) ==
    /\ xpc' = [xpc EXCEPT ![e] = "handle"]
    /\ cur' = [cur EXCEPT ![e] = r]
    /\ began' = [began EXCEPT ![e] = <<obj[r].conn, obj[r].num>>]
    /\ pool' = pool

\* doMsgHandler up to the handler.
doMsgHandler(e, r) == Settle(r) /\ (NotFound(e, r) \/ Call(e, r))

\* A worker takes the next request of its queue.
StartOneWorker(w) ==
    /\ Alive /\ xpc[w] = "idle" /\ queue[w] # <<>>
    /\ queue' = [queue EXCEPT ![w] = Tail(@)]
    /\ doMsgHandler(w, Head(queue[w]))
    /\ UNCHANGED <<conf, usePool, readerVars, obj, fresh>>

\* A goroutine gets to run.
RunGoroutine(r) ==
    /\ Alive /\ xpc[r] = "started"
    /\ doMsgHandler(r, r)
    /\ UNCHANGED <<conf, usePool, readerVars, obj, fresh, queue>>

\* The handler returns and PutRequest recycles the request.
PutRequest(e) ==
    /\ Alive /\ xpc[e] = "handle"
    /\ pool' = IF conf.pool THEN pool \cup {cur[e]} ELSE pool
    /\ Release(e)
    /\ UNCHANGED <<conf, usePool, readerVars, obj, fresh, queue, settled>>

\* Mutant of HandlerPanic: the worker does not survive the panic.
HandlerPanic_noRecover(e) ==
    /\ Alive /\ xpc[e] = "handle"
    /\ xpc' = [xpc EXCEPT ![e] = "gone"]
    /\ UNCHANGED <<conf, usePool, readerVars, objVars, queue, cur, began, settled>>

\* The handler panics: doMsgHandler recovers, without PutRequest.
HandlerPanic(e) ==
    /\ Alive /\ xpc[e] = "handle"
    /\ Release(e)
    /\ UNCHANGED <<conf, usePool, readerVars, objVars, queue, settled>>

\* The handler never returns.
HandlerBlocks(e) ==
    /\ Alive /\ xpc[e] = "handle"
    /\ xpc' = [xpc EXCEPT ![e] = "stuck"]
    /\ UNCHANGED <<conf, usePool, readerVars, objVars, queue, cur, began, settled>>

\* Steps of a worker or goroutine.
Execute(e) ==
    \/ e \in Workers /\ StartOneWorker(e)
    \/ e \in Requests /\ RunGoroutine(e)
    \/ PutRequest(e)
    \/ HandlerPanic(e)
    \/ HandlerBlocks(e)

-----------------------------------------------------------------------------
\* A client of the same process starts: WorkerPoolSize = 0.
ClientRestart ==
    /\ Alive /\ conf.client /\ usePool
    /\ usePool' = FALSE
    /\ UNCHANGED <<conf, readerVars, objVars, execVars, settled>>

\* The connection is stopped.
Stop(c) ==
    /\ Alive /\ ctx[c] = "live"
    /\ ctx' = [ctx EXCEPT ![c] = "done"]
    /\ UNCHANGED <<conf, usePool, rpc, nread, rest, hand, seen, objVars, execVars, settled>>

\* finalizer closes the socket, unless it hangs or a hook has panicked before
\* (modules Heartbeat and Server). Only a reader in Read meets it: the others read
\* no more once the context is done.
CloseSocket(c) ==
    /\ Alive /\ ctx[c] = "done" /\ rpc[c] = "blocked"
    /\ rpc' = [rpc EXCEPT ![c] = "closed"]
    /\ UNCHANGED <<conf, usePool, ctx, nread, rest, hand, seen, objVars, execVars, settled>>

Next ==
    \/ \E c \in Conns : StartReader(c)
    \/ \E c \in Conns, k \in 1..MaxChunk : Read(c, k)
    \/ \E c \in Conns : ReadError(c)
    \/ \E e \in Executors : Execute(e)
    \/ ClientRestart
    \/ \E c \in Conns : Stop(c) \/ CloseSocket(c)

Spec == Init /\ [][Next]_vars

\* What the scheduler runs: readers that are not waiting for the peer, the read of a
\* closed socket, which returns, workers and handlers. A handler does something: it
\* returns, panics, or blocks for good. Each frame costs a bounded number of these
\* steps. Nothing makes finalizer close a socket.
Runnable ==
    \/ \E c \in Conns : StartReader(c)
    \/ \E c \in Conns : rpc[c] = "closed" /\ ReadError(c)
    \/ \E e \in Executors : Execute(e)

FairSpec == Spec /\ WF_vars(Runnable)

-----------------------------------------------------------------------------
(* Properties.                                                             *)

\* Type invariant of the dispatch.
TypeOK ==
    /\ conf \in Configs
    /\ usePool \in BOOLEAN /\ crashed \in BOOLEAN
    /\ ctx \in [Conns -> {"live", "done"}]
    /\ rpc \in [Conns -> {"loop", "blocked", "closed", "chain", "send", "log", "exit"}]
    /\ nread \in [Conns -> Nat] /\ \A c \in Conns : nread[c] <= Quota[c]
    /\ rest \in [Conns -> Nat] /\ \A c \in Conns : rest[c] <= nread[c]
    /\ hand \in [Conns -> Requests \cup {0}]
    /\ seen \in [Conns -> Requests \cup {0}]
    /\ obj \in [Requests -> [conn: Conns \cup {"none"}, num: Nat,
                             resp: {"none", "own", "stale"}]]
    /\ fresh \in Nat
    /\ pool \subseteq Requests
    /\ queue \in [Workers -> Seq(Requests)]
    /\ \A w \in Workers : Len(queue[w]) <= MaxWorkerTaskLen
    /\ xpc \in [Executors -> {"idle", "started", "handle", "stuck"}]
    /\ cur \in [Executors -> Requests \cup {0}]
    /\ settled \in [Conns -> SUBSET Nat]

\* Who has request r.
Owners(r) ==
    {<<"reader", c>> : c \in {d \in Conns : hand[d] = r}}
    \cup {<<"executor", e>> : e \in {x \in Executors : cur[x] = r}}
    \cup {<<"queue", p>> : p \in {q \in Workers \X (1..MaxWorkerTaskLen) :
                                     q[2] <= Len(queue[q[1]]) /\ queue[q[1]][q[2]] = r}}
    \cup (IF r \in pool THEN {<<"pool", 0>>} ELSE {})

\* A request object has one owner at a time, through RequestPool and back: no two
\* goroutines write it, and none has it while it waits to be recycled. One other
\* goroutine may read it: the reader that has queued it, for its log line, when the
\* worker has it already or has recycled it. Without RequestPool the request it
\* reads then is still the one it queued; with the pool it may be that of another
\* connection, whose data the line shows.
RequestExclusive ==
    /\ \A r \in Requests : Cardinality(Owners(r)) <= 1
    /\ ~conf.pool => \A c \in Conns : seen[c] # 0 =>
          obj[seen[c]].conn = c /\ obj[seen[c]].num = nread[c] - rest[c]

\* Mutant of OwnBuffer: the KCP reader reuses its buffer too.
OwnBuffer_reused == conf.framed \/ conf.transport = "ws"

\* Is the data of a message its own? The frame decoder copies each frame, the ws and
\* KCP readers allocate a buffer for each read; the TCP reader has one buffer.
OwnBuffer == conf.framed \/ conf.transport # "tcp"

\* The frame whose bytes a handler of request r reads.
GetData(r) == IF OwnBuffer THEN obj[r].num ELSE nread[obj[r].conn]

\* A handler sees the connection and the bytes of its own request from its beginning
\* to its end, although the reader goes on and requests are recycled; except
\* for a TCP connection without frame decoder, whose reader overwrites the bytes.
DataIntact ==
    ~(conf.transport = "tcp" /\ ~conf.framed) =>
        \A e \in Executors :
            xpc[e] \in {"handle", "stuck"} =>
                began[e] = <<obj[cur[e]].conn, GetData(cur[e])>>

\* A handler finds the response its own data was decoded to, or none, never that of
\* an earlier request of another connection; except that data without header in
\* a recycled request leaves the old response in place.
ResponseOwn ==
    conf.framed \/ ~conf.pool =>
        \A e \in Executors : xpc[e] = "handle" => obj[cur[e]].resp # "stale"

Handling(c) ==
    {e \in Executors : xpc[e] \in {"handle", "stuck"} /\ obj[cur[e]].conn = c}

\* Requests handled at most once, in order and one at a time while the pool is used.
Delivery == INSTANCE OrderedDelivery WITH
    arrived <- [c \in Conns |-> nread[c] - rest[c]],
    running <- [c \in Conns |-> {obj[cur[e]].num : e \in Handling(c)}],
    pooled  <- usePool
Ordered == Delivery!Spec

Stuck(c) == xpc[conf.workerID[c]] = "stuck"

\* Every request taken from a read is handled or dropped, whatever the handlers of
\* other connections do: a handler that blocks for good delays the connections of
\* its own worker only, and a panic delays nobody.
Served ==
    \A c \in Conns : \A m \in 1..Quota[c] :
        m <= nread[c] - rest[c] ~> (m \in settled[c] \/ Stuck(c) \/ crashed)

\* The reader of a stopped connection ends, also when it was waiting for room in
\* the queue, unless the worker of the connection is blocked for good, or the reader
\* is in Read and nobody closes the socket; when that is closed it ends as well.
ReaderEnds ==
    \A c \in Conns :
        ctx[c] = "done" /\ rpc[c] # "blocked" ~> rpc[c] = "exit" \/ Stuck(c) \/ crashed
=============================================================================
