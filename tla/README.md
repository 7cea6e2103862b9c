# Verification of gray

This directory holds a TLA+ model of gray, the Go framework for long-lived
connections (TCP, websocket, KCP) in this repository, with the TLC
configurations that check it on small instances and TLAPS proofs that hold for
every value of its constants.

## 1. The system

| Component (source) | State it keeps | Operations | What makes it correct |
|---|---|---|---|
| Server (`gnet/server.go`) | `cID`, `exitChan`, the configuration | `Start`, one accept loop per listener, one HTTP handler per websocket client, `StartConn`, `Stop` | the connection limit; fresh ids; `Stop` reaches every connection and returns |
| Connection (`gnet/connection.go`, `ws_connecion.go`, `kcp_connection.go`) | `ctx`/`cancel`, `workerID`, `msgBuffChan`, `startWriterFlag`, `isClosed`/`closed`, `msgLock`, `lastActivityTime` | constructor, `Start`, `StartReader`, `StartWriter`, `Send*`, `Stop`, `finalizer`, hooks | ends once, closes its socket, leaves the manager, gives its worker back; what is accepted for sending is sent once, in order |
| Connection manager (`gnet/connmanager.go`) | a sharded map id -> connection | `Add`, `Remove`, `Get`, `Len`, `GetAllConnID`, `ClearConn`, `Range` | every open socket is in it; `ClearConn` stops them all; `Len`, read shard by shard, keeps the limit |
| Sharded map (`gutils/shard_lock_map.go`) | 32 maps, a lock each | `Set`, `Get`, `Remove`, `Count`, `IterBuffered`, `Pop`, ... | operations that span shards see a state that makes sense, and return |
| Message handler and workers (`gnet/msghandler.go`) | `freeWorkers`, `TaskQueue`, `Apis` | `useWorker`, `freeWorker`, `SendMsgToTaskQueue`, `StartOneWorker`, `doMsgHandler` | in Bind mode each connection has its own worker; requests of a connection are handled once and in order |
| Heartbeat checker (`gnet/heartbeat.go`) | `quitChan`, the ticker, one connection | `Start`, `Stop`, `start`, `check`, `SendHeartBeatMsg` | a dead peer is detected; the checker ends before its connection |
| Frame decoder (`ginterceptor/framedecoder.go`) | `in`, `discardingTooLongFrame`, `bytesToDiscard` | `Decode`, `decode` | the frames tile the stream, however it was divided into reads |
| TLV / LTV / HTLV decoders, packing (`gdecoder`, `gpack`) | none | `Intercept`, the length fields, `GetCrC`, `Pack`, `Unpack` | what was packed is decoded again, however the stream was cut |
| Interceptor chain (`ginterceptor/chain.go`, `gnet/chainbuilder.go`) | list of interceptors, a position | `Execute`, `Proceed` | each interceptor runs once |
| Requests and routers (`gnet/request.go`, `router.go`) | `steps`, `needNext`, `index`, `handlers`, the request pool | `Call`, `Goto`, `Abort`, `RouterSlicesNext`, `Copy`, `Reset` | handler steps run in order, `Abort` stops them, a pooled request has one owner |
| Client (`gnet/client.go`) | `conn`, `exitChan`, `ErrChan` | `Start`, `Restart`, `Stop` | `Stop` ends the connection and the goroutine |
| Close callbacks (`gnet/callbacks.go`) | a linked list per connection, a lock | `AddCloseCallback`, `RemoveCloseCallback`, `InvokeCloseCallbacks` | each callback still registered runs once, in order |
| Log file writer (`gutils/writer.go`) | the log file, its backups, a buffer, `size`, `created` | `Write` with rotation, `daemon`, `Close`, `delete` | no accepted line is lost by a rotation, a failing file operation or a crash; recent backups are kept |
| Logging, configuration, options | | | out of scope, see section 7 |

How they interact. An accept loop constructs a connection, which registers
itself in the manager, and starts the goroutine `StartConn`. `Start` runs the
hook `onConnStart`, starts the heartbeat checker and the reader, then waits for
the context and runs `finalizer`, which runs `onConnStop`, stops the checker,
closes the socket, leaves the manager and gives the worker back. The reader
feeds the frame decoder and passes each frame down the chain of interceptors,
whose last one puts the request in the queue of a worker. Handlers, hooks,
heartbeats and other goroutines call the send functions of the connection, the
buffered ones through a channel to a writer goroutine that the first of them
starts. `Server.Stop` cancels every connection and then hands over `exitChan`
to the listener goroutine. A closed connection has its close callbacks
invoked by a goroutine of their own. Every component logs; the log writer may be
the file of `glog`.

What is hard here. Nothing but four kinds of shared state serialises these
goroutines: the shards of the map, `msgLock` of a connection (TCP does not use
one), channels, and atomics. So the hard behaviours are interleavings of
accept, start, end and stop; lock cycles (`msgLock` with `quitChan`); limits
tested at one moment and used at another; channels made, closed and replaced
by racing senders; streams cut at arbitrary places. Only log files are persisted: there
failing file operations and crashes between two of them are part of the model.
Messages are neither duplicated nor reordered by the transports.

## 2. Modules

| Module | Models | Extended by |
|---|---|---|
| `Server` | accept loops, limit, ids, registration, life of a connection, Bind-mode workers, `Server.Stop` | `MCServer`, `ServerProofs` |
| `Heartbeat` | one connection of each transport: checker, reader, `finalizer`, `msgLock`, the peer | `Callbacks` |
| `Callbacks` (extends `Heartbeat`) | the close callbacks of that connection | `MCHeartbeat`, `HeartbeatProofs` |
| `ConnManager` | the connection manager and the sharded map, lock by lock | `MCConnManager`, `ConnManagerProofs` |
| `SendQueue` | one connection of each transport: racing senders, the channel(s), the writer(s), the end | `MCSendQueue`, `SendQueueProofs` |
| `FrameDecoder` | one decoder fed with arbitrary reads | `Decoders` |
| `Decoders` (extends `FrameDecoder`) | the fields of the messages in its frames, the packers | `MCFrameDecoder`, `FrameDecoderProofs` |
| `OrderedDelivery` | abstract: what routers are promised about the requests of a connection | instantiated by `Dispatch`, the refinement proved in `DispatchProofs` |
| `Dispatch` | from the frames of several connections to their routers: request pool, chain, task queues, workers | `MCDispatch`, `DispatchProofs` |
| `Router` | how one request object runs its handlers or its `IRouter`, and is recycled | `MCRouter`, `RouterProofs` |
| `Client` | a client: `Start`, `Restart`, `Stop`, its goroutines, connections and checker | `MCClient`, `ServerProofs` |
| `LogWriter` | the log file writer over a file system that may fail and a process that may crash | `MCLogWriter`, `LogWriterProofs` |

Each component module has its constants with named assumptions, `Init`, one
action per step that another goroutine can see, `Next`, `Spec`, `FairSpec` and
the properties. Operators named `X_variant` before an operator `X` are
deliberate bugs ("Mutant of X"), used to show that each property can fail.

### Server

A connection is a number drawn from `cID`. `apc[a]` is the place of accepting
goroutine `a` (`"tcp"`, `"kcp"`, or one process per concurrent websocket
handler): the limit test (`CheckLimit`), the accept with its id (`TcpAccept`,
`KcpAccept`, `WsUpgrade`), the errors, the registration (`AddConn`). `pc[c]` is
the place of the goroutine `StartConn(c)`: `Start` (which creates the context:
before it `cancel` is nil), the hook, `useWorker`, running, then the four
visible steps of `finalizer` (`callOnConnStop`, `CloseSocket`, `Remove`,
`freeWorker`). The reader is `readers`, whose end calls `Stop`. A hook may panic:
TCP and KCP recover in `Start` and skip the rest, a websocket connection ends
the process. `Server.Stop` reads the shards one by one (`SnapshotShard`), stops
each connection it found (`ClearConn`), then sends on the unbuffered `exitChan`
(`SendExit`), which a listener goroutine must receive (`CloseListener`).

`Count` of the sharded map is one step here. The code adds the shards one after the
other, so that the sum may be a number of connections that never was; that
`ConnLimit` holds all the same is shown in `ConnManager`.

### ConnManager

The map is the set `conns`; `conf.hash` says which shard holds an id. `pc[p]` is the
place of an accept goroutine, a finalizer or a goroutine of user code. `Set` and `Remove` hold
the lock of a shard for one step, and wait (`AwaitLock`) when a `Range` holds it for reading; a
waiting writer (`pending`) admits no new reader, as in Go. `CountShard` adds one
shard to `sum[p]`, `ReadShard` copies one (in any order, since `Keys` and `IterBuffered`
start a goroutine per shard), `RLockShard`, `Callback` and `RUnlock` are the loop of
`IterCb`, which runs the callback of `Range` under the lock. `LogShard` is the `Len` that
`Add`, `Remove` and `ClearConn` call for their log lines: it takes the locks, its result is
not used. `always[p]` and `ever[p]` record what was in the map during the whole and during
some of the current call of `p`.

### Heartbeat

`fpc` is the goroutine of `Start`/`finalizer`, `hpc` the checker. `age` counts
ticker intervals since `lastActivityTime` up to `HBMax`; it starts at `HBMax`
because the field is the zero time until the first `updateActivity`. `tick` is
the ticker's channel of capacity one. `wlock` and `rlock` are the two sides of
`msgLock`; Go's RWMutex lets a waiting writer keep new readers out, so
`wlock = "wait"` blocks `RLock`. The three transports differ in what `finalizer`
does under the lock, in `IsAlive` and in `SendMsg`. The peer may fall silent and
may stop reading, which blocks a write.

### Callbacks

`closeCallback` is the linked list itself: items `1..made`, `first`, `last` and `next`, and
`Walk`, which follows it. `AddCloseCallback` tests `isClosed` and then takes the lock
(`upc[u]`); `Add` and `Remove` are one step under it. After `finalizer` the invoker holds the read lock while
it walks the list (`Invoke`, `CallNext`, `InvokeReturns`), also past items a later `Add`
cannot reach. A callback may panic, which ends the walk, and may add or remove callbacks: it
would wait for its own goroutine's lock, unless `isClosed` makes it return, as it does.
`members` is the set of the items as the callers think of it, numbered in the order of their
additions, and `due` the members when the invoker takes the lock.

### SendQueue

Every `make` of `msgBuffChan` is a channel of its own, with a number and a
writer goroutine: the test for nil and the assignment are two steps. `pc[s]`
follows sender `s` through `SendToQueue` or `SendBuffMsg` (`op[s]`): TCP elects
the creator with an atomic flag, websocket and KCP hold `msgLock` for reading,
`SendBuffMsg` of KCP holds nothing. The select of a sender has three outcomes
(`Enqueue`, `Timeout`, `TcpDone`); sending on or closing a closed channel is
`pc[s] = "panic"`. `accepted` is the order in which calls returned nil, `wire`
what the writers wrote. A write is two steps, `WriterEnter` and `WriterWrite`: in between
the peer may stop reading or reset the connection (`PeerTurns`), the connection may be cancelled, and,
since `Send` of a websocket holds `msgLock` for reading only, the other writer may enter too.
`clash` says that two have met in gorilla's `WriteMessage`, which panics or mixes the frames; from
then on the wire may hold anything of theirs.

### FrameDecoder

A step is one turn of the loop in `Decode`. `Buffer` is the temporary buffer of
`decode` after discard mode has taken its bytes (`Skip`); each exit of `decode` is an
action; a panic ends the decoder and drops the frames of the current call. The
length is computed as the code does, in both byte orders and in the widths the
code supports, with int64 wrap-around at the eighth power of `Base`; the bytes missing of a
too long frame are computed in the same width (`Missing`), so that a negative length panics or, when
the difference wraps, starts discard mode. `MaxFrames` bounds the frames of a call,
since `Decode` loops for ever on a frame of length zero (`Looping`).

### Decoders

`FrameDecoder` cuts the stream with the length fields `TLVField`, `LTVField` and
`HTLVField`, those `GetLengthField` returns. `InterceptTLV`, `InterceptLTV` and
`InterceptHTLV` take the fields of the message out of a frame; `PackTLV`, `PackLTV`
are the packers, `UnpackTLV`, `UnpackLTV` read a header only. The CRC tables and the
exclusive or of two bytes (`ByteXor`, given by the instance) are constants, and so are the bytes of a
uint32 (`UintBytes`, at most the 4 of Go) and the modulus of the uint32 sum `8 + Length`, which wraps.
`DecodedAsSent` quantifies over `Frames`, so the whole path from the reads to the
fields is behind it.

### Dispatch

`rpc[c]` is the place of the reader of connection `c`. It takes the frames of a
read one by one (`rest`), makes a request object of each (`GetRequest`: a fresh
object or one of `RequestPool`, with what `Reset` leaves in it) and holds it
(`hand`) while the chain runs. `GetRequest`, the decoder and the turn of the loop
are one step, since they touch only what the reader owns; a user's interceptor may
withhold the request or panic, and so may the decoder (`ChainPanic`: only
the ws reader lets the panic end the process). `MsgHandler.Intercept` tests the
global `WorkerPoolSize` (`UsePool`, `GoHandler`) and then sends to the worker's
queue, two steps with `ClientRestart` between them. After the send the reader still reads the request
for its log line (`seen`, `LogData`), which may find it recycled; `HandOver` is what both
ways of passing on have in common. An executor is a worker or,
without the pool, the goroutine of a request; it settles its request (`Call`,
`NotFound`) and its handler returns, panics or blocks for good.
`OrderedDelivery` is implemented with `arrived` = frames taken from reads and
`running` = requests whose handler runs. A read returns with bytes, with an error, or
not at all; `CloseSocket` is what `finalizer` may do once the context is done, and nothing makes it. Without a frame decoder the message is the
buffer of the read itself; `GetData` says which frame's bytes a handler sees.

### Router

In slices mode a handler may call `RouterSlicesNext` itself, so `stack` holds the
handlers being executed, the innermost last. `Turn` is one turn of the loop of
`RouterSlicesNext`: the index, an int8, goes up (`Inc`) and is compared with the
length converted to an int8 (`Int8`); a turn is one step because the index is used
by one goroutine. A panic unwinds the stack to `RouterRecovery` if it is the first
handler (`Unwind`). In steps mode `Call` reads `steps` and `needNext` without
`stepLock`, so its loop condition, its switch and the two halves of `next` are
steps of their own (`Loop`, `Switch`, `TestNeedNext`, `next`), and a goroutine that
a handler has started may call `Goto` or `Abort` between them (`HelperGoto`,
`HelperAbort`). `Recycle` is `PutRequest` and `GetRequest` with `Reset`.

### Client

Its state and steps are named apart from those of `Server`, which knows nothing of them, so that
`ServerProofs` can speak of both ends. Each call of `Start` or `Restart` has a number `g`, which names its `exitChan`, its
goroutine (`cpc[g]`), the connection it makes and the goroutine `Connection.Start` it
spawns (`kpc[g]`). `c.conn` and `c.exitChan` are read again where the code reads them,
so a later call may have replaced them. The heartbeat checker is one object for all
connections of the client (`hcConn`, `bound`), and any of its goroutines (`hpc`) may
receive what another connection's `hc.Stop` sends on `quitChan`. `Stop` runs in steps
(`upc`), since dials, hooks that reconnect and other calls come between them. How long
a connection was silent is left open: at any tick the checker may find it dead (`check`) or
send a heartbeat, whose write lasts until `BeatWritten`. `onConnStart` and `onConnStop` return
(`HookReturns`), call `Restart`, or panic, which `Connection.Start` recovers (`HookPanics`): nobody
waits for the context then, or the checker and the socket are left as they are. `misuse`
records the unusual uses of the client that the properties except.

### LogWriter

`Write` holds `w.mu` throughout, so one `pc` says where the current one is; each call of
the file system is a step that may fail (`Fails`, within `MaxFaults`), and `Crash` may come
between any two. A file is the set of lines in it: `cur` is the log file, `log[s]` and
`zip[s]` the backup of stamp `s` in its two forms. `rotate` is `RotateFlush`, `Rename`,
`ZipCreate`, `Zip`, `RemoveLog` and `Open`, and `ret` says what `Write` does next. `Flush` is
`bufio.Writer.Flush` with its sticky error. `Cutoff` compares local times in names with
an instant, as `delete` does. Five histories name the lines that the code loses or may
lose, each for one reason (`quick`, `unzipped`, `unlucky`, `late`, `stray`): the properties except these
lines and no others. Local time never goes back in the model, an assumption of all its properties: a clock
that is set back, or the end of daylight saving, would give the stamp of a backup again, and the next
rotation would overwrite its file. Local time never goes back in the model: a clock that is set back, or the end of
daylight saving, would give the stamp of a backup again, and its file would be overwritten.

## 3. Runs

| Run | Configuration | Instance | What it shows |
|---|---|---|---|
| `server` | `MCServer.cfg` | modes kcp, websocket and the default (TCP beside one websocket handler); Bind; limit 1; with `Stop` and panicking hooks two connections, without them three | `ConnLimit`, `SocketTracked`, `NoWorkerLost`, `StopCancelsAll`, `StopDeletes`, `StopReturns` hold |
| `server_bind` | `MCServerBind.cfg` | TCP, Bind, limit 2, 3 connections | `BindExclusive` is violated (finding 1) |
| `heartbeat` | `MCHeartbeat.cfg` | the three transports, one interval; four calls of `AddCloseCallback` and `RemoveCloseCallback` with two keys; a peer that may stop reading | `CheckerStopsFirst`, `CallbackOrder`, `SilentPeerStopped`, `StopFinishesUnlessStuck`, `CallbacksRun` hold |
| `heartbeat_stop` | `MCHeartbeatStop.cfg` | websocket and KCP, two intervals, a peer that always reads | `StopFinishes` is violated (finding 2) |
| `connmanager` | `MCConnManager.cfg` | two shards, limit 1: two accept goroutines and three connections; one accept goroutine, two connections and a user whose callbacks call `Len` or do not | `ConnLimit`, `SnapshotFaithful`, `OpsReturn` hold |
| `sendqueue` | `MCSendQueue.cfg` | the three transports, two senders (two messages and one), capacity 1, a peer that may stop reading or reset | `ExactlyOnce`, `TcpFifo`, `PanicOnlyWhenOver`, `AcceptedIsSent` hold |
| `framedecoder` | `MCFrameDecoder.cfg` | nine length fields, all streams of up to 9 one-bit bytes in all divisions into reads of up to 4 | `FramesTile`, `NothingWithheld`, `DecodedAsSent`, `DecodeReturns` hold |
| `framedecoder_toolong` | `MCFrameDecoderTooLong.cfg` | the HTLV-CRC field | `TooLongFrameDiscarded` is violated (finding 3) |
| `dispatch` | `MCDispatch.cfg` | framed TCP with `RequestPool` on separate workers, KCP without frame decoder nor pool on one worker, framed ws with the pool on one worker and a client in the process; two requests and one, queues of length 1 | `RequestExclusive`, `DataIntact`, `ResponseOwn`, `Served`, `ReaderEnds` hold; `Ordered`: `Dispatch` implements `OrderedDelivery` |
| `router` | `MCRouter.cfg` | an index of -8..7, chains of 0, 1, 2, 3, 7 and 17 handlers, two calls of `RouterSlicesNext` per handler, two of `Goto`, two requests | `InOrder`, `Complete`, `IndexFits`, `AbortStops`, `StepOrder`, `Finishes` hold |
| `client` | `MCClient.cfg` | with and without heartbeat, two calls of `Start`/`Restart`, one of `Stop`, hooks that panic, heartbeats that block | `PanicOnlyMisuse`, `StopEnds` hold |
| `logwriter` | `MCLogWriter.cfg` | two days of two seconds, a zone one second behind UTC, a size limit of two lines (which the second line of a file reaches, so that it goes to the next), backups of one day, three lines, one failing operation, one crash | `FlushedKept`, `AcceptedKept`, `RecentKept`, `LinesFlushed` hold |

Bounds. With a limit of 1 and two accepting goroutines the default mode can hold two
connections: three are needed to see that it does not hold more (`MaxAccept` = 3, without `Stop` to
keep the run small). Two connections are enough for the races of an ending and a starting
connection and of `Stop` with both; a worker shared by two live ones while a third ends takes three
(`server_bind`). `HBMax` = 1 separates "alive" from
"too old", 2 (`heartbeat_stop`) also "old". Four calls with two keys add three callbacks and
remove the first, the middle, the last or the only one, or remove and add again. In
`connmanager` two shards are the fewest that a count can read at two times, and two accept
goroutines with a limit of 1 overshoot it as far as they can; the user's calls meet a
writer of the shard they hold and of the one they want. Two senders race on everything one connection shares; the
capacity of 1 makes a full channel, a timeout and a blocked select reachable.
In `framedecoder` the 4-byte fields of the TLV and LTV decoders become
2-byte fields over one-bit bytes, the largest frame of which is 7 bytes: 9
bytes hold a complete frame and a part of the next, or several short ones, and
the 8-byte field reaches negative lengths. `ValueOnly`, `TotalLength`,
`HeaderCounted`, `Miscounted`, `Signed` and `Unsupported` are fields a user may give:
with `HeaderCounted` a frame may have the length zero, with `Miscounted` -1. Two frames of length
zero show the loop that delivers them for ever. With `UintMod` = 7 only the longest value
(3 bytes) makes `4 + Length` wrap, and with `MaxPacketSize` = 2 `Unpack` refuses it.
In `dispatch` a queue of length 1 and three requests fill the queue, the worker and
the reader's hand at once; two requests of one connection are the fewest that
can overtake each other, and the third lets a pooled object change its connection.
In `router` a chain of 7, the largest index, wraps after `Abort` and when its handlers
call `RouterSlicesNext`, and the length 17 is converted to 1; two calls of `Goto` are the
fewest that can meet in one `next`. Two starts overlap during a dial, reconnect from a hook
and share the checker, and one connection whose `onConnStop` panics and the next one are enough for
the checker left over. A second `Stop`, which finds the channels closed and is a misuse, is left to the theorem.
In `logwriter` three lines over two days rotate by day and by size, twice in a `Write` at
most; one failure and one crash meet at every pair of places, and the proofs cover any
number.

Deadlock checking is off in all runs: a server that was stopped, a connection
that has ended, senders that have used their quota and a decoder at the end of
its bounded stream, callers that have used their calls, a log that is complete, readers whose connections have ended, a request that was served and a
client that was stopped have nothing left to do.

Fairness. `FairSpec` of `Server` lets runnable goroutines run (one weak
fairness condition on `Runnable`; the bounded number of steps per connection
makes it enough), and assumes nothing of peers or hooks. `FairSpec` of
`Heartbeat` lets the goroutines run and the ticker tick; the meeting of
`hc.Stop` with the checker's select is strongly fair because Go's select chooses
at random among ready cases. `FairSpec` of `SendQueue` only lets the writers
run: a write returns if the peer reads, has reset the connection or the socket was closed, and
`AcceptedIsSent` excepts a peer that does not read. `FairSpec` of `FrameDecoder` lets the loop of `Decode` run.
`FairSpec` of `Dispatch` lets readers, workers and handlers run (a handler may choose
to block for good), and lets the read of a closed socket return. It assumes nothing of peers, nor that
the socket of a stopped connection is ever closed: finding 2, a stalled peer and a hook that panics may
prevent it. So `ReaderEnds` is about readers that are not waiting for their peer.
`FairSpec` of `Router` lets the goroutine of the request run and its handlers return, which
`Finishes` is conditional on. `FairClientSpec` lets goroutines run, dials end and hooks return or
panic; the meeting of `hc.Stop` with a checker is strongly fair as in `Heartbeat`. It assumes
nothing of the user's calls nor that anybody receives from `ErrChan`; that heartbeats are
written in the end is a premise of `StopEnds`, not of the specification.
`FairCloseSpec` adds to `Heartbeat` that the invoker runs. `FairSpec` of `ConnManager` is
fair to each accept loop, which polls for ever, and to the finalizers and callers together,
which take a bounded number of steps; nothing is assumed of peers, but a callback of
`Range` returns. `FairSpec` of `LogWriter` lets a `Write` under way go on and the daemon's
ticker fire.

## 4. Findings

1. `BindExclusive`: in Bind mode `finalizer` removes the connection from the
   manager before its worker is given back, so the accept loop admits the next one,
   which finds no free worker and falls back to the hash of its id
   (`msghandler.go:74`), although `msghandler.go:35` promises a worker per link.
2. `StopFinishes`: `finalizer` of a websocket or KCP connection holds `msgLock`
   while `hc.Stop` waits for the checker, which may itself wait for `msgLock` in
   `SendMsg`. `StopFinishesUnlessStuck` shows that this cycle, and a peer that
   stops reading, are the only reasons.
3. `TooLongFrameDiscarded`: a frame longer than the maximum is dropped from the
   temporary buffer of `decode` only; `d.in` keeps it (`framedecoder.go:168`). A
   complete HTLV-CRC frame with a body of 255 bytes is such a frame, since
   `MaxFrameLength` is 255 + 4.
Smaller observations, modelled but not stated as properties of their own: in mode websocket nobody
receives from `exitChan` (`server.go:412`), so `Server.Stop` blocks for ever (`StopReturns` states both:
it returns in the other modes and never in this one);
a client sets the process-wide `WorkerPoolSize` to 0 (`client.go:116`), after which the requests of a
server in the same process get a goroutine each, in any order (`LosePool`); with a limit of
`MaxConn` the default mode can hold `MaxConn` + (number of concurrent
handlers) - 1 more connections (`ConnLimit` states the exact bound); the KCP accept loop
retries for ever after its listener was closed; the goroutine of `Server.Stop`
panics when it meets a connection that is registered but not started; the
TCP reader without frame decoder overwrites the bytes a handler is reading
(`DataIntact` excludes this case); a recycled request keeps the response of an
earlier one if the decoder sets none (`ResponseOwn`, likewise).

- Router: `next` tests `needNext` outside `stepLock`, so a concurrent `Goto` may lose its
  target or repeat a step (`StepOrder` excepts it). `RouterRecovery` lets the handlers
  behind the one that panicked run. Nested calls of `RouterSlicesNext` in a long chain
  wrap the int8 and panic; `IndexFits` gives a length that is safe. (`Copy`, not
  modelled, sets the index to 127, so that the first turn on a copy wraps.)
- Dispatch: after it has queued a request the reader reads it once more for a log line
  (`msghandler.go:152`); with `RequestPool` it may be that of another connection by then (`RequestExclusive`).
- Buffered sends: two writers of a websocket may be in `WriteMessage` at once, since `Send` shares the
  lock (`ExactlyOnce` says when).
- Frame decoder: with a length field that counts the header and nothing stripped, `Decode` loops for
  ever on a frame of length zero (`DecodeReturns` says exactly then).
- Decoders: a wrong CRC, or a value of 2^32 - 8 bytes or more, makes the decoder panic.
  `MaxPacketSize` is tested by `Unpack` only, which the framework does not call.
- Client: `Restart` after `Stop` followed by a failed dial, a second `Stop`, and a `Stop`
  while the error of a dial was not received panic. `Restart` during a dial may start
  one connection twice, or without a checker, so that a finalizer waits for ever.
  Each `Restart` without `Stop` leaves the earlier goroutine waiting on a channel that
  was replaced. `Stop` blocks if the last dial has failed. A panic of `onConnStop` leaves the checker
  running: when the client reconnects, its next tick may come between `BindConn` and `Start` of the
  new connection and call a nil `cancel`, which ends the process (`Leftover`).

- Close callbacks: one added before `Start` on TCP is silently ignored (`isClosed` is true while `ctx`
  is nil); one whose `AddCloseCallback` passed the test before the end but got the lock after
  the invocation never runs; a callback that panics skips those behind it.
- Connection manager: a callback of `Range` that calls `Len` may wait for ever for a writer that waits
  for the callback's own shard (`Deadlocked`); a slow callback holds up accept loops and finalizers.
- Log writer: a failed flush makes bufio's error sticky, so every `Write` fails until the next rotation; a rotation
  in the second of the file's stamp overwrites an earlier backup; `Zip` drops the error of
  `zw.Close`, after which the only good copy is removed; a backup whose zip failed stays as `.log` for ever, since `delete` knows zip files only;
  a failed reopen loses the lines written until the next rotation, and so does
  `Close` with those between its two halves; `delete` takes local time for UTC.
- Beside the model (read, not checked): `glog`'s Fatal ends the process without a flush, a log hook that
  logs waits for its own lock, and `SetLogFile` replaces the writer without that lock while the old daemon runs on.

## 5. Proofs

The proof modules are checked by TLAPS without any assumption but the named assumptions on
the constants. Where a property is not inductive, `IInv` strengthens it.

- `ServerProofs`. `IInv` strengthens the properties by: which goroutines accept
  in which mode; `LimitInv`, which counts the accepting goroutines that are past the
  limit test together with the manager's connections (the test and the
  registration are two steps, so the count of connections alone is not inductive);
  the ids drawn and not yet registered; the phase of each connection against
  its socket, its place in the manager and its context; and the snapshot of
  `ClearConn` against the connections found at the call of `Stop`. Theorems:
  `TypeCorrect`, `LimitHolds`, `SingleAcceptorLimit`, `SocketsTracked`, `IdsFresh`,
  `WorkersKept`, `StopCancels`, for every limit, number of handlers and mode.
  A second part is about the other side, `Client`.
  That it panics only when misused needs what usual use guarantees (`UsualInv`): `SerialInv`,
  calls of `Restart` are made one after the other, so that at most one dial or connection is under way
  and `c.conn` is its connection, with a context once it runs; `CheckerInv`, the shared checker
  belongs to that connection; `OneChecker`, only it has a checker goroutine, unless a panic of
  `onConnStop` has left one (`CheckerLeft`); `ClientStopInv`, what the places
  of the one `Stop` say about the closed channels. Once a use is unusual nothing is claimed.
  Theorem: `PanicsOnlyOnMisuse`, for any number of calls of `Start`, `Restart` and `Stop`.
- `HeartbeatProofs`. `IInv` relates the places of the two goroutines and the
  lock. Theorems: `TypeCorrect`, `CheckerOrder`, `LockExclusion`.
  The close callbacks add `ListInv`: each member points to the least one above it, `first` is the
  least and `last` the greatest member. `Walk` is a recursive function along `next`; the lemmas
  `Least`, `Induction` and `Recursion` (from the well-foundedness of `<` on the naturals) show that it
  exists and visits the members in ascending order (`WalkSteps`, `WalkMembers`). `InvokeInv` says how
  far the invoker has come. Theorems: `CallbacksInOrder`, for any number of users,
  keys and calls; `CloseImplementsHeartbeat`, that `Callbacks` refines `Heartbeat`, and with it
  `CloseCheckerOrder`.
- `FrameDecoderProofs`. `FramesTile` is not inductive alone: a header must not
  change its meaning when more is read. `Suffix` says that `d.in` is what follows
  the last cut and that every cut has its header within the stream; `NoDiscard` that
  discard mode follows a too long frame. Lemmas on pieces of sequences
  (`PieceOfPiece`, `PieceStable`, `RestGrows`) and on the integers of the length
  (`LengthInt`, `WrapInt`) carry the steps. Theorems: `TypeCorrect`, `Tiling`,
  `DiscardConsistent`, that discard mode takes no byte from `d.in` (the reason for finding 3; no run
  checks it), and `AllDelivered`, that `Decode` returns only when no complete frame is left
  in `d.in`, for every length field, base and stream.
  Of the messages in the frames: `FramedInv` says that each frame delivered is as long as its own
  header says. The digits of a number below `Base^UintBytes` are its bytes (`Carry`, `TwoDigits` to
  `FourDigits`, `RoundTrip`), so a field that is read and packed again is the same bytes; with the cut of a
  frame into its fields (`FrameCut`, one lemma per layout: `TLVFrame`, `LTVFrame`, `HTLVFrame`) this gives
  the theorem `PackedArrives`.
- `RouterProofs`. `InOrder` does not say what the index is, so it is not inductive.
  `ChainInv` adds that, as long as another handler can begin, the index is one less than
  the number of handlers begun and nobody has aborted, or else that it has just wrapped
  to the lowest int8, where Go panics and only `RouterRecovery` goes on; `StepsInv` that after `Abort` an `IRouter` has `steps` at
  `HANDLE_OVER` or above. `RanAllInv`: unless aborted or unwound, a loop of the chain ends after the
  last handler only. `IndexInv` counts the turns after the end of the chain: every handler of `stack` but
  the innermost is in a call of `RouterSlicesNext`, and each call still to come raises the index by
  one (`Balance`, `Room`), which bounds it by `handlers * (MaxNext + 1)`. For an `IRouter`, `OrderInv` says at
  each place of `Call` and `next` which step `steps` stands for, and `CountInv` that without `Goto` it
  counts the steps begun. Lemmas on `Int8` and `Inc` carry the arithmetic. Theorems:
  `TypeCorrect`, `ChainInOrder`, `AbortIsFinal`, `AllRun`, `IndexInRange`, `StepsInOrder`, for every
  width of the index, chain and bound.

- `SendQueueProofs`. `ExactlyOnce` needs to know where an accepted message is: `OnceInv` says that the
  wire, the writers' hands and the channels hold accepted messages, no message twice
  (`Located`, `Present`), as long as no two writers of a websocket have met (`ClashInv`: only after two channels were
  made). `MakeInv` bounds the channels made by the senders, `EndInv` ties
  the closing of channels to the end of the connection and the lock. For TCP, `FifoInv` says that one
  sender makes the only channel and that `accepted` is the wire, the writer's hand and the
  channel, one behind the other. Theorems: `TypeCorrect`, `AcceptedOnce`, `TcpInOrder`,
  `PanicAtEnd`, for every number of senders, messages and every capacity.
- `ConnManagerProofs`. `ConnLimit` rests on counts that may be wrong about the present. `CountInv` says
  that a count under way is between `always` and `ever` for the shards it has read, `SeenInv`
  the same of iterations. `LimitInv`: leave out the latest connection of each accept
  goroutine that is admitted or up to date with a count of its own; then the limit holds with no slack,
  because the goroutine that was admitted last counted all the others. `OrderInv` orders the counts under way
  by their start. Theorems: `TypeCorrect`, `LimitHolds`, `SnapshotsFaithful`, for every
  number of shards, goroutines and connections and every hash function.
- `LogWriterProofs`. `StampInv` says that every backup that counts has a stamp older than whatever
  may name the next one (the modification time of the file, `created`, `rnow` or the clock, depending on
  the place in the rotation), so that a rename overwrites nothing; `RotateInv` that what is removed
  is elsewhere; `BufferInv` that a buffer that cannot be flushed holds lines noted as lost;
  `LineInv` and `DayInv` that a line is in a file of its day or a later one, which with the
  arithmetic of days (`DayShift`) gives `RecentKept`. Theorems: `TypeCorrect`,
  `FlushedStays`, `AcceptedStays`, `RecentStays`, for every number of failures and crashes.

- `DispatchProofs`. `RequestExclusive` and `Ordered` speak of where a request is, and many
  actions move one; so each step is first shown to be one of
  eight moves (`StepMoves`: a request is taken from the pool, discarded, handed to a goroutine,
  sent to a queue, taken from it, run, finished, or nothing moves), and the rest of the argument is per
  move. `PlaceInv` ties the place of a reader or an executor to whether it holds a request;
  `HandsInv`, `QueuesInv` and `FreeInv` say that the readers, the executors, the queues and the pool share
  none; `SeenInv` that without the pool the request a reader logs after queueing it is still its own;
  `ResponseInv` where a response may be left over. `StateInv` says that a waiting
  request is of a frame taken and not yet handled, `OnceInv` that no frame is in two requests and
  each queue holds the frames of a connection in order, `PoolInv` that while the pool of workers is used
  every frame that waits is with the reader or in the queue of the worker of its connection. Theorems: `TypeCorrect`,
  `Exclusive`, `Intact`, `OwnResponse` and `Implements`, which shows that the initial
  states and every move of `Dispatch` map to `OrderedDelivery` (or stutter), for every number of
  connections, workers and requests and every queue length.

Every safety invariant and action property of the passing runs is proved. Only model-checked: liveness under fairness, for which
the prover the prover has no rules (`StopDeletes` and `StopReturns` of `Server`, `SilentPeerStopped`,
`StopFinishesUnlessStuck`, `CallbacksRun`, `OpsReturn`, `AcceptedIsSent`, `DecodeReturns`, `Served`,
`ReaderEnds`, `Finishes`, `StopEnds`, `LinesFlushed`), with the `[]` conjuncts of `StopReturns` and
`DecodeReturns`, which say when `Stop` and `Decode` never return, and the three violations. `ByteXor` is only an operator to
the prover, and the CRC tables only functions on bytes: that the CRC finds the errors it is
meant to find is not claimed. A uint32 of more than four bytes is excluded by `UintAssumption`.

## 6. Plan

In order of importance; all but the last two points are done.

1. `Server`: accept, limit, life of a connection, workers, `Stop`.
2. `Heartbeat`: checker, lock and end of a connection.
3. `SendQueue`: the buffered send path.
4. `FrameDecoder`, `Decoders`: the stream into frames, a frame into its fields.
5. `Dispatch`, implementing an abstract `OrderedDelivery` (each request of a
   connection handled once, in order): reader, chain of interceptors, `TaskQueue`,
   workers, the request pool, `WorkerPoolSize` set to 0 by a client in the same
   process.
6. `Router`: the steps of `Request.Call` with `Goto` and `Abort`, and the int8
   index of `RouterSlicesNext`.
7. `Client`: `Start`, `Restart`, `Stop` against the dial.
8. `ConnManager`: operations that span shards against updates of single keys, and
   `Count` shard by shard under `ConnLimit`.
9. `Callbacks` on top of `Heartbeat`; `LogWriter` with its file system.
10. Proofs of `SendQueue`, `ConnManager` and `LogWriter`.
11. Proofs of `Dispatch`, its refinement of `OrderedDelivery` first.
12. Proofs of what was only model-checked: `Complete`, `IndexFits`, `StepOrder`, `CallbackOrder`,
    `NothingWithheld`, `DecodedAsSent`, `PanicOnlyMisuse`.
13. Abstract specifications of the buffered send path and of the frame decoder, with proofs that
    `SendQueue` and `FrameDecoder` implement them.
14. `Copy` of a request, the registration of routers.

## 7. Not modelled

Configuration loading, logging up to its file writer, the packer factory, TLS
and HTTP set-up, option setters, the logo: sequential code or pure I/O whose values
enter the models as constants. The property map of a connection is a plain locked
map. The delay of `acceptdelay.go` changes no state. A second `Start` of a client,
which adds the decoder to its chain twice, is left out of `Client`. The operations of the
sharded map that no other component uses (`SetNX`, `MSet`, `Pop`, `RemoveCb`, `Clear`, the JSON form)
are left out of `ConnManager`, the setters and the copy to the console out of `LogWriter`. `Copy` of a
request and the registration of routers are not modelled.
