--------------------------- MODULE DispatchProofs ----------------------------
(***************************************************************************)
(* Proofs about module Dispatch, for every set of connections and workers, *)
(* every number of frames and every length of the queues; in particular    *)
(* that it implements OrderedDelivery.                                     *)
(***************************************************************************)
EXTENDS Dispatch, FiniteSetTheorems, SequenceTheorems, TLAPS

\* Where a reader or an executor is, and whether it has a request.
PlaceInv ==
    /\ \A c \in Conns : hand[c] # 0 <=> rpc[c] \in {"chain", "send"}
    /\ \A c \in Conns : seen[c] # 0 <=> rpc[c] = "log"
    /\ \A c \in Conns : rpc[c] \in {"blocked", "closed"} => rest[c] = 0
    /\ \A e \in Executors : cur[e] = 0 <=> xpc[e] = "idle"
    /\ \A r \in Requests : cur[r] \in {0, r}
    /\ \A w \in Workers : xpc[w] # "started"
    /\ DOMAIN began = Executors

\* The readers, the executors, the queues and the pool share no request.
HandsInv ==
    /\ \A c, d \in Conns : hand[c] = hand[d] /\ hand[c] # 0 => c = d
    /\ \A e, f \in Executors : cur[e] = cur[f] /\ cur[e] # 0 => e = f
    /\ \A c \in Conns, e \in Executors : hand[c] = cur[e] => hand[c] = 0

QueuesInv ==
    /\ \A v, w \in Workers : \A i \in 1..Len(queue[v]), j \in 1..Len(queue[w]) :
          queue[v][i] = queue[w][j] => v = w /\ i = j
    /\ \A w \in Workers : \A i \in 1..Len(queue[w]) :
          /\ \A c \in Conns : hand[c] # queue[w][i]
          /\ \A e \in Executors : cur[e] # queue[w][i]

\* What is in the pool, or was never used, is nowhere else.
FreeInv ==
    /\ fresh \in Nat /\ fresh > 0
    /\ \A c \in Conns : hand[c] \notin pool /\ hand[c] < fresh
    /\ \A e \in Executors : cur[e] \notin pool /\ cur[e] < fresh
    /\ \A w \in Workers : \A i \in 1..Len(queue[w]) :
          queue[w][i] \notin pool /\ queue[w][i] < fresh
    /\ \A r \in pool : r < fresh

\* The number of the last frame taken from a read.
taken == [c \in Conns |-> nread[c] - rest[c]]

\* The request a reader has still to log is the last one it queued, unless that object
\* has been recycled.
SeenInv ==
    /\ \A c \in Conns : seen[c] < fresh
    /\ ~conf.pool => \A c \in Conns : seen[c] # 0 =>
          obj[seen[c]].conn = c /\ obj[seen[c]].num = taken[c]

\* The responses of request objects.
ResponseInv ==
    /\ ~conf.pool => pool = {}
    /\ \A r \in Requests : r >= fresh => obj[r].resp = "none"
    /\ conf.framed \/ ~conf.pool => \A r \in Requests : obj[r].resp # "stale"

\* Request r is of a frame that was taken and not settled.
Waiting(r) ==
    /\ obj[r].conn \in Conns
    /\ obj[r].num \in 1..taken[obj[r].conn]
    /\ obj[r].num \notin settled[obj[r].conn]

Busy == {e \in Executors : xpc[e] \in {"handle", "stuck"}}
Started == {e \in Executors : xpc[e] = "started"}

\* Request r is of a frame that was settled.
Begun(r) ==
    /\ obj[r].conn \in Conns
    /\ obj[r].num \in settled[obj[r].conn]

Same(r, s) == obj[r].conn = obj[s].conn /\ obj[r].num = obj[s].num

\* What waits is not settled, what is handled is; a reader holds the last frame taken.
StateInv ==
    /\ \A c \in Conns : settled[c] \subseteq 1..taken[c]
    /\ \A c \in Conns : hand[c] # 0 =>
          Waiting(hand[c]) /\ obj[hand[c]].conn = c /\ obj[hand[c]].num = taken[c]
    /\ \A w \in Workers : \A i \in 1..Len(queue[w]) :
          Waiting(queue[w][i]) /\ conf.workerID[obj[queue[w][i]].conn] = w
    /\ \A e \in Started : Waiting(cur[e])
    /\ \A e \in Busy : Begun(cur[e]) /\ began[e] = <<obj[cur[e]].conn, obj[cur[e]].num>>

\* No frame is in two requests; the queues are in the order of the frames.
OnceInv ==
    /\ \A c \in Conns : hand[c] # 0 =>
          /\ \A w \in Workers : \A i \in 1..Len(queue[w]) : ~Same(hand[c], queue[w][i])
          /\ \A e \in Started : ~Same(hand[c], cur[e])
    /\ \A e \in Started, w \in Workers : \A i \in 1..Len(queue[w]) :
          ~Same(cur[e], queue[w][i])
    /\ \A e, f \in Started : e # f => ~Same(cur[e], cur[f])
    /\ \A e, f \in Busy : e # f => ~Same(cur[e], cur[f])
    /\ \A w \in Workers : \A i, j \in 1..Len(queue[w]) :
          i < j /\ obj[queue[w][i]].conn = obj[queue[w][j]].conn =>
              obj[queue[w][i]].num < obj[queue[w][j]].num

\* With the pool, what waits is with the reader or in the queue of the worker of the
\* connection, and only that worker handles requests of the connection.
PoolInv ==
    usePool =>
        /\ Started = {}
        /\ \A e \in Busy : e = conf.workerID[obj[cur[e]].conn]
        /\ \A c \in Conns : \A m \in (1..taken[c]) \ settled[c] :
              \/ hand[c] # 0 /\ m = taken[c]
              \/ \E i \in 1..Len(queue[conf.workerID[c]]) :
                    LET r == queue[conf.workerID[c]][i]
                    IN  obj[r].conn = c /\ obj[r].num = m

-----------------------------------------------------------------------------
(* Types.                                                                  *)

\* The type invariant in parts.
ReaderType ==
    /\ conf \in Configs
    /\ ctx \in [Conns -> {"live", "done"}]
    /\ rpc \in [Conns -> {"loop", "blocked", "closed", "chain", "send", "log", "exit"}]
    /\ hand \in [Conns -> Requests \cup {0}]
    /\ seen \in [Conns -> Requests \cup {0}]

CountType ==
    /\ nread \in [Conns -> Nat] /\ \A c \in Conns : nread[c] <= Quota[c]
    /\ rest \in [Conns -> Nat] /\ \A c \in Conns : rest[c] <= nread[c]

FlagType == usePool \in BOOLEAN /\ crashed \in BOOLEAN

RequestRecords ==
    [conn: Conns \cup {"none"}, num: Nat, resp: {"none", "own", "stale"}]

ObjType ==
    /\ obj \in [Requests -> RequestRecords]
    /\ fresh \in Nat
    /\ pool \subseteq Requests
    /\ settled \in [Conns -> SUBSET Nat]

QueueType ==
    /\ queue \in [Workers -> Seq(Requests)]
    /\ \A w \in Workers : Len(queue[w]) <= MaxWorkerTaskLen

ExecType ==
    /\ xpc \in [Executors -> {"idle", "started", "handle", "stuck"}]
    /\ cur \in [Executors -> Requests \cup {0}]

Basis == ReaderType /\ CountType /\ ObjType /\ QueueType /\ ExecType /\ PlaceInv

\* The inductive invariant.
IInv == /\ Basis /\ FlagType
        /\ HandsInv /\ QueuesInv /\ FreeInv
        /\ SeenInv /\ ResponseInv
        /\ StateInv /\ OnceInv /\ PoolInv

\* The request objects are finitely many.
LEMMA FramesFinite == IsFiniteSet(Frames)
<1> DEFINE OfConn(c) == {c} \X (1..Quota[c])
           Families == {OfConn(c) : c \in Conns}
           f == [c \in Conns |-> OfConn(c)]
<1>1. \A c \in Conns : IsFiniteSet(OfConn(c))
  <2> SUFFICES ASSUME NEW c \in Conns PROVE IsFiniteSet(OfConn(c))
    OBVIOUS
  <2>1. IsFiniteSet({c})
    BY FS_Singleton
  <2>2. Quota[c] \in Int /\ 1 \in Int
    BY LimitAssumption
  <2>3. IsFiniteSet(1..Quota[c])
    BY <2>2, FS_Interval
  <2> QED
    BY <2>1, <2>3, FS_Product
<1>2. f \in Surjection(Conns, Families)
  BY DEF Surjection
<1>3. IsFiniteSet(Families)
  BY <1>2, ConnsAssumption, FS_Surjection
<1>4. IsFiniteSet(UNION Families)
  BY <1>1, <1>3, FS_UNION
<1> QED
  BY <1>4 DEF Frames

\* Request objects are positive numbers, and no workers.
LEMMA RequestFacts ==
    /\ \A r \in Requests : r \in Nat /\ r > 0
    /\ 0 \notin Requests
    /\ Workers \cap Requests = {}
    /\ Executors = Workers \cup Requests
<1>1. Cardinality(Frames) \in Nat
  BY FramesFinite, FS_CardinalityType
<1>2. \A r \in Requests : r \in Nat /\ r > 0
  BY <1>1 DEF Requests
<1> QED
  BY <1>2, WorkersAssumption DEF Executors

\* A message leaves a queue at its head and enters it at its end.
LEMMA TailFacts ==
    ASSUME NEW q \in Seq(Requests), q # <<>>
    PROVE  /\ Len(q) \in Nat /\ Len(q) > 0 /\ Head(q) = q[1] /\ q[1] \in Requests
           /\ Tail(q) \in Seq(Requests) /\ Len(Tail(q)) = Len(q) - 1
           /\ \A i \in 1..Len(Tail(q)) : Tail(q)[i] = q[i + 1] /\ i + 1 \in 1..Len(q)
OBVIOUS

LEMMA AppendFacts ==
    ASSUME NEW q \in Seq(Requests), NEW r \in Requests
    PROVE  /\ Append(q, r) \in Seq(Requests) /\ Len(Append(q, r)) = Len(q) + 1
           /\ \A i \in 1..Len(q) : Append(q, r)[i] = q[i]
           /\ Append(q, r)[Len(q) + 1] = r
OBVIOUS

\* A step keeps who has a request.
LEMMA PlaceStep ==
    ASSUME ReaderType, QueueType, ExecType, PlaceInv, [Next]_vars
    PROVE  PlaceInv'
<1> USE RequestFacts
       DEF ReaderType, QueueType, ExecType, PlaceInv, readerVars, objVars, execVars,
           Alive
<1>1. ASSUME NEW c \in Conns, EnterRead(c)
     PROVE  PlaceInv'
  BY <1>1 DEF EnterRead
<1>2. ASSUME NEW c \in Conns, ReaderDone(c)
     PROVE  PlaceInv'
  BY <1>2 DEF ReaderDone
<1>3. ASSUME NEW c \in Conns, GetRequest(c)
     PROVE  PlaceInv'
  BY <1>3 DEF GetRequest, Intercept, Reset
<1>4. ASSUME NEW c \in Conns, Withhold(c)
     PROVE  PlaceInv'
  BY <1>4 DEF Withhold, Settle
<1>5. ASSUME NEW c \in Conns, ChainPanic(c)
     PROVE  PlaceInv'
  BY <1>5 DEF ChainPanic, Settle
<1>6. ASSUME NEW c \in Conns, UsePool(c)
     PROVE  PlaceInv'
  BY <1>6 DEF UsePool
<1>7. ASSUME NEW c \in Conns, GoHandler(c)
     PROVE  PlaceInv'
  BY <1>7 DEF GoHandler, Pass
<1>8. ASSUME NEW c \in Conns, SendMsgToTaskQueue(c)
     PROVE  PlaceInv'
  BY <1>8 DEF SendMsgToTaskQueue, HandOver
<1>9. ASSUME NEW c \in Conns, NEW k \in 1..MaxChunk, Read(c, k)
     PROVE  PlaceInv'
  BY <1>9 DEF Read, InRead
<1>10. ASSUME NEW c \in Conns, ReadError(c)
     PROVE  PlaceInv'
  BY <1>10 DEF ReadError, InRead
<1>11. ASSUME NEW w \in Workers, StartOneWorker(w)
     PROVE  PlaceInv'
  <2> DEFINE q == Head(queue[w])
  <2>1. q \in Requests
    BY <1>11, TailFacts DEF StartOneWorker
  <2> HIDE DEF q
  <2>2. /\ hand' = hand /\ seen' = seen /\ rpc' = rpc /\ rest' = rest
        /\ \/ cur' = [cur EXCEPT ![w] = 0] /\ xpc' = [xpc EXCEPT ![w] = "idle"]
           \/ cur' = [cur EXCEPT ![w] = q] /\ xpc' = [xpc EXCEPT ![w] = "handle"]
    BY <1>11 DEF StartOneWorker, doMsgHandler, Settle, NotFound, Call, Release, q
  <2>3. (\A e \in Executors : cur[e] = 0 <=> xpc[e] = "idle")'
    <3>1. w \in Executors /\ q # 0
      BY <2>1
    <3>2. CASE cur' = [cur EXCEPT ![w] = 0] /\ xpc' = [xpc EXCEPT ![w] = "idle"]
      BY <3>1, <3>2
    <3>3. CASE cur' = [cur EXCEPT ![w] = q] /\ xpc' = [xpc EXCEPT ![w] = "handle"]
      BY <3>1, <3>3
    <3> QED
      BY <2>2, <3>2, <3>3
  <2>4. (\A r \in Requests : cur[r] \in {0, r})'
    BY SMTT(60), <2>1, <2>2
  <2>5. (\A v \in Workers : xpc[v] # "started")'
    BY <2>1, <2>2
  <2>6. (DOMAIN began = Executors)'
    BY <1>11 DEF StartOneWorker, doMsgHandler, Settle, NotFound, Call, Release
  <2> QED
    BY <2>2, <2>3, <2>4, <2>5, <2>6
<1>12. ASSUME NEW r \in Requests, RunGoroutine(r)
     PROVE  PlaceInv'
  <2>1. /\ hand' = hand /\ seen' = seen /\ rpc' = rpc /\ rest' = rest
        /\ \/ cur' = [cur EXCEPT ![r] = 0] /\ xpc' = [xpc EXCEPT ![r] = "idle"]
           \/ cur' = [cur EXCEPT ![r] = r] /\ xpc' = [xpc EXCEPT ![r] = "handle"]
    BY <1>12 DEF RunGoroutine, doMsgHandler, Settle, NotFound, Call, Release
  <2>3. (\A e \in Executors : cur[e] = 0 <=> xpc[e] = "idle")'
    BY <2>1
  <2>4. (\A s \in Requests : cur[s] \in {0, s})'
    BY <2>1
  <2>5. (\A v \in Workers : xpc[v] # "started")'
    BY <2>1
  <2>6. (DOMAIN began = Executors)'
    BY <1>12 DEF RunGoroutine, doMsgHandler, Settle, NotFound, Call, Release
  <2> QED
    BY <2>1, <2>3, <2>4, <2>5, <2>6
<1>13. ASSUME NEW e \in Executors, PutRequest(e)
     PROVE  PlaceInv'
  BY <1>13 DEF PutRequest, Release
<1>14. ASSUME NEW e \in Executors, HandlerPanic(e)
     PROVE  PlaceInv'
  BY <1>14 DEF HandlerPanic, Release
<1>15. ASSUME NEW e \in Executors, HandlerBlocks(e)
     PROVE  PlaceInv'
  BY <1>15 DEF HandlerBlocks
<1>16. CASE ClientRestart
  BY <1>16 DEF ClientRestart
<1>17. ASSUME NEW c \in Conns, Stop(c)
     PROVE  PlaceInv'
  BY <1>17 DEF Stop
<1>19. ASSUME NEW c \in Conns, LogData(c)
     PROVE  PlaceInv'
  BY <1>19 DEF LogData
<1>20. ASSUME NEW c \in Conns, CloseSocket(c)
     PROVE  PlaceInv'
  BY <1>20 DEF CloseSocket
<1>18. CASE UNCHANGED vars
  BY <1>18 DEF vars
<1> QED
  BY <1>1, <1>2, <1>3, <1>4, <1>5, <1>6, <1>7, <1>8, <1>9,
     <1>10, <1>11, <1>12, <1>13, <1>14, <1>15, <1>16, <1>17, <1>18, <1>19,
     <1>20 DEF Next, StartReader, Execute

\* A step keeps the types of this part.
LEMMA ReaderStep ==
    ASSUME ReaderType, PlaceInv, [Next]_vars
    PROVE  ReaderType'
<1> USE RequestFacts, LimitAssumption
       DEF ReaderType, PlaceInv, readerVars, objVars, execVars, Alive
<1>1. ASSUME NEW c \in Conns, EnterRead(c)
     PROVE  ReaderType'
  BY <1>1 DEF EnterRead
<1>2. ASSUME NEW c \in Conns, ReaderDone(c)
     PROVE  ReaderType'
  BY <1>2 DEF ReaderDone
<1>3. ASSUME NEW c \in Conns, GetRequest(c)
     PROVE  ReaderType'
  BY <1>3 DEF GetRequest, Intercept, Reset
<1>4. ASSUME NEW c \in Conns, Withhold(c)
     PROVE  ReaderType'
  BY <1>4 DEF Withhold, Settle
<1>5. ASSUME NEW c \in Conns, ChainPanic(c)
     PROVE  ReaderType'
  BY <1>5 DEF ChainPanic, Settle
<1>6. ASSUME NEW c \in Conns, UsePool(c)
     PROVE  ReaderType'
  BY <1>6 DEF UsePool
<1>7. ASSUME NEW c \in Conns, GoHandler(c)
     PROVE  ReaderType'
  BY <1>7 DEF GoHandler, Pass
<1>8. ASSUME NEW c \in Conns, SendMsgToTaskQueue(c)
     PROVE  ReaderType'
  BY <1>8 DEF SendMsgToTaskQueue, HandOver
<1>9. ASSUME NEW c \in Conns, NEW k \in 1..MaxChunk, Read(c, k)
     PROVE  ReaderType'
  BY <1>9 DEF Read, InRead
<1>10. ASSUME NEW c \in Conns, ReadError(c)
     PROVE  ReaderType'
  BY <1>10 DEF ReadError, InRead
<1>11. ASSUME NEW w \in Workers, StartOneWorker(w)
     PROVE  ReaderType'
  BY <1>11 DEF StartOneWorker, doMsgHandler, Settle, NotFound, Call, Release
<1>12. ASSUME NEW r \in Requests, RunGoroutine(r)
     PROVE  ReaderType'
  BY <1>12 DEF RunGoroutine, doMsgHandler, Settle, NotFound, Call, Release
<1>13. ASSUME NEW e \in Executors, PutRequest(e)
     PROVE  ReaderType'
  BY <1>13 DEF PutRequest, Release
<1>14. ASSUME NEW e \in Executors, HandlerPanic(e)
     PROVE  ReaderType'
  BY <1>14 DEF HandlerPanic, Release
<1>15. ASSUME NEW e \in Executors, HandlerBlocks(e)
     PROVE  ReaderType'
  BY <1>15 DEF HandlerBlocks
<1>16. CASE ClientRestart
  BY <1>16 DEF ClientRestart
<1>17. ASSUME NEW c \in Conns, Stop(c)
     PROVE  ReaderType'
  BY <1>17 DEF Stop
<1>19. ASSUME NEW c \in Conns, LogData(c)
     PROVE  ReaderType'
  BY <1>19 DEF LogData
<1>20. ASSUME NEW c \in Conns, CloseSocket(c)
     PROVE  ReaderType'
  BY <1>20 DEF CloseSocket
<1>18. CASE UNCHANGED vars
  BY <1>18 DEF vars
<1> QED
  BY <1>1, <1>2, <1>3, <1>4, <1>5, <1>6, <1>7, <1>8, <1>9,
     <1>10, <1>11, <1>12, <1>13, <1>14, <1>15, <1>16, <1>17, <1>18, <1>19,
     <1>20 DEF Next, StartReader, Execute

\* A step keeps the types of this part.
LEMMA CountStep ==
    ASSUME CountType, PlaceInv, [Next]_vars
    PROVE  CountType'
<1> USE RequestFacts, LimitAssumption
       DEF CountType, PlaceInv, readerVars, objVars, execVars, Alive
<1>1. ASSUME NEW c \in Conns, EnterRead(c)
     PROVE  CountType'
  BY <1>1 DEF EnterRead
<1>2. ASSUME NEW c \in Conns, ReaderDone(c)
     PROVE  CountType'
  BY <1>2 DEF ReaderDone
<1>3. ASSUME NEW c \in Conns, GetRequest(c)
     PROVE  CountType'
  BY <1>3 DEF GetRequest, Intercept, Reset
<1>4. ASSUME NEW c \in Conns, Withhold(c)
     PROVE  CountType'
  BY <1>4 DEF Withhold, Settle
<1>5. ASSUME NEW c \in Conns, ChainPanic(c)
     PROVE  CountType'
  BY <1>5 DEF ChainPanic, Settle
<1>6. ASSUME NEW c \in Conns, UsePool(c)
     PROVE  CountType'
  BY <1>6 DEF UsePool
<1>7. ASSUME NEW c \in Conns, GoHandler(c)
     PROVE  CountType'
  BY <1>7 DEF GoHandler, Pass
<1>8. ASSUME NEW c \in Conns, SendMsgToTaskQueue(c)
     PROVE  CountType'
  BY <1>8 DEF SendMsgToTaskQueue, HandOver
<1>9. ASSUME NEW c \in Conns, NEW k \in 1..MaxChunk, Read(c, k)
     PROVE  CountType'
  BY <1>9 DEF Read, InRead
<1>10. ASSUME NEW c \in Conns, ReadError(c)
     PROVE  CountType'
  BY <1>10 DEF ReadError, InRead
<1>11. ASSUME NEW w \in Workers, StartOneWorker(w)
     PROVE  CountType'
  BY <1>11 DEF StartOneWorker, doMsgHandler, Settle, NotFound, Call, Release
<1>12. ASSUME NEW r \in Requests, RunGoroutine(r)
     PROVE  CountType'
  BY <1>12 DEF RunGoroutine, doMsgHandler, Settle, NotFound, Call, Release
<1>13. ASSUME NEW e \in Executors, PutRequest(e)
     PROVE  CountType'
  BY <1>13 DEF PutRequest, Release
<1>14. ASSUME NEW e \in Executors, HandlerPanic(e)
     PROVE  CountType'
  BY <1>14 DEF HandlerPanic, Release
<1>15. ASSUME NEW e \in Executors, HandlerBlocks(e)
     PROVE  CountType'
  BY <1>15 DEF HandlerBlocks
<1>16. CASE ClientRestart
  BY <1>16 DEF ClientRestart
<1>17. ASSUME NEW c \in Conns, Stop(c)
     PROVE  CountType'
  BY <1>17 DEF Stop
<1>19. ASSUME NEW c \in Conns, LogData(c)
     PROVE  CountType'
  BY <1>19 DEF LogData
<1>20. ASSUME NEW c \in Conns, CloseSocket(c)
     PROVE  CountType'
  BY <1>20 DEF CloseSocket
<1>18. CASE UNCHANGED vars
  BY <1>18 DEF vars
<1> QED
  BY <1>1, <1>2, <1>3, <1>4, <1>5, <1>6, <1>7, <1>8, <1>9,
     <1>10, <1>11, <1>12, <1>13, <1>14, <1>15, <1>16, <1>17, <1>18, <1>19,
     <1>20 DEF Next, StartReader, Execute

\* A step keeps the types of this part.
LEMMA FlagStep ==
    ASSUME FlagType, PlaceInv, [Next]_vars
    PROVE  FlagType'
<1> USE RequestFacts, LimitAssumption
       DEF FlagType, PlaceInv, readerVars, objVars, execVars, Alive
<1>1. ASSUME NEW c \in Conns, EnterRead(c)
     PROVE  FlagType'
  BY <1>1 DEF EnterRead
<1>2. ASSUME NEW c \in Conns, ReaderDone(c)
     PROVE  FlagType'
  BY <1>2 DEF ReaderDone
<1>3. ASSUME NEW c \in Conns, GetRequest(c)
     PROVE  FlagType'
  BY <1>3 DEF GetRequest, Intercept, Reset
<1>4. ASSUME NEW c \in Conns, Withhold(c)
     PROVE  FlagType'
  BY <1>4 DEF Withhold, Settle
<1>5. ASSUME NEW c \in Conns, ChainPanic(c)
     PROVE  FlagType'
  BY <1>5 DEF ChainPanic, Settle
<1>6. ASSUME NEW c \in Conns, UsePool(c)
     PROVE  FlagType'
  BY <1>6 DEF UsePool
<1>7. ASSUME NEW c \in Conns, GoHandler(c)
     PROVE  FlagType'
  BY <1>7 DEF GoHandler, Pass
<1>8. ASSUME NEW c \in Conns, SendMsgToTaskQueue(c)
     PROVE  FlagType'
  BY <1>8 DEF SendMsgToTaskQueue, HandOver
<1>9. ASSUME NEW c \in Conns, NEW k \in 1..MaxChunk, Read(c, k)
     PROVE  FlagType'
  BY <1>9 DEF Read, InRead
<1>10. ASSUME NEW c \in Conns, ReadError(c)
     PROVE  FlagType'
  BY <1>10 DEF ReadError, InRead
<1>11. ASSUME NEW w \in Workers, StartOneWorker(w)
     PROVE  FlagType'
  BY <1>11 DEF StartOneWorker, doMsgHandler, Settle, NotFound, Call, Release
<1>12. ASSUME NEW r \in Requests, RunGoroutine(r)
     PROVE  FlagType'
  BY <1>12 DEF RunGoroutine, doMsgHandler, Settle, NotFound, Call, Release
<1>13. ASSUME NEW e \in Executors, PutRequest(e)
     PROVE  FlagType'
  BY <1>13 DEF PutRequest, Release
<1>14. ASSUME NEW e \in Executors, HandlerPanic(e)
     PROVE  FlagType'
  BY <1>14 DEF HandlerPanic, Release
<1>15. ASSUME NEW e \in Executors, HandlerBlocks(e)
     PROVE  FlagType'
  BY <1>15 DEF HandlerBlocks
<1>16. CASE ClientRestart
  BY <1>16 DEF ClientRestart
<1>17. ASSUME NEW c \in Conns, Stop(c)
     PROVE  FlagType'
  BY <1>17 DEF Stop
<1>19. ASSUME NEW c \in Conns, LogData(c)
     PROVE  FlagType'
  BY <1>19 DEF LogData
<1>20. ASSUME NEW c \in Conns, CloseSocket(c)
     PROVE  FlagType'
  BY <1>20 DEF CloseSocket
<1>18. CASE UNCHANGED vars
  BY <1>18 DEF vars
<1> QED
  BY <1>1, <1>2, <1>3, <1>4, <1>5, <1>6, <1>7, <1>8, <1>9,
     <1>10, <1>11, <1>12, <1>13, <1>14, <1>15, <1>16, <1>17, <1>18, <1>19,
     <1>20 DEF Next, StartReader, Execute

\* A step keeps the types of this part.
LEMMA QueueStep ==
    ASSUME ReaderType, QueueType, PlaceInv, [Next]_vars
    PROVE  QueueType'
<1> USE RequestFacts, LimitAssumption
       DEF ReaderType, QueueType, PlaceInv, readerVars, objVars, execVars, Alive
<1>1. ASSUME NEW c \in Conns, EnterRead(c)
     PROVE  QueueType'
  BY <1>1 DEF EnterRead
<1>2. ASSUME NEW c \in Conns, ReaderDone(c)
     PROVE  QueueType'
  BY <1>2 DEF ReaderDone
<1>3. ASSUME NEW c \in Conns, GetRequest(c)
     PROVE  QueueType'
  BY <1>3 DEF GetRequest, Intercept, Reset
<1>4. ASSUME NEW c \in Conns, Withhold(c)
     PROVE  QueueType'
  BY <1>4 DEF Withhold, Settle
<1>5. ASSUME NEW c \in Conns, ChainPanic(c)
     PROVE  QueueType'
  BY <1>5 DEF ChainPanic, Settle
<1>6. ASSUME NEW c \in Conns, UsePool(c)
     PROVE  QueueType'
  BY <1>6 DEF UsePool
<1>7. ASSUME NEW c \in Conns, GoHandler(c)
     PROVE  QueueType'
  BY <1>7 DEF GoHandler, Pass
<1>8. ASSUME NEW c \in Conns, SendMsgToTaskQueue(c)
     PROVE  QueueType'
  <2> DEFINE v == conf.workerID[c]
  <2>1. v \in Workers /\ hand[c] \in Requests
    BY <1>8, ConfigAssumption DEF ReaderType, SendMsgToTaskQueue
  <2>2. /\ queue' = [queue EXCEPT ![v] = Append(@, hand[c])]
        /\ Len(queue[v]) < MaxWorkerTaskLen
    BY <1>8 DEF SendMsgToTaskQueue
  <2> HIDE DEF v
  <2> QED
    BY <2>1, <2>2
<1>9. ASSUME NEW c \in Conns, NEW k \in 1..MaxChunk, Read(c, k)
     PROVE  QueueType'
  BY <1>9 DEF Read, InRead
<1>10. ASSUME NEW c \in Conns, ReadError(c)
     PROVE  QueueType'
  BY <1>10 DEF ReadError, InRead
<1>11. ASSUME NEW w \in Workers, StartOneWorker(w)
     PROVE  QueueType'
  BY <1>11 DEF StartOneWorker, doMsgHandler, Settle, NotFound, Call, Release
<1>12. ASSUME NEW r \in Requests, RunGoroutine(r)
     PROVE  QueueType'
  BY <1>12 DEF RunGoroutine, doMsgHandler, Settle, NotFound, Call, Release
<1>13. ASSUME NEW e \in Executors, PutRequest(e)
     PROVE  QueueType'
  BY <1>13 DEF PutRequest, Release
<1>14. ASSUME NEW e \in Executors, HandlerPanic(e)
     PROVE  QueueType'
  BY <1>14 DEF HandlerPanic, Release
<1>15. ASSUME NEW e \in Executors, HandlerBlocks(e)
     PROVE  QueueType'
  BY <1>15 DEF HandlerBlocks
<1>16. CASE ClientRestart
  BY <1>16 DEF ClientRestart
<1>17. ASSUME NEW c \in Conns, Stop(c)
     PROVE  QueueType'
  BY <1>17 DEF Stop
<1>19. ASSUME NEW c \in Conns, LogData(c)
     PROVE  QueueType'
  BY <1>19 DEF LogData
<1>20. ASSUME NEW c \in Conns, CloseSocket(c)
     PROVE  QueueType'
  BY <1>20 DEF CloseSocket
<1>18. CASE UNCHANGED vars
  BY <1>18 DEF vars
<1> QED
  BY <1>1, <1>2, <1>3, <1>4, <1>5, <1>6, <1>7, <1>8, <1>9,
     <1>10, <1>11, <1>12, <1>13, <1>14, <1>15, <1>16, <1>17, <1>18, <1>19,
     <1>20 DEF Next, StartReader, Execute

\* A step keeps the types of this part.
LEMMA ExecStep ==
    ASSUME ReaderType, QueueType, ExecType, PlaceInv, [Next]_vars
    PROVE  ExecType'
<1> USE RequestFacts, LimitAssumption
       DEF ReaderType, QueueType, ExecType, PlaceInv, readerVars, objVars, execVars,
           Alive
<1>1. ASSUME NEW c \in Conns, EnterRead(c)
     PROVE  ExecType'
  BY <1>1 DEF EnterRead
<1>2. ASSUME NEW c \in Conns, ReaderDone(c)
     PROVE  ExecType'
  BY <1>2 DEF ReaderDone
<1>3. ASSUME NEW c \in Conns, GetRequest(c)
     PROVE  ExecType'
  BY <1>3 DEF GetRequest, Intercept, Reset
<1>4. ASSUME NEW c \in Conns, Withhold(c)
     PROVE  ExecType'
  BY <1>4 DEF Withhold, Settle
<1>5. ASSUME NEW c \in Conns, ChainPanic(c)
     PROVE  ExecType'
  BY <1>5 DEF ChainPanic, Settle
<1>6. ASSUME NEW c \in Conns, UsePool(c)
     PROVE  ExecType'
  BY <1>6 DEF UsePool
<1>7. ASSUME NEW c \in Conns, GoHandler(c)
     PROVE  ExecType'
  BY <1>7 DEF GoHandler, Pass
<1>8. ASSUME NEW c \in Conns, SendMsgToTaskQueue(c)
     PROVE  ExecType'
  BY <1>8 DEF SendMsgToTaskQueue, HandOver
<1>9. ASSUME NEW c \in Conns, NEW k \in 1..MaxChunk, Read(c, k)
     PROVE  ExecType'
  BY <1>9 DEF Read, InRead
<1>10. ASSUME NEW c \in Conns, ReadError(c)
     PROVE  ExecType'
  BY <1>10 DEF ReadError, InRead
<1>11. ASSUME NEW w \in Workers, StartOneWorker(w)
     PROVE  ExecType'
  <2> DEFINE q == Head(queue[w])
  <2>1. q \in Requests /\ w \in Executors
    BY <1>11, TailFacts DEF StartOneWorker
  <2>2. \/ cur' = [cur EXCEPT ![w] = 0] /\ xpc' = [xpc EXCEPT ![w] = "idle"]
        \/ cur' = [cur EXCEPT ![w] = q] /\ xpc' = [xpc EXCEPT ![w] = "handle"]
    BY <1>11 DEF StartOneWorker, doMsgHandler, Settle, NotFound, Call, Release, q
  <2> HIDE DEF q
  <2>3. CASE cur' = [cur EXCEPT ![w] = 0] /\ xpc' = [xpc EXCEPT ![w] = "idle"]
    BY <2>1, <2>3
  <2>4. CASE cur' = [cur EXCEPT ![w] = q] /\ xpc' = [xpc EXCEPT ![w] = "handle"]
    BY <2>1, <2>4
  <2> QED
    BY <2>2, <2>3, <2>4
<1>12. ASSUME NEW r \in Requests, RunGoroutine(r)
     PROVE  ExecType'
  <2>1. r \in Executors
    OBVIOUS
  <2>2. \/ cur' = [cur EXCEPT ![r] = 0] /\ xpc' = [xpc EXCEPT ![r] = "idle"]
        \/ cur' = [cur EXCEPT ![r] = r] /\ xpc' = [xpc EXCEPT ![r] = "handle"]
    BY <1>12 DEF RunGoroutine, doMsgHandler, Settle, NotFound, Call, Release
  <2>3. CASE cur' = [cur EXCEPT ![r] = 0] /\ xpc' = [xpc EXCEPT ![r] = "idle"]
    BY <2>1, <2>3
  <2>4. CASE cur' = [cur EXCEPT ![r] = r] /\ xpc' = [xpc EXCEPT ![r] = "handle"]
    BY <2>1, <2>4
  <2> QED
    BY <2>2, <2>3, <2>4
<1>13. ASSUME NEW e \in Executors, PutRequest(e)
     PROVE  ExecType'
  BY <1>13 DEF PutRequest, Release
<1>14. ASSUME NEW e \in Executors, HandlerPanic(e)
     PROVE  ExecType'
  BY <1>14 DEF HandlerPanic, Release
<1>15. ASSUME NEW e \in Executors, HandlerBlocks(e)
     PROVE  ExecType'
  BY <1>15 DEF HandlerBlocks
<1>16. CASE ClientRestart
  BY <1>16 DEF ClientRestart
<1>17. ASSUME NEW c \in Conns, Stop(c)
     PROVE  ExecType'
  BY <1>17 DEF Stop
<1>19. ASSUME NEW c \in Conns, LogData(c)
     PROVE  ExecType'
  BY <1>19 DEF LogData
<1>20. ASSUME NEW c \in Conns, CloseSocket(c)
     PROVE  ExecType'
  BY <1>20 DEF CloseSocket
<1>18. CASE UNCHANGED vars
  BY <1>18 DEF vars
<1> QED
  BY <1>1, <1>2, <1>3, <1>4, <1>5, <1>6, <1>7, <1>8, <1>9,
     <1>10, <1>11, <1>12, <1>13, <1>14, <1>15, <1>16, <1>17, <1>18, <1>19,
     <1>20 DEF Next, StartReader, Execute

-----------------------------------------------------------------------------
(* The steps of the dispatch, by what they do to requests.                 *)

\* Executors that handle a request, and goroutines that were started for one, are
\* the executors that have a request.
LEMMA ExecFacts ==
    ASSUME ExecType, PlaceInv
    PROVE  /\ Busy \subseteq Executors /\ Started \subseteq Requests
           /\ Busy \cap Started = {}
           /\ \A e \in Executors : cur[e] # 0 <=> e \in Busy \cup Started
           /\ \A r \in Started : cur[r] = r
           /\ \A e \in Busy \cup Started : cur[e] \in Requests
BY RequestFacts DEF ExecType, PlaceInv, Busy, Started

\* What a step leaves alone.
KeepHands == hand' = hand
KeepObjs == obj' = obj /\ fresh' = fresh
KeepExecs == cur' = cur /\ began' = began /\ Busy' = Busy /\ Started' = Started
KeepTaken == taken' = taken
KeepConf == conf' = conf /\ usePool' = usePool

\* Frame of request r is settled.
SettleMove(r) ==
    /\ settled' \in [Conns -> SUBSET Nat]
    /\ \A c \in Conns : c # obj[r].conn => settled'[c] = settled[c]
    /\ obj[r].conn \in Conns =>
          settled'[obj[r].conn] = settled[obj[r].conn] \cup {obj[r].num}

\* Nothing happens to a request.
Quiet ==
    /\ conf' = conf /\ (usePool' => usePool)
    /\ KeepHands /\ KeepObjs /\ KeepExecs /\ KeepTaken
    /\ queue' = queue /\ pool' = pool /\ settled' = settled

\* The reader of c makes request r.
Get(c, r) ==
    /\ hand[c] = 0 /\ hand' = [hand EXCEPT ![c] = r]
    /\ taken' = [taken EXCEPT ![c] = @ + 1] /\ taken[c] < Quota[c]
    /\ \/ r = fresh /\ fresh' = fresh + 1 /\ pool' = pool
       \/ r \in pool /\ pool' = pool \ {r} /\ fresh' = fresh
    /\ obj' \in [Requests -> RequestRecords]
    /\ \A s \in Requests : s # r => obj'[s] = obj[s]
    /\ obj'[r].conn = c /\ obj'[r].num = taken[c] + 1
    /\ conf.framed \/ obj[r].resp = "none" => obj'[r].resp \in {"none", "own"}
    /\ KeepConf /\ KeepExecs
    /\ queue' = queue /\ settled' = settled

\* The reader of c drops its request.
Discard(c) ==
    /\ hand[c] # 0 /\ hand' = [hand EXCEPT ![c] = 0]
    /\ SettleMove(hand[c])
    /\ KeepConf /\ KeepObjs /\ KeepExecs /\ KeepTaken
    /\ queue' = queue /\ pool' = pool

\* The reader of c starts a goroutine for its request.
Go(c) ==
    /\ hand[c] # 0 /\ hand' = [hand EXCEPT ![c] = 0]
    /\ ~usePool
    /\ cur' = [cur EXCEPT ![hand[c]] = hand[c]] /\ began' = began
    /\ Busy' = Busy /\ Started' = Started \cup {hand[c]}
    /\ KeepConf /\ KeepObjs /\ KeepTaken
    /\ queue' = queue /\ pool' = pool /\ settled' = settled

\* The reader of c queues its request.
Send(c) ==
    /\ hand[c] # 0 /\ hand' = [hand EXCEPT ![c] = 0]
    /\ queue' = [queue EXCEPT ![conf.workerID[c]] = Append(@, hand[c])]
    /\ KeepConf /\ KeepObjs /\ KeepExecs /\ KeepTaken
    /\ pool' = pool /\ settled' = settled

\* Executor e begins with request r, or has no router for it.
Begins(e, r) ==
    \/ /\ Busy' = Busy \cup {e} /\ cur' = [cur EXCEPT ![e] = r]
       /\ began' = [began EXCEPT ![e] = <<obj[r].conn, obj[r].num>>]
    \/ /\ Busy' = Busy /\ cur' = [cur EXCEPT ![e] = 0]
       /\ began' = [began EXCEPT ![e] = <<>>]

\* Worker w takes the next request of its queue.
Take(w) ==
    /\ queue[w] # <<>> /\ queue' = [queue EXCEPT ![w] = Tail(@)]
    /\ cur[w] = 0 /\ w \notin Busy /\ Begins(w, Head(queue[w])) /\ Started' = Started
    /\ SettleMove(Head(queue[w]))
    /\ KeepConf /\ KeepHands /\ KeepObjs /\ KeepTaken /\ pool' = pool

\* The goroutine of request r runs.
Run(r) ==
    /\ r \in Started /\ Started' = Started \ {r} /\ Begins(r, r)
    /\ SettleMove(r)
    /\ KeepConf /\ KeepHands /\ KeepObjs /\ KeepTaken
    /\ queue' = queue /\ pool' = pool

\* Executor e is done with its request, which may go to the pool.
Finish(e) ==
    /\ e \in Busy /\ Busy' = Busy \ {e} /\ Started' = Started
    /\ cur' = [cur EXCEPT ![e] = 0] /\ began' = [began EXCEPT ![e] = <<>>]
    /\ pool' = pool \/ (conf.pool /\ pool' = pool \cup {cur[e]})
    /\ KeepConf /\ KeepHands /\ KeepObjs /\ KeepTaken
    /\ queue' = queue /\ settled' = settled

Move ==
    \/ Quiet
    \/ \E c \in Conns, r \in Requests : Get(c, r)
    \/ \E c \in Conns : Discard(c) \/ Go(c) \/ Send(c)
    \/ \E w \in Workers : Take(w)
    \/ \E r \in Requests : Run(r)
    \/ \E e \in Executors : Finish(e)


\* Every step is one of these.
LEMMA StepMoves ==
    ASSUME ReaderType, CountType, ObjType, QueueType, ExecType, PlaceInv,
           HandsInv, [Next]_vars
    PROVE  Move
<1> USE RequestFacts DEF readerVars, objVars, execVars, Alive
<1>1. ASSUME NEW c \in Conns, EnterRead(c)
     PROVE  Move
  <2>1. KeepHands /\ KeepObjs
    BY <1>1 DEF EnterRead, KeepHands, KeepObjs
  <2>2. KeepTaken
    BY <1>1 DEF EnterRead, KeepTaken, taken, CountType, ReaderType, PlaceInv
  <2>3. KeepExecs
    BY <1>1 DEF EnterRead, KeepExecs, Busy, Started, ExecType
  <2>4. Quiet
    BY <1>1, <2>1, <2>2, <2>3 DEF EnterRead, Quiet
  <2> QED
    BY <2>4 DEF Move
<1>2. ASSUME NEW c \in Conns, ReaderDone(c)
     PROVE  Move
  <2>1. KeepHands /\ KeepObjs
    BY <1>2 DEF ReaderDone, KeepHands, KeepObjs
  <2>2. KeepTaken
    BY <1>2 DEF ReaderDone, KeepTaken, taken, CountType, ReaderType, PlaceInv
  <2>3. KeepExecs
    BY <1>2 DEF ReaderDone, KeepExecs, Busy, Started, ExecType
  <2>4. Quiet
    BY <1>2, <2>1, <2>2, <2>3 DEF ReaderDone, Quiet
  <2> QED
    BY <2>4 DEF Move
<1>3. ASSUME NEW c \in Conns, GetRequest(c)
     PROVE  Move
  <2>1. PICK r \in Requests :
          /\ \/ r = fresh /\ fresh' = fresh + 1 /\ pool' = pool
             \/ r \in pool /\ pool' = pool \ {r} /\ fresh' = fresh
          /\ \E request \in Intercept(Reset(r, c, nread[c] - rest[c] + 1)) :
                obj' = [obj EXCEPT ![r] = request]
          /\ hand' = [hand EXCEPT ![c] = r]
    BY <1>3 DEF GetRequest
  <2>2. PICK request \in Intercept(Reset(r, c, nread[c] - rest[c] + 1)) :
          obj' = [obj EXCEPT ![r] = request]
    BY <2>1
  <2>3. /\ request.conn = c /\ request.num = taken[c] + 1
        /\ conf.framed \/ obj[r].resp = "none" => request.resp \in {"none", "own"}
    BY <2>2 DEF Intercept, Reset, taken
  <2>4. /\ \A s \in Requests : s # r => obj'[s] = obj[s]
        /\ obj'[r] = request /\ obj' \in [Requests -> RequestRecords]
    <3>1. nread[c] - rest[c] + 1 \in Nat
      BY DEF CountType
    <3>2. obj \in [Requests -> RequestRecords]
      BY DEF ObjType
    <3>3. request \in RequestRecords
      BY <2>2, <3>1 DEF Intercept, Reset, RequestRecords
    <3> QED
      BY <2>2, <3>2, <3>3
  <2>5. /\ taken' = [taken EXCEPT ![c] = @ + 1] /\ taken[c] < Quota[c]
    <3>1. /\ rest' = [rest EXCEPT ![c] = @ - 1] /\ nread' = nread
          /\ rest[c] > 0 /\ rest[c] \in Nat /\ nread[c] \in Nat /\ Quota[c] \in Nat
          /\ rest[c] <= nread[c] /\ nread[c] <= Quota[c]
      BY <1>3, LimitAssumption DEF GetRequest, CountType
    <3>2. rest'[c] = rest[c] - 1 /\ \A d \in Conns : d # c => rest'[d] = rest[d]
      BY <3>1 DEF CountType
    <3>3. \A d \in Conns : nread'[d] - rest'[d]
                          = IF d = c THEN nread[c] - rest[c] + 1 ELSE nread[d] - rest[d]
      BY <3>1, <3>2
    <3>4. taken' = [d \in Conns |-> IF d = c THEN nread[c] - rest[c] + 1
                                           ELSE nread[d] - rest[d]]
      BY <3>3 DEF taken
    <3>5. taken[c] = nread[c] - rest[c] /\ taken[c] < Quota[c]
      BY <3>1 DEF taken
    <3> QED
      BY <3>4, <3>5 DEF taken
  <2>6. hand[c] = 0
    BY <1>3 DEF GetRequest, PlaceInv
  <2>7. KeepConf /\ KeepExecs
    BY <1>3 DEF GetRequest, KeepConf, KeepExecs, Busy, Started
  <2>8. queue' = queue /\ settled' = settled
    BY <1>3 DEF GetRequest
  <2>9. Get(c, r)
    BY <2>1, <2>3, <2>4, <2>5, <2>6, <2>7, <2>8 DEF Get
  <2> QED
    BY <2>9 DEF Move
<1>4. ASSUME NEW c \in Conns, Withhold(c)
     PROVE  Move
  <2>1. hand[c] # 0 /\ hand' = [hand EXCEPT ![c] = 0]
    BY <1>4 DEF Withhold, PlaceInv
  <2>2. SettleMove(hand[c])
    <3>1. hand[c] \in Requests
      BY <2>1 DEF ReaderType
    <3>2. Settle(hand[c])
      BY <1>4 DEF Withhold
    <3> QED
      BY <3>1, <3>2 DEF Settle, SettleMove, ObjType, RequestRecords
  <2>3. KeepConf /\ KeepObjs /\ KeepExecs
    BY <1>4 DEF Withhold, KeepConf, KeepObjs, KeepExecs, Busy, Started
  <2>4. KeepTaken
    BY <1>4 DEF Withhold, KeepTaken, taken
  <2>5. queue' = queue /\ pool' = pool
    BY <1>4 DEF Withhold
  <2>6. Discard(c)
    BY <2>1, <2>2, <2>3, <2>4, <2>5 DEF Discard
  <2> QED
    BY <2>6 DEF Move
<1>5. ASSUME NEW c \in Conns, ChainPanic(c)
     PROVE  Move
  <2>1. hand[c] # 0 /\ hand' = [hand EXCEPT ![c] = 0]
    BY <1>5 DEF ChainPanic, PlaceInv
  <2>2. SettleMove(hand[c])
    <3>1. hand[c] \in Requests
      BY <2>1 DEF ReaderType
    <3>2. Settle(hand[c])
      BY <1>5 DEF ChainPanic
    <3> QED
      BY <3>1, <3>2 DEF Settle, SettleMove, ObjType, RequestRecords
  <2>3. KeepConf /\ KeepObjs /\ KeepExecs
    BY <1>5 DEF ChainPanic, KeepConf, KeepObjs, KeepExecs, Busy, Started
  <2>4. KeepTaken
    BY <1>5 DEF ChainPanic, KeepTaken, taken
  <2>5. queue' = queue /\ pool' = pool
    BY <1>5 DEF ChainPanic
  <2>6. Discard(c)
    BY <2>1, <2>2, <2>3, <2>4, <2>5 DEF Discard
  <2> QED
    BY <2>6 DEF Move
<1>6. ASSUME NEW c \in Conns, UsePool(c)
     PROVE  Move
  <2>1. KeepHands /\ KeepObjs
    BY <1>6 DEF UsePool, KeepHands, KeepObjs
  <2>2. KeepTaken
    BY <1>6 DEF UsePool, KeepTaken, taken, CountType, ReaderType, PlaceInv
  <2>3. KeepExecs
    BY <1>6 DEF UsePool, KeepExecs, Busy, Started, ExecType
  <2>4. Quiet
    BY <1>6, <2>1, <2>2, <2>3 DEF UsePool, Quiet
  <2> QED
    BY <2>4 DEF Move
<1>7. ASSUME NEW c \in Conns, GoHandler(c)
     PROVE  Move
  <2>1. hand[c] \in Requests /\ hand' = [hand EXCEPT ![c] = 0]
    BY <1>7 DEF GoHandler, Pass, PlaceInv, ReaderType
  <2>2. /\ cur' = [cur EXCEPT ![hand[c]] = hand[c]]
        /\ xpc' = [xpc EXCEPT ![hand[c]] = "started"]
    BY <1>7 DEF GoHandler
  <2>3. xpc[hand[c]] = "idle"
    BY <2>1 DEF PlaceInv, HandsInv
  <2>4. Busy' = Busy /\ Started' = Started \cup {hand[c]}
    BY <2>1, <2>2, <2>3 DEF Busy, Started, ExecType
  <2>5. KeepConf /\ KeepObjs
    BY <1>7 DEF GoHandler, KeepConf, KeepObjs
  <2>6. KeepTaken
    BY <1>7 DEF GoHandler, KeepTaken, taken
  <2>7. began' = began /\ queue' = queue /\ pool' = pool /\ settled' = settled /\ ~usePool
    BY <1>7 DEF GoHandler
  <2>8. Go(c)
    BY <2>1, <2>2, <2>4, <2>5, <2>6, <2>7 DEF Go
  <2> QED
    BY <2>8 DEF Move
<1>8. ASSUME NEW c \in Conns, SendMsgToTaskQueue(c)
     PROVE  Move
  <2>1. hand[c] # 0 /\ hand' = [hand EXCEPT ![c] = 0]
    BY <1>8 DEF SendMsgToTaskQueue, HandOver, PlaceInv
  <2>2. KeepConf /\ KeepObjs /\ KeepExecs
    BY <1>8 DEF SendMsgToTaskQueue, KeepConf, KeepObjs, KeepExecs, Busy, Started
  <2>3. KeepTaken
    BY <1>8 DEF SendMsgToTaskQueue, KeepTaken, taken
  <2>4. /\ queue' = [queue EXCEPT ![conf.workerID[c]] = Append(@, hand[c])]
        /\ pool' = pool /\ settled' = settled
    BY <1>8 DEF SendMsgToTaskQueue
  <2>5. Send(c)
    BY <2>1, <2>2, <2>3, <2>4 DEF Send
  <2> QED
    BY <2>5 DEF Move
<1>9. ASSUME NEW c \in Conns, NEW k \in 1..MaxChunk, Read(c, k)
     PROVE  Move
  <2>1. KeepHands /\ KeepObjs
    BY <1>9 DEF Read, KeepHands, KeepObjs
  <2>2. KeepTaken
    BY <1>9 DEF Read, InRead, KeepTaken, taken, CountType, ReaderType, PlaceInv
  <2>3. KeepExecs
    BY <1>9 DEF Read, KeepExecs, Busy, Started, ExecType
  <2>4. Quiet
    BY <1>9, <2>1, <2>2, <2>3 DEF Read, Quiet
  <2> QED
    BY <2>4 DEF Move
<1>10. ASSUME NEW c \in Conns, ReadError(c)
     PROVE  Move
  <2>1. KeepHands /\ KeepObjs
    BY <1>10 DEF ReadError, KeepHands, KeepObjs
  <2>2. KeepTaken
    BY <1>10 DEF ReadError, InRead, KeepTaken, taken, CountType, ReaderType, PlaceInv
  <2>3. KeepExecs
    BY <1>10 DEF ReadError, KeepExecs, Busy, Started, ExecType
  <2>4. Quiet
    BY <1>10, <2>1, <2>2, <2>3 DEF ReadError, Quiet
  <2> QED
    BY <2>4 DEF Move
<1>11. ASSUME NEW w \in Workers, StartOneWorker(w)
     PROVE  Move
  <2> DEFINE q == Head(queue[w])
  <2>1. w \in Executors /\ xpc[w] = "idle" /\ cur[w] = 0
    BY <1>11 DEF StartOneWorker, PlaceInv
  <2>2. q \in Requests /\ queue[w] # <<>> /\ queue' = [queue EXCEPT ![w] = Tail(@)]
    BY <1>11, TailFacts DEF StartOneWorker, QueueType
  <2>3. Settle(q) /\ (NotFound(w, q) \/ Call(w, q))
    BY <1>11 DEF StartOneWorker, doMsgHandler
  <2>4. KeepConf /\ KeepHands /\ KeepObjs
    BY <1>11 DEF StartOneWorker, KeepConf, KeepHands, KeepObjs
  <2>5. KeepTaken
    BY <1>11 DEF StartOneWorker, KeepTaken, taken
  <2> HIDE DEF q
  <2>6. SettleMove(q)
    BY <2>2, <2>3 DEF Settle, SettleMove, ObjType, RequestRecords
  <2>7. ASSUME NotFound(w, q) PROVE Begins(w, q) /\ Started' = Started /\ pool' = pool
    <3>1. /\ xpc' = [xpc EXCEPT ![w] = "idle"] /\ cur' = [cur EXCEPT ![w] = 0]
          /\ began' = [began EXCEPT ![w] = <<>>] /\ pool' = pool
      BY <2>7 DEF NotFound, Release
    <3>2. Busy' = Busy /\ Started' = Started
      BY <2>1, <3>1 DEF Busy, Started, ExecType
    <3> QED
      BY <3>1, <3>2 DEF Begins
  <2>8. ASSUME Call(w, q) PROVE Begins(w, q) /\ Started' = Started /\ pool' = pool
    <3>1. /\ xpc' = [xpc EXCEPT ![w] = "handle"] /\ cur' = [cur EXCEPT ![w] = q]
          /\ began' = [began EXCEPT ![w] = <<obj[q].conn, obj[q].num>>]
          /\ pool' = pool
      BY <2>8 DEF Call
    <3>2. Busy' = Busy \cup {w} /\ Started' = Started
      BY <2>1, <3>1 DEF Busy, Started, ExecType
    <3> QED
      BY <3>1, <3>2 DEF Begins
  <2>9. Begins(w, q) /\ Started' = Started /\ pool' = pool
    BY <2>3, <2>7, <2>8
  <2>10. w \notin Busy
    BY <2>1 DEF Busy
  <2>11. Take(w)
    BY <2>1, <2>2, <2>4, <2>5, <2>6, <2>9, <2>10 DEF Take, q
  <2> QED
    BY <2>11 DEF Move
<1>12. ASSUME NEW r \in Requests, RunGoroutine(r)
     PROVE  Move
  <2>1. r \in Executors /\ xpc[r] = "started" /\ r \in Started
    BY <1>12 DEF RunGoroutine, Started
  <2>2. queue' = queue
    BY <1>12 DEF RunGoroutine
  <2>3. Settle(r) /\ (NotFound(r, r) \/ Call(r, r))
    BY <1>12 DEF RunGoroutine, doMsgHandler
  <2>4. KeepConf /\ KeepHands /\ KeepObjs
    BY <1>12 DEF RunGoroutine, KeepConf, KeepHands, KeepObjs
  <2>5. KeepTaken
    BY <1>12 DEF RunGoroutine, KeepTaken, taken
  <2>6. SettleMove(r)
    BY <2>3 DEF Settle, SettleMove, ObjType, RequestRecords
  <2>7. ASSUME NotFound(r, r) PROVE Begins(r, r) /\ Started' = Started \ {r} /\ pool' = pool
    <3>1. /\ xpc' = [xpc EXCEPT ![r] = "idle"] /\ cur' = [cur EXCEPT ![r] = 0]
          /\ began' = [began EXCEPT ![r] = <<>>] /\ pool' = pool
      BY <2>7 DEF NotFound, Release
    <3>2. Busy' = Busy /\ Started' = Started \ {r}
      BY <2>1, <3>1 DEF Busy, Started, ExecType
    <3> QED
      BY <3>1, <3>2 DEF Begins
  <2>8. ASSUME Call(r, r) PROVE Begins(r, r) /\ Started' = Started \ {r} /\ pool' = pool
    <3>1. /\ xpc' = [xpc EXCEPT ![r] = "handle"] /\ cur' = [cur EXCEPT ![r] = r]
          /\ began' = [began EXCEPT ![r] = <<obj[r].conn, obj[r].num>>]
          /\ pool' = pool
      BY <2>8 DEF Call
    <3>2. Busy' = Busy \cup {r} /\ Started' = Started \ {r}
      BY <2>1, <3>1 DEF Busy, Started, ExecType
    <3> QED
      BY <3>1, <3>2 DEF Begins
  <2>9. Begins(r, r) /\ Started' = Started \ {r} /\ pool' = pool
    BY <2>3, <2>7, <2>8
  <2>10. Run(r)
    BY <2>1, <2>2, <2>4, <2>5, <2>6, <2>9 DEF Run
  <2> QED
    BY <2>10 DEF Move
<1>13. ASSUME NEW e \in Executors, PutRequest(e)
     PROVE  Move
  <2>1. xpc[e] = "handle" /\ xpc' = [xpc EXCEPT ![e] = "idle"]
    BY <1>13 DEF PutRequest, Release
  <2>2. e \in Busy /\ Busy' = Busy \ {e} /\ Started' = Started
    BY <2>1 DEF Busy, Started, ExecType
  <2>3. KeepConf /\ KeepHands /\ KeepObjs
    BY <1>13 DEF PutRequest, KeepConf, KeepHands, KeepObjs
  <2>4. KeepTaken
    BY <1>13 DEF PutRequest, KeepTaken, taken
  <2>5. /\ cur' = [cur EXCEPT ![e] = 0] /\ began' = [began EXCEPT ![e] = <<>>]
        /\ queue' = queue /\ settled' = settled
        /\ pool' = pool \/ (conf.pool /\ pool' = pool \cup {cur[e]})
    BY <1>13 DEF PutRequest, Release
  <2>6. Finish(e)
    BY <2>2, <2>3, <2>4, <2>5 DEF Finish
  <2> QED
    BY <2>6 DEF Move
<1>14. ASSUME NEW e \in Executors, HandlerPanic(e)
     PROVE  Move
  <2>1. xpc[e] = "handle" /\ xpc' = [xpc EXCEPT ![e] = "idle"]
    BY <1>14 DEF HandlerPanic, Release
  <2>2. e \in Busy /\ Busy' = Busy \ {e} /\ Started' = Started
    BY <2>1 DEF Busy, Started, ExecType
  <2>3. KeepConf /\ KeepHands /\ KeepObjs
    BY <1>14 DEF HandlerPanic, KeepConf, KeepHands, KeepObjs
  <2>4. KeepTaken
    BY <1>14 DEF HandlerPanic, KeepTaken, taken
  <2>5. /\ cur' = [cur EXCEPT ![e] = 0] /\ began' = [began EXCEPT ![e] = <<>>]
        /\ queue' = queue /\ settled' = settled
        /\ pool' = pool \/ (conf.pool /\ pool' = pool \cup {cur[e]})
    BY <1>14 DEF HandlerPanic, Release
  <2>6. Finish(e)
    BY <2>2, <2>3, <2>4, <2>5 DEF Finish
  <2> QED
    BY <2>6 DEF Move
<1>15. ASSUME NEW e \in Executors, HandlerBlocks(e)
     PROVE  Move
  <2>1. KeepHands /\ KeepObjs
    BY <1>15 DEF HandlerBlocks, KeepHands, KeepObjs
  <2>2. KeepTaken
    BY <1>15 DEF HandlerBlocks, KeepTaken, taken, CountType, ReaderType, PlaceInv
  <2>3. KeepExecs
    BY <1>15 DEF HandlerBlocks, KeepExecs, Busy, Started, ExecType
  <2>4. Quiet
    BY <1>15, <2>1, <2>2, <2>3 DEF HandlerBlocks, Quiet
  <2> QED
    BY <2>4 DEF Move
<1>16. CASE ClientRestart
  <2>1. KeepHands /\ KeepObjs
    BY <1>16 DEF ClientRestart, KeepHands, KeepObjs
  <2>2. KeepTaken
    BY <1>16 DEF ClientRestart, KeepTaken, taken, CountType, ReaderType, PlaceInv
  <2>3. KeepExecs
    BY <1>16 DEF ClientRestart, KeepExecs, Busy, Started, ExecType
  <2>4. Quiet
    BY <1>16, <2>1, <2>2, <2>3 DEF ClientRestart, Quiet
  <2> QED
    BY <2>4 DEF Move
<1>17. ASSUME NEW c \in Conns, Stop(c)
     PROVE  Move
  <2>1. KeepHands /\ KeepObjs
    BY <1>17 DEF Stop, KeepHands, KeepObjs
  <2>2. KeepTaken
    BY <1>17 DEF Stop, KeepTaken, taken, CountType, ReaderType, PlaceInv
  <2>3. KeepExecs
    BY <1>17 DEF Stop, KeepExecs, Busy, Started, ExecType
  <2>4. Quiet
    BY <1>17, <2>1, <2>2, <2>3 DEF Stop, Quiet
  <2> QED
    BY <2>4 DEF Move
<1>19. ASSUME NEW c \in Conns, LogData(c)
     PROVE  Move
  <2>1. KeepHands /\ KeepObjs
    BY <1>19 DEF LogData, KeepHands, KeepObjs
  <2>2. KeepTaken
    BY <1>19 DEF LogData, KeepTaken, taken, CountType, ReaderType, PlaceInv
  <2>3. KeepExecs
    BY <1>19 DEF LogData, KeepExecs, Busy, Started, ExecType
  <2>4. Quiet
    BY <1>19, <2>1, <2>2, <2>3 DEF LogData, Quiet
  <2> QED
    BY <2>4 DEF Move
<1>20. ASSUME NEW c \in Conns, CloseSocket(c)
     PROVE  Move
  <2>1. KeepHands /\ KeepObjs
    BY <1>20 DEF CloseSocket, KeepHands, KeepObjs
  <2>2. KeepTaken
    BY <1>20 DEF CloseSocket, KeepTaken, taken, CountType, ReaderType, PlaceInv
  <2>3. KeepExecs
    BY <1>20 DEF CloseSocket, KeepExecs, Busy, Started, ExecType
  <2>4. Quiet
    BY <1>20, <2>1, <2>2, <2>3 DEF CloseSocket, Quiet
  <2> QED
    BY <2>4 DEF Move
<1>18. CASE UNCHANGED vars
  BY <1>18 DEF vars, Move, Quiet, KeepHands, KeepObjs, KeepExecs, KeepTaken, KeepConf,
     taken, Busy, Started
<1> QED
  BY <1>1, <1>2, <1>3, <1>4, <1>5, <1>6, <1>7, <1>8, <1>9,
     <1>10, <1>11, <1>12, <1>13, <1>14, <1>15, <1>16, <1>17, <1>18, <1>19,
     <1>20 DEF Next, StartReader, Execute

\* The numbers of frames.
LEMMA TakenType ==
    ASSUME CountType
    PROVE  taken \in [Conns -> Nat]
BY DEF CountType, taken

\* The queues and the rest after a request was queued.
SendEffect(c) ==
    LET v == conf.workerID[c]
        n == Len(queue[v]) + 1
    IN  /\ v \in Workers /\ hand[c] \in Requests
        /\ Len(queue'[v]) = n /\ queue'[v][n] = hand[c]
        /\ \A i \in 1..Len(queue[v]) : queue'[v][i] = queue[v][i]
        /\ \A w \in Workers : Len(queue[w]) \in Nat
        /\ \A w \in Workers : w # v => queue'[w] = queue[w]
        /\ \A d \in Conns : hand'[d] = IF d = c THEN 0 ELSE hand[d]
        /\ conf' = conf /\ obj' = obj /\ fresh' = fresh /\ pool' = pool
        /\ cur' = cur /\ began' = began /\ Busy' = Busy /\ Started' = Started
        /\ taken' = taken /\ settled' = settled /\ usePool' = usePool

\* The entries of the queues after a request was queued.
LEMMA SendFacts ==
    ASSUME Basis, NEW c \in Conns, Send(c)
    PROVE  SendEffect(c)
<1> DEFINE v == conf.workerID[c]
<1>1. v \in Workers /\ hand[c] \in Requests
  BY RequestFacts, ConfigAssumption DEF Basis, ReaderType, Send
<1>2. queue \in [Workers -> Seq(Requests)]
  BY DEF Basis, QueueType
<1>3. queue' = [queue EXCEPT ![v] = Append(@, hand[c])]
  BY DEF Send
<1> HIDE DEF v
<1>4. /\ queue'[v] = Append(queue[v], hand[c])
      /\ \A w \in Workers : w # v => queue'[w] = queue[w]
  BY <1>1, <1>2, <1>3
<1>5. queue[v] \in Seq(Requests)
  BY <1>1, <1>2
<1>6. \A w \in Workers : Len(queue[w]) \in Nat
  BY <1>2
<1> QED
  <2>1. /\ \A d \in Conns : hand'[d] = IF d = c THEN 0 ELSE hand[d]
        /\ conf' = conf /\ obj' = obj /\ fresh' = fresh /\ pool' = pool
        /\ cur' = cur /\ began' = began /\ Busy' = Busy /\ Started' = Started
        /\ taken' = taken /\ settled' = settled /\ usePool' = usePool
    BY DEF Send, Basis, ReaderType, KeepObjs, KeepExecs, KeepTaken, KeepConf
  <2>2. /\ Len(queue'[v]) = Len(queue[v]) + 1 /\ queue'[v][Len(queue[v]) + 1] = hand[c]
        /\ \A i \in 1..Len(queue[v]) : queue'[v][i] = queue[v][i]
    BY <1>1, <1>4, <1>5, AppendFacts
  <2> QED
    BY <1>1, <1>4, <1>6, <2>1, <2>2 DEF v, SendEffect

\* What an executor has when it begins.
LEMMA BeginsFacts ==
    ASSUME ExecType, PlaceInv, NEW e \in Executors, NEW r \in Requests, Begins(e, r)
    PROVE  /\ \A f \in Executors : f # e => cur'[f] = cur[f] /\ began'[f] = began[f]
           /\ cur'[e] \in {0, r}
           /\ \/ Busy' = Busy
              \/ /\ Busy' = Busy \cup {e} /\ cur'[e] = r
                 /\ began'[e] = <<obj[r].conn, obj[r].num>>
BY DEF ExecType, PlaceInv, Begins

\* The free requests and the rest after a reader made one.
GetEffect(c, r) ==
    /\ fresh' \in Nat /\ fresh' > 0
    /\ pool' \subseteq pool /\ r \notin pool' /\ r < fresh'
    /\ \A n \in Nat : n < fresh => n < fresh'
    /\ \A d \in Conns : hand[d] # r
    /\ \A e \in Executors : cur[e] # r
    /\ \A w \in Workers : \A i \in 1..Len(queue[w]) : queue[w][i] # r
    /\ \A d \in Conns : hand'[d] = IF d = c THEN r ELSE hand[d]
    /\ \A d \in Conns : taken'[d] = IF d = c THEN taken[c] + 1 ELSE taken[d]
    /\ \A d \in Conns : taken[d] \in Nat
    /\ \A s \in Requests : s # r => obj'[s] = obj[s]
    /\ obj'[r].conn = c /\ obj'[r].num = taken[c] + 1
    /\ conf' = conf /\ cur' = cur /\ began' = began /\ Busy' = Busy /\ Started' = Started
    /\ queue' = queue /\ settled' = settled /\ usePool' = usePool

\* What happens to the free requests when a reader makes one.
LEMMA GetFacts ==
    ASSUME Basis, FreeInv, NEW c \in Conns, NEW r \in Requests, Get(c, r)
    PROVE  GetEffect(c, r)
<1>1. fresh \in Nat /\ r \in Nat
  BY RequestFacts DEF Basis, ObjType
<1>2. \/ r = fresh /\ fresh' = fresh + 1 /\ pool' = pool
      \/ r \in pool /\ pool' = pool \ {r} /\ fresh' = fresh
  BY DEF Get
<1>3. /\ fresh' \in Nat /\ fresh' > 0
      /\ pool' \subseteq pool /\ r \notin pool' /\ r < fresh'
  BY SMTT(60), <1>1, <1>2 DEF FreeInv
<1>4. \A n \in Nat : n < fresh => n < fresh'
  BY <1>1, <1>2
<1>5. r \in pool \/ ~(r < fresh)
  BY <1>1, <1>2
<1>6. \A d \in Conns : hand'[d] = IF d = c THEN r ELSE hand[d]
  BY DEF Get, Basis, ReaderType
<1> QED
  <2>1. /\ conf' = conf /\ cur' = cur /\ began' = began
        /\ Busy' = Busy /\ Started' = Started /\ queue' = queue
        /\ settled' = settled /\ usePool' = usePool
    BY DEF Get, KeepExecs, KeepConf
  <2>2. /\ \A d \in Conns : hand[d] # r
        /\ \A e \in Executors : cur[e] # r
        /\ \A w \in Workers : \A i \in 1..Len(queue[w]) : queue[w][i] # r
    BY SMTT(60), <1>5 DEF FreeInv
  <2>3. \A d \in Conns : taken[d] \in Nat
    BY TakenType DEF Basis
  <2>4. \A d \in Conns : taken'[d] = IF d = c THEN taken[c] + 1 ELSE taken[d]
    BY TakenType DEF Get, Basis
  <2>5. /\ \A s \in Requests : s # r => obj'[s] = obj[s]
        /\ obj'[r].conn = c /\ obj'[r].num = taken[c] + 1
    BY DEF Get
  <2> QED
    BY <1>3, <1>4, <1>6, <2>1, <2>2, <2>3, <2>4, <2>5 DEF GetEffect

\* The hands and the rest after a goroutine has begun.
RunEffect(r) ==
    /\ r \in Executors /\ cur[r] = r
    /\ \A f \in Executors : f # r => cur'[f] = cur[f] /\ began'[f] = began[f]
    /\ cur'[r] \in {0, r}
    /\ r \notin Busy
    /\ \/ Busy' = Busy
       \/ /\ Busy' = Busy \cup {r} /\ cur'[r] = r
          /\ began'[r] = <<obj[r].conn, obj[r].num>>
    /\ SettleMove(r)
    /\ conf' = conf /\ hand' = hand /\ obj' = obj /\ fresh' = fresh /\ pool' = pool
    /\ taken' = taken /\ queue' = queue /\ usePool' = usePool
    /\ r \in Started /\ Started' = Started \ {r}

\* What the goroutine of a request has when it begins.
LEMMA RunFacts ==
    ASSUME Basis, NEW r \in Requests, Run(r)
    PROVE  RunEffect(r)
BY SMTT(60), RequestFacts, BeginsFacts, ExecFacts
   DEF Basis, Run, RunEffect, KeepHands, KeepObjs, KeepTaken, KeepConf

\* The queues and the rest after a worker took a request.
TakeEffect(w) ==
    /\ w \in Executors /\ 1 \in 1..Len(queue[w])
    /\ Head(queue[w]) = queue[w][1] /\ queue[w][1] \in Requests
    /\ Len(queue'[w]) = Len(queue[w]) - 1
    /\ \A i \in 1..Len(queue'[w]) :
          queue'[w][i] = queue[w][i + 1] /\ i + 1 \in 1..Len(queue[w])
    /\ \A v \in Workers : Len(queue[v]) \in Nat
    /\ \A v \in Workers : v # w => queue'[v] = queue[v]
    /\ \A f \in Executors : f # w => cur'[f] = cur[f] /\ began'[f] = began[f]
    /\ cur'[w] \in {0, queue[w][1]}
    /\ w \notin Busy
    /\ \/ Busy' = Busy
       \/ /\ Busy' = Busy \cup {w} /\ cur'[w] = queue[w][1]
          /\ began'[w] = <<obj[queue[w][1]].conn, obj[queue[w][1]].num>>
    /\ SettleMove(queue[w][1])
    /\ conf' = conf /\ hand' = hand /\ obj' = obj /\ fresh' = fresh /\ pool' = pool
    /\ taken' = taken /\ usePool' = usePool /\ Started' = Started

\* The entries of the queues after a worker took a request.
LEMMA TakeFacts ==
    ASSUME Basis, NEW w \in Workers, Take(w)
    PROVE  TakeEffect(w)
<1>1. queue \in [Workers -> Seq(Requests)] /\ w \in Executors
  BY RequestFacts DEF Basis, QueueType
<1>2. queue[w] # <<>> /\ queue' = [queue EXCEPT ![w] = Tail(@)]
  BY DEF Take
<1>3. queue'[w] = Tail(queue[w]) /\ \A v \in Workers : v # w => queue'[v] = queue[v]
  BY <1>1, <1>2
<1>4. queue[w] \in Seq(Requests) /\ \A v \in Workers : Len(queue[v]) \in Nat
  BY <1>1
<1>5. Len(queue[w]) \in Nat /\ Len(queue[w]) > 0
  BY <1>2, <1>4, TailFacts
<1>6. Head(queue[w]) = queue[w][1] /\ queue[w][1] \in Requests
  BY <1>2, <1>4, TailFacts
<1>7. /\ \A f \in Executors : f # w => cur'[f] = cur[f] /\ began'[f] = began[f]
      /\ cur'[w] \in {0, queue[w][1]}
      /\ \/ Busy' = Busy
         \/ /\ Busy' = Busy \cup {w} /\ cur'[w] = queue[w][1]
            /\ began'[w] = <<obj[queue[w][1]].conn, obj[queue[w][1]].num>>
  BY <1>1, <1>6, BeginsFacts DEF Take, Basis
<1>8. /\ Len(queue'[w]) = Len(queue[w]) - 1
      /\ \A i \in 1..Len(queue'[w]) :
            queue'[w][i] = queue[w][i + 1] /\ i + 1 \in 1..Len(queue[w])
  <2> DEFINE q == queue[w]
  <2>1. q \in Seq(Requests) /\ q # <<>> /\ queue'[w] = Tail(q)
    BY <1>2, <1>3, <1>4
  <2> HIDE DEF q
  <2>2. /\ Len(Tail(q)) = Len(q) - 1
        /\ \A i \in 1..Len(Tail(q)) : Tail(q)[i] = q[i + 1] /\ i + 1 \in 1..Len(q)
    BY <2>1, TailFacts
  <2> QED
    BY <2>1, <2>2 DEF q
<1> QED
  BY <1>1, <1>3, <1>4, <1>5, <1>6, <1>7, <1>8
     DEF Take, TakeEffect, KeepHands, KeepObjs, KeepTaken, KeepConf

\* Where an entry of a queue was before, and where it goes.
LEMMA SendEntries ==
    ASSUME Basis, NEW c \in Conns, Send(c), NEW w \in Workers
    PROVE  /\ \A i \in 1..Len(queue'[w]) :
                 \/ i \in 1..Len(queue[w]) /\ queue'[w][i] = queue[w][i]
                 \/ /\ w = conf.workerID[c] /\ i = Len(queue[w]) + 1
                    /\ queue'[w][i] = hand[c]
           /\ \A i \in 1..Len(queue[w]) :
                 i \in 1..Len(queue'[w]) /\ queue'[w][i] = queue[w][i]
<1>1. SendEffect(c)
  BY SendFacts
<1>2. CASE w = conf.workerID[c]
  <2>1. /\ Len(queue[w]) \in Nat /\ Len(queue'[w]) = Len(queue[w]) + 1
        /\ queue'[w][Len(queue[w]) + 1] = hand[c]
        /\ \A i \in 1..Len(queue[w]) : queue'[w][i] = queue[w][i]
    BY <1>1, <1>2 DEF SendEffect
  <2>2. \A i \in 1..Len(queue[w]) : i \in 1..Len(queue'[w])
    BY <2>1
  <2>3. \A i \in 1..Len(queue'[w]) : i \in 1..Len(queue[w]) \/ i = Len(queue[w]) + 1
    BY <2>1
  <2> QED
    BY <1>2, <2>1, <2>2, <2>3
<1>3. CASE w # conf.workerID[c]
  BY <1>1, <1>3 DEF SendEffect
<1> QED
  BY SMTT(60), <1>2, <1>3

LEMMA TakeEntries ==
    ASSUME Basis, NEW w \in Workers, Take(w), NEW v \in Workers
    PROVE  \A i \in 1..Len(queue'[v]) : \E k \in 1..Len(queue[v]) :
              /\ queue'[v][i] = queue[v][k]
              /\ v = w => k = i + 1 /\ k # 1
              /\ v # w => k = i
<1>1. TakeEffect(w)
  BY TakeFacts
<1> SUFFICES ASSUME NEW i \in 1..Len(queue'[v])
             PROVE  \E k \in 1..Len(queue[v]) :
                       /\ queue'[v][i] = queue[v][k]
                       /\ v = w => k = i + 1 /\ k # 1
                       /\ v # w => k = i
  OBVIOUS
<1>2. CASE v = w
  <2>1. i + 1 \in 1..Len(queue[v]) /\ queue'[v][i] = queue[v][i + 1]
    BY <1>1, <1>2 DEF TakeEffect
  <2>2. i + 1 # 1
    OBVIOUS
  <2> QED
    BY <1>2, <2>1, <2>2
<1>3. CASE v # w
  BY <1>1, <1>3 DEF TakeEffect
<1> QED
  BY <1>2, <1>3

\* What the entries of the queues are.
LEMMA QueueFacts ==
    ASSUME QueueType
    PROVE  \A w \in Workers : Len(queue[w]) \in Nat
              /\ \A i \in 1..Len(queue[w]) : queue[w][i] \in Requests
BY DEF QueueType

\* A request that waits goes on to wait, and one that was begun is settled for good.
LEMMA StillWaiting ==
    ASSUME Basis, NEW s \in Requests, Waiting(s), obj'[s] = obj[s],
           obj[s].num \notin settled'[obj[s].conn],
           taken'[obj[s].conn] \in Nat, taken'[obj[s].conn] >= taken[obj[s].conn]
    PROVE  Waiting(s)'
<1>1. taken[obj[s].conn] \in Nat
  BY TakenType DEF Basis, Waiting
<1> QED
  BY <1>1 DEF Waiting

LEMMA StillBegun ==
    ASSUME NEW s \in Requests, Begun(s), obj'[s] = obj[s],
           settled[obj[s].conn] \subseteq settled'[obj[s].conn]
    PROVE  Begun(s)'
BY DEF Begun

\* Making a request changes nothing for the others.
LEMMA GetOthers ==
    ASSUME Basis, FreeInv, NEW c \in Conns, NEW r \in Requests, Get(c, r),
           NEW s \in Requests, s # r
    PROVE  /\ Waiting(s) => Waiting(s)'
           /\ Begun(s) => Begun(s)'
           /\ obj'[s] = obj[s]
<1>1. GetEffect(c, r)
  BY GetFacts
<1>2. obj'[s] = obj[s] /\ settled' = settled
  BY <1>1 DEF GetEffect
<1>3. ASSUME Waiting(s) PROVE Waiting(s)'
  <2>1. /\ obj[s].num \notin settled'[obj[s].conn]
        /\ taken'[obj[s].conn] \in Nat /\ taken'[obj[s].conn] >= taken[obj[s].conn]
    BY SMTT(60), <1>1, <1>2, <1>3 DEF GetEffect, Waiting
  <2> QED
    BY <1>2, <1>3, <2>1, StillWaiting
<1>4. ASSUME Begun(s) PROVE Begun(s)'
  BY <1>2, <1>4, StillBegun
<1> QED
  BY <1>2, <1>3, <1>4

\* Settling the frame of one request concerns no other frame.
LEMMA SettleOthers ==
    ASSUME Basis, NEW r \in Requests, NEW s \in Requests, Waiting(s), SettleMove(r),
           obj' = obj, taken' = taken, ~Same(r, s)
    PROVE  Waiting(s)'
<1>1. obj[s].num \notin settled'[obj[s].conn]
  BY DEF Waiting, SettleMove, Same
<1>2. taken[obj[s].conn] \in Nat
  BY TakenType DEF Basis, Waiting
<1> QED
  BY <1>1, <1>2, StillWaiting

LEMMA SettleBegun ==
    ASSUME NEW r \in Requests, NEW s \in Requests, Begun(s), SettleMove(r), obj' = obj
    PROVE  Begun(s)'
BY DEF Begun, SettleMove

\* The frame of a request that is settled was taken, and the request is begun.
LEMMA SettleSelf ==
    ASSUME NEW r \in Requests, Waiting(r), SettleMove(r), obj' = obj, taken' = taken,
           \A c \in Conns : settled[c] \subseteq 1..taken[c]
    PROVE  Begun(r)' /\ \A c \in Conns : settled'[c] \subseteq 1..taken'[c]
BY DEF Waiting, Begun, SettleMove

-----------------------------------------------------------------------------
(* The invariant.                                                          *)

\* No two hands come to hold one request.
LEMMA HandsStep ==
    ASSUME Basis, HandsInv, QueuesInv, FreeInv, Move
    PROVE  HandsInv'
<1> USE RequestFacts DEF Basis
<1>1. CASE Quiet
  BY <1>1 DEF Quiet, KeepConf, KeepHands, KeepObjs, KeepExecs, KeepTaken, HandsInv
<1>2. ASSUME NEW c \in Conns, NEW r \in Requests, Get(c, r)
     PROVE  HandsInv'
  <2>1. GetEffect(c, r)
    BY <1>2, GetFacts
  <2>2. (\A b, d \in Conns : hand[b] = hand[d] /\ hand[b] # 0 => b = d)'
    BY SMTT(60), <2>1 DEF GetEffect, HandsInv
  <2>3. (\A e, f \in Executors : cur[e] = cur[f] /\ cur[e] # 0 => e = f)'
    BY SMTT(60), <2>1 DEF GetEffect, HandsInv
  <2>4. (\A b \in Conns, e \in Executors : hand[b] = cur[e] => hand[b] = 0)'
    BY SMTT(60), <2>1 DEF GetEffect, HandsInv
  <2> QED
    BY <2>2, <2>3, <2>4 DEF HandsInv
<1>3. ASSUME NEW c \in Conns, Discard(c)
     PROVE  HandsInv'
  BY <1>3 DEF Discard, ReaderType, KeepConf, KeepObjs, KeepExecs, KeepTaken, HandsInv
<1>4. ASSUME NEW c \in Conns, Go(c)
     PROVE  HandsInv'
  BY <1>4 DEF Go, ReaderType, ExecType, HandsInv, PlaceInv
<1>5. ASSUME NEW c \in Conns, Send(c)
     PROVE  HandsInv'
  <2>1. SendEffect(c)
    BY <1>5, SendFacts
  <2>2. (\A b, d \in Conns : hand[b] = hand[d] /\ hand[b] # 0 => b = d)'
    BY SMTT(60), <2>1 DEF SendEffect, HandsInv
  <2>3. (\A e, f \in Executors : cur[e] = cur[f] /\ cur[e] # 0 => e = f)'
    BY SMTT(60), <2>1 DEF SendEffect, HandsInv
  <2>4. (\A b \in Conns, e \in Executors : hand[b] = cur[e] => hand[b] = 0)'
    BY SMTT(60), <2>1 DEF SendEffect, HandsInv
  <2> QED
    BY <2>2, <2>3, <2>4 DEF HandsInv
<1>6. ASSUME NEW w \in Workers, Take(w)
     PROVE  HandsInv'
  <2>1. TakeEffect(w)
    BY <1>6, TakeFacts
  <2>2. (\A c, d \in Conns : hand[c] = hand[d] /\ hand[c] # 0 => c = d)'
    BY SMTT(60), <2>1 DEF TakeEffect, HandsInv, QueuesInv
  <2>3. (\A e, f \in Executors : cur[e] = cur[f] /\ cur[e] # 0 => e = f)'
    BY SMTT(60), <2>1 DEF TakeEffect, HandsInv, QueuesInv
  <2>4. (\A c \in Conns, e \in Executors : hand[c] = cur[e] => hand[c] = 0)'
    BY SMTT(60), <2>1 DEF TakeEffect, HandsInv, QueuesInv
  <2> QED
    BY <2>2, <2>3, <2>4 DEF HandsInv
<1>7. ASSUME NEW r \in Requests, Run(r)
     PROVE  HandsInv'
  <2>1. RunEffect(r)
    BY <1>7, RunFacts
  <2>2. (\A c, d \in Conns : hand[c] = hand[d] /\ hand[c] # 0 => c = d)'
    BY SMTT(60), <2>1 DEF RunEffect, HandsInv
  <2>3. (\A e, f \in Executors : cur[e] = cur[f] /\ cur[e] # 0 => e = f)'
    BY SMTT(60), <2>1 DEF RunEffect, HandsInv
  <2>4. (\A c \in Conns, e \in Executors : hand[c] = cur[e] => hand[c] = 0)'
    BY SMTT(60), <2>1 DEF RunEffect, HandsInv
  <2> QED
    BY <2>2, <2>3, <2>4 DEF HandsInv
<1>8. ASSUME NEW e \in Executors, Finish(e)
     PROVE  HandsInv'
  BY <1>8 DEF Finish, ExecType, KeepConf, KeepHands, KeepObjs, KeepTaken, HandsInv
<1> QED
  BY <1>1, <1>2, <1>3, <1>4, <1>5, <1>6, <1>7, <1>8 DEF Move

\* No request comes to be in two places of the queues, or there and in a hand.
LEMMA QueuesStep ==
    ASSUME Basis, HandsInv, QueuesInv, FreeInv, Move
    PROVE  QueuesInv'
<1> USE RequestFacts DEF Basis
<1>1. CASE Quiet
  BY <1>1 DEF Quiet, KeepConf, KeepHands, KeepObjs, KeepExecs, KeepTaken, QueuesInv
<1>2. ASSUME NEW c \in Conns, NEW r \in Requests, Get(c, r)
     PROVE  QueuesInv'
  <2>1. GetEffect(c, r)
    BY <1>2, GetFacts
  <2>2. (\A v, w \in Workers : \A i \in 1..Len(queue[v]), j \in 1..Len(queue[w]) :
            queue[v][i] = queue[w][j] => v = w /\ i = j)'
    BY SMTT(60), <2>1, QueueFacts DEF GetEffect, QueuesInv
  <2>3. (\A w \in Workers : \A i \in 1..Len(queue[w]) :
            \A b \in Conns : hand[b] # queue[w][i])'
    BY SMTT(60), <2>1, QueueFacts DEF GetEffect, QueuesInv
  <2>4. (\A w \in Workers : \A i \in 1..Len(queue[w]) :
            \A e \in Executors : cur[e] # queue[w][i])'
    BY SMTT(60), <2>1, QueueFacts DEF GetEffect, QueuesInv
  <2> QED
    BY SMTT(60), <2>2, <2>3, <2>4 DEF QueuesInv
<1>3. ASSUME NEW c \in Conns, Discard(c)
     PROVE  QueuesInv'
  BY <1>3, QueueFacts DEF Discard, ReaderType, KeepExecs, QueuesInv
<1>4. ASSUME NEW c \in Conns, Go(c)
     PROVE  QueuesInv'
  BY <1>4, QueueFacts DEF Go, ReaderType, ExecType, QueuesInv
<1>5. ASSUME NEW c \in Conns, Send(c)
     PROVE  QueuesInv'
  <2>1. SendEffect(c)
    BY <1>5, SendFacts
  <2>0. (\A w \in Workers : \A i \in 1..Len(queue'[w]) :
            \/ i \in 1..Len(queue[w]) /\ queue'[w][i] = queue[w][i]
            \/ /\ w = conf.workerID[c] /\ i = Len(queue[w]) + 1
               /\ queue'[w][i] = hand[c])
    BY SMTT(60), <1>5, SendEntries
  <2>2. (\A v, w \in Workers : \A i \in 1..Len(queue[v]), j \in 1..Len(queue[w]) :
            queue[v][i] = queue[w][j] => v = w /\ i = j)'
    <3> SUFFICES ASSUME NEW v \in Workers, NEW w \in Workers,
                        NEW i \in 1..Len(queue'[v]), NEW j \in 1..Len(queue'[w]),
                        queue'[v][i] = queue'[w][j]
                 PROVE  v = w /\ i = j
      OBVIOUS
    <3>1. ASSUME NEW u \in Workers, NEW k \in 1..Len(queue[u])
          PROVE  queue[u][k] # hand[c]
      BY SMTT(60), <3>1 DEF QueuesInv
    <3>2. CASE i \in 1..Len(queue[v]) /\ j \in 1..Len(queue[w])
      BY SMTT(60), <2>0, <3>2, QueueFacts DEF QueuesInv
    <3>3. ASSUME NEW u \in Workers, NEW k \in 1..Len(queue'[u]), ~(k \in 1..Len(queue[u]))
          PROVE  /\ u = conf.workerID[c] /\ k = Len(queue[u]) + 1
                 /\ queue'[u][k] = hand[c]
      BY <2>0, <3>3
    <3>4. ASSUME NEW u \in Workers, NEW k \in 1..Len(queue[u])
          PROVE  queue'[u][k] = queue[u][k]
      BY <2>1, <2>0, <3>4, QueueFacts DEF SendEffect
    <3>5. CASE i \in 1..Len(queue[v]) /\ ~(j \in 1..Len(queue[w]))
      BY <3>1, <3>3, <3>4, <3>5
    <3>6. CASE ~(i \in 1..Len(queue[v])) /\ j \in 1..Len(queue[w])
      BY <3>1, <3>3, <3>4, <3>6
    <3>7. CASE ~(i \in 1..Len(queue[v])) /\ ~(j \in 1..Len(queue[w]))
      BY SMTT(60), <3>3, <3>7
    <3> QED
      BY <3>2, <3>5, <3>6, <3>7
  <2>3. (\A w \in Workers : \A i \in 1..Len(queue[w]) :
            \A b \in Conns : hand[b] # queue[w][i])'
    BY SMTT(60), <2>1, <2>0, QueueFacts DEF SendEffect, QueuesInv, HandsInv
  <2>4. (\A w \in Workers : \A i \in 1..Len(queue[w]) :
            \A e \in Executors : cur[e] # queue[w][i])'
    BY SMTT(60), <2>1, <2>0, QueueFacts DEF SendEffect, QueuesInv, HandsInv
  <2> QED
    BY SMTT(60), <2>2, <2>3, <2>4 DEF QueuesInv
<1>6. ASSUME NEW w \in Workers, Take(w)
     PROVE  QueuesInv'
  <2>1. TakeEffect(w)
    BY <1>6, TakeFacts
  <2>0. \A v \in Workers : \A i \in 1..Len(queue'[v]) : \E k \in 1..Len(queue[v]) :
            /\ queue'[v][i] = queue[v][k]
            /\ v = w => k = i + 1 /\ k # 1
            /\ v # w => k = i
    BY SMTT(60), <1>6, TakeEntries
  <2>2. (\A v, u \in Workers : \A i \in 1..Len(queue[v]), j \in 1..Len(queue[u]) :
            queue[v][i] = queue[u][j] => v = u /\ i = j)'
    <3> SUFFICES ASSUME NEW u \in Workers, NEW v \in Workers,
                        NEW i \in 1..Len(queue'[u]), NEW j \in 1..Len(queue'[v]),
                        queue'[u][i] = queue'[v][j]
                 PROVE  u = v /\ i = j
      OBVIOUS
    <3>1. PICK k \in 1..Len(queue[u]) :
          /\ queue'[u][i] = queue[u][k]
          /\ u = w => k = i + 1 /\ k # 1
          /\ u # w => k = i
      BY <2>0
    <3>2. PICK l \in 1..Len(queue[v]) :
          /\ queue'[v][j] = queue[v][l]
          /\ v = w => l = j + 1 /\ l # 1
          /\ v # w => l = j
      BY <2>0
    <3>3. u = v /\ k = l
      <4>1. queue[u][k] = queue[v][l]
        BY <3>1, <3>2
      <4> QED
        BY SMTT(60), <4>1 DEF QueuesInv
    <3> QED
      BY <3>1, <3>2, <3>3
  <2>3. (\A u \in Workers : \A i \in 1..Len(queue[u]) :
            \A c \in Conns : hand[c] # queue[u][i])'
    BY SMTT(60), <2>1, <2>0, QueueFacts DEF TakeEffect, QueuesInv
  <2>4. (\A u \in Workers : \A i \in 1..Len(queue[u]) :
            \A e \in Executors : cur[e] # queue[u][i])'
    <3> SUFFICES ASSUME NEW v \in Workers, NEW i \in 1..Len(queue'[v]), NEW e \in Executors
                 PROVE  cur'[e] # queue'[v][i]
      OBVIOUS
    <3>1. PICK k \in 1..Len(queue[v]) : queue'[v][i] = queue[v][k] /\ (v = w => k # 1)
      BY SMTT(60), <2>0
    <3>2. queue[v][k] # 0 /\ cur[e] # queue[v][k]
      BY SMTT(60), <3>1, QueueFacts DEF QueuesInv
    <3>3. queue[v][k] # queue[w][1]
      BY <2>1, <3>1 DEF QueuesInv, TakeEffect
    <3> QED
      BY <2>1, <3>1, <3>2, <3>3 DEF TakeEffect
  <2> QED
    BY SMTT(60), <2>2, <2>3, <2>4 DEF QueuesInv
<1>7. ASSUME NEW r \in Requests, Run(r)
     PROVE  QueuesInv'
  <2>1. RunEffect(r)
    BY <1>7, RunFacts
  <2>2. (\A v, w \in Workers : \A i \in 1..Len(queue[v]), j \in 1..Len(queue[w]) :
            queue[v][i] = queue[w][j] => v = w /\ i = j)'
    BY SMTT(60), <2>1, QueueFacts DEF RunEffect, QueuesInv
  <2>3. (\A w \in Workers : \A i \in 1..Len(queue[w]) :
            \A c \in Conns : hand[c] # queue[w][i])'
    BY SMTT(60), <2>1, QueueFacts DEF RunEffect, QueuesInv
  <2>4. (\A w \in Workers : \A i \in 1..Len(queue[w]) :
            \A e \in Executors : cur[e] # queue[w][i])'
    BY SMTT(60), <2>1, QueueFacts DEF RunEffect, QueuesInv
  <2> QED
    BY SMTT(60), <2>2, <2>3, <2>4 DEF QueuesInv
<1>8. ASSUME NEW e \in Executors, Finish(e)
     PROVE  QueuesInv'
  BY <1>8, QueueFacts DEF Finish, ExecType, KeepHands, QueuesInv
<1> QED
  BY <1>1, <1>2, <1>3, <1>4, <1>5, <1>6, <1>7, <1>8 DEF Move

\* What is free is nowhere else.
LEMMA FreeStep ==
    ASSUME Basis, HandsInv, QueuesInv, FreeInv, Move
    PROVE  FreeInv'
<1> USE RequestFacts DEF Basis
<1>1. CASE Quiet
  BY <1>1 DEF Quiet, KeepConf, KeepHands, KeepObjs, KeepExecs, KeepTaken, FreeInv, ObjType
<1>2. ASSUME NEW c \in Conns, NEW r \in Requests, Get(c, r)
     PROVE  FreeInv'
  <2>1. GetEffect(c, r)
    BY <1>2, GetFacts
  <2>2. (fresh \in Nat /\ fresh > 0)'
    BY SMTT(60), <2>1 DEF GetEffect, FreeInv
  <2>3. (\A b \in Conns : hand[b] \notin pool /\ hand[b] < fresh)'
    <3> SUFFICES ASSUME NEW d \in Conns PROVE hand'[d] \notin pool' /\ hand'[d] < fresh'
      OBVIOUS
    <3>1. hand[d] \in Nat /\ hand[d] < fresh /\ hand[d] \notin pool
      BY DEF FreeInv, ReaderType
    <3>2. /\ hand'[d] = IF d = c THEN r ELSE hand[d]
          /\ pool' \subseteq pool /\ r \notin pool' /\ r < fresh'
          /\ \A n \in Nat : n < fresh => n < fresh'
      BY <2>1 DEF GetEffect
    <3> QED
      BY <3>1, <3>2
  <2>4. (\A e \in Executors : cur[e] \notin pool /\ cur[e] < fresh)'
    <3> SUFFICES ASSUME NEW e \in Executors PROVE cur[e] \notin pool' /\ cur[e] < fresh'
      BY <2>1 DEF GetEffect
    <3>1. cur[e] \in Nat /\ cur[e] < fresh /\ cur[e] \notin pool
      BY DEF FreeInv, ExecType
    <3>2. pool' \subseteq pool /\ \A n \in Nat : n < fresh => n < fresh'
      BY <2>1 DEF GetEffect
    <3> QED
      BY <3>1, <3>2
  <2>5. (\A w \in Workers : \A i \in 1..Len(queue[w]) :
            queue[w][i] \notin pool /\ queue[w][i] < fresh)'
    <3> SUFFICES ASSUME NEW w \in Workers, NEW i \in 1..Len(queue[w])
                 PROVE  queue[w][i] \notin pool' /\ queue[w][i] < fresh'
      BY <2>1 DEF GetEffect
    <3>1. queue[w][i] \in Nat /\ queue[w][i] < fresh /\ queue[w][i] \notin pool
      BY SMTT(60), QueueFacts DEF FreeInv
    <3>2. pool' \subseteq pool /\ \A n \in Nat : n < fresh => n < fresh'
      BY <2>1 DEF GetEffect
    <3> QED
      BY <3>1, <3>2
  <2>6. (\A q \in pool : q < fresh)'
    <3> SUFFICES ASSUME NEW s \in pool' PROVE s < fresh'
      OBVIOUS
    <3>1. s \in pool /\ s \in Nat
      BY SMTT(60), <2>1 DEF GetEffect, ObjType
    <3> QED
      BY SMTT(60), <2>1, <3>1 DEF GetEffect, FreeInv
  <2> QED
    BY SMTT(60), <2>2, <2>3, <2>4, <2>5, <2>6 DEF FreeInv
<1>3. ASSUME NEW c \in Conns, Discard(c)
     PROVE  FreeInv'
  BY <1>3
     DEF Discard, ReaderType, KeepConf, KeepObjs, KeepExecs, KeepTaken, FreeInv, ObjType
<1>4. ASSUME NEW c \in Conns, Go(c)
     PROVE  FreeInv'
  BY <1>4 DEF Go, ReaderType, ExecType, KeepConf, KeepObjs, KeepTaken, FreeInv, ObjType
<1>5. ASSUME NEW c \in Conns, Send(c)
     PROVE  FreeInv'
  <2>1. SendEffect(c)
    BY <1>5, SendFacts
  <2>0. (\A w \in Workers : \A i \in 1..Len(queue'[w]) :
            \/ i \in 1..Len(queue[w]) /\ queue'[w][i] = queue[w][i]
            \/ /\ w = conf.workerID[c] /\ i = Len(queue[w]) + 1
               /\ queue'[w][i] = hand[c])
    BY SMTT(60), <1>5, SendEntries
  <2>2. (fresh \in Nat /\ fresh > 0)'
    BY SMTT(60), <2>1, <2>0, QueueFacts DEF SendEffect, FreeInv, ObjType
  <2>3. (\A b \in Conns : hand[b] \notin pool /\ hand[b] < fresh)'
    BY SMTT(60), <2>1, <2>0, QueueFacts DEF SendEffect, FreeInv, ObjType
  <2>4. (\A e \in Executors : cur[e] \notin pool /\ cur[e] < fresh)'
    BY SMTT(60), <2>1, <2>0, QueueFacts DEF SendEffect, FreeInv, ObjType
  <2>5. (\A w \in Workers : \A i \in 1..Len(queue[w]) :
            queue[w][i] \notin pool /\ queue[w][i] < fresh)'
    <3> SUFFICES ASSUME NEW w \in Workers, NEW i \in 1..Len(queue'[w])
                 PROVE  queue'[w][i] \notin pool' /\ queue'[w][i] < fresh'
      OBVIOUS
    <3>1. CASE i \in 1..Len(queue[w]) /\ queue'[w][i] = queue[w][i]
      BY SMTT(60), <2>1, <3>1 DEF SendEffect, FreeInv
    <3>2. CASE queue'[w][i] = hand[c]
      BY SMTT(60), <2>1, <3>2 DEF SendEffect, FreeInv
    <3> QED
      BY <2>0, <3>1, <3>2
  <2>6. (\A r \in pool : r < fresh)'
    BY SMTT(60), <2>1, <2>0, QueueFacts DEF SendEffect, FreeInv, ObjType
  <2> QED
    BY SMTT(60), <2>2, <2>3, <2>4, <2>5, <2>6 DEF FreeInv
<1>6. ASSUME NEW w \in Workers, Take(w)
     PROVE  FreeInv'
  <2>1. TakeEffect(w)
    BY <1>6, TakeFacts
  <2>0. \A v \in Workers : \A i \in 1..Len(queue'[v]) : \E k \in 1..Len(queue[v]) :
            /\ queue'[v][i] = queue[v][k]
            /\ v = w => k = i + 1 /\ k # 1
            /\ v # w => k = i
    BY SMTT(60), <1>6, TakeEntries
  <2>2. (fresh \in Nat /\ fresh > 0)'
    BY SMTT(60), <2>1, <2>0, QueueFacts DEF TakeEffect, FreeInv, ObjType
  <2>3. (\A c \in Conns : hand[c] \notin pool /\ hand[c] < fresh)'
    BY SMTT(60), <2>1, <2>0, QueueFacts DEF TakeEffect, FreeInv, ObjType
  <2>4. (\A e \in Executors : cur[e] \notin pool /\ cur[e] < fresh)'
    BY SMTT(60), <2>1, <2>0, QueueFacts DEF TakeEffect, FreeInv, ObjType
  <2>5. (\A u \in Workers : \A i \in 1..Len(queue[u]) :
            queue[u][i] \notin pool /\ queue[u][i] < fresh)'
    <3> SUFFICES ASSUME NEW v \in Workers, NEW i \in 1..Len(queue'[v])
                 PROVE  queue'[v][i] \notin pool' /\ queue'[v][i] < fresh'
      OBVIOUS
    <3>1. PICK k \in 1..Len(queue[v]) : queue'[v][i] = queue[v][k]
      BY <2>0
    <3> QED
      BY SMTT(60), <2>1, <3>1 DEF TakeEffect, FreeInv
  <2>6. (\A r \in pool : r < fresh)'
    BY SMTT(60), <2>1, <2>0, QueueFacts DEF TakeEffect, FreeInv, ObjType
  <2> QED
    BY SMTT(60), <2>2, <2>3, <2>4, <2>5, <2>6 DEF FreeInv
<1>7. ASSUME NEW r \in Requests, Run(r)
     PROVE  FreeInv'
  <2>1. RunEffect(r)
    BY <1>7, RunFacts
  <2>2. (fresh \in Nat /\ fresh > 0)'
    BY SMTT(60), <2>1, QueueFacts DEF RunEffect, FreeInv, ObjType
  <2>3. (\A c \in Conns : hand[c] \notin pool /\ hand[c] < fresh)'
    BY SMTT(60), <2>1, QueueFacts DEF RunEffect, FreeInv, ObjType
  <2>4. (\A e \in Executors : cur[e] \notin pool /\ cur[e] < fresh)'
    BY SMTT(60), <2>1, QueueFacts DEF RunEffect, FreeInv, ObjType
  <2>5. (\A w \in Workers : \A i \in 1..Len(queue[w]) :
            queue[w][i] \notin pool /\ queue[w][i] < fresh)'
    BY SMTT(60), <2>1, QueueFacts DEF RunEffect, FreeInv, ObjType
  <2>6. (\A q \in pool : q < fresh)'
    BY SMTT(60), <2>1, QueueFacts DEF RunEffect, FreeInv, ObjType
  <2> QED
    BY SMTT(60), <2>2, <2>3, <2>4, <2>5, <2>6 DEF FreeInv
<1>8. ASSUME NEW e \in Executors, Finish(e)
     PROVE  FreeInv'
  <2>1. (fresh \in Nat /\ fresh > 0)'
    BY SMTT(60), <1>8, ExecFacts, QueueFacts
       DEF Finish, ExecType, KeepHands, KeepObjs, ObjType, FreeInv, HandsInv, QueuesInv
  <2>2. (\A c \in Conns : hand[c] \notin pool /\ hand[c] < fresh)'
    BY SMTT(60), <1>8, ExecFacts, QueueFacts
       DEF Finish, ExecType, KeepHands, KeepObjs, ObjType, FreeInv, HandsInv, QueuesInv
  <2>3. (\A g \in Executors : cur[g] \notin pool /\ cur[g] < fresh)'
    BY SMTT(60), <1>8, ExecFacts, QueueFacts
       DEF Finish, ExecType, KeepHands, KeepObjs, ObjType, FreeInv, HandsInv, QueuesInv
  <2>4. (\A w \in Workers : \A i \in 1..Len(queue[w]) :
            queue[w][i] \notin pool /\ queue[w][i] < fresh)'
    BY SMTT(60), <1>8, ExecFacts, QueueFacts
       DEF Finish, ExecType, KeepHands, KeepObjs, ObjType, FreeInv, HandsInv, QueuesInv
  <2>5. (\A r \in pool : r < fresh)'
    BY SMTT(60), <1>8, ExecFacts, QueueFacts
       DEF Finish, ExecType, KeepHands, KeepObjs, ObjType, FreeInv, HandsInv, QueuesInv
  <2> QED
    BY SMTT(60), <2>1, <2>2, <2>3, <2>4, <2>5 DEF FreeInv
<1> QED
  BY <1>1, <1>2, <1>3, <1>4, <1>5, <1>6, <1>7, <1>8 DEF Move

\* No response of an earlier request comes to be in a request.
LEMMA ResponseStep ==
    ASSUME Basis, FreeInv, ResponseInv, Move
    PROVE  ResponseInv'
<1> USE RequestFacts DEF Basis, ObjType
<1>1. CASE Quiet
  BY <1>1 DEF Quiet, KeepConf, KeepHands, KeepObjs, KeepExecs, KeepTaken, ResponseInv
<1>2. ASSUME NEW c \in Conns, NEW r \in Requests, Get(c, r)
     PROVE  ResponseInv'
  <2>1. (~conf.pool => pool = {})'
    BY <1>2 DEF Get, ReaderType, KeepConf, FreeInv, ResponseInv
  <2>2. (\A s \in Requests : s >= fresh => obj[s].resp = "none")'
    BY <1>2 DEF Get, ReaderType, KeepConf, FreeInv, ResponseInv
  <2>3. (conf.framed \/ ~conf.pool => \A s \in Requests : obj[s].resp # "stale")'
    <3> SUFFICES ASSUME conf.framed \/ ~conf.pool, NEW s \in Requests
                 PROVE  obj'[s].resp # "stale"
      BY <1>2 DEF Get, ReaderType, KeepConf
    <3>1. ~conf.pool => r = fresh /\ r >= fresh
      BY <1>2 DEF Get, ReaderType, ResponseInv
    <3>2. conf.framed \/ obj[r].resp = "none"
      BY <3>1 DEF ResponseInv
    <3>3. obj'[r].resp \in {"none", "own"}
      BY <1>2, <3>2 DEF Get, ReaderType
    <3> QED
      BY <1>2, <3>3 DEF Get, ReaderType, ResponseInv
  <2> QED
    BY <2>1, <2>2, <2>3 DEF ResponseInv
<1>3. ASSUME NEW c \in Conns, Discard(c)
     PROVE  ResponseInv'
  BY <1>3 DEF Discard, ReaderType, KeepConf, KeepObjs, KeepExecs, KeepTaken, ResponseInv
<1>4. ASSUME NEW c \in Conns, Go(c)
     PROVE  ResponseInv'
  BY <1>4 DEF Go, ReaderType, ExecType, KeepConf, KeepObjs, KeepTaken, ResponseInv
<1>5. ASSUME NEW c \in Conns, Send(c)
     PROVE  ResponseInv'
  BY <1>5 DEF Send, ReaderType, KeepConf, KeepObjs, KeepExecs, KeepTaken, ResponseInv
<1>6. ASSUME NEW w \in Workers, Take(w)
     PROVE  ResponseInv'
  BY <1>6 DEF Take, KeepConf, KeepHands, KeepObjs, KeepTaken, ResponseInv
<1>7. ASSUME NEW r \in Requests, Run(r)
     PROVE  ResponseInv'
  BY <1>7 DEF Run, KeepConf, KeepHands, KeepObjs, KeepTaken, ResponseInv
<1>8. ASSUME NEW e \in Executors, Finish(e)
     PROVE  ResponseInv'
  BY <1>8 DEF Finish, ExecType, KeepConf, KeepHands, KeepObjs, KeepTaken, ResponseInv
<1> QED
  BY <1>1, <1>2, <1>3, <1>4, <1>5, <1>6, <1>7, <1>8 DEF Move

\* The request objects keep their types.
LEMMA ObjStep ==
    ASSUME Basis, Move
    PROVE  ObjType'
<1> USE RequestFacts DEF Basis, SettleMove
<1>1. CASE Quiet
  BY <1>1 DEF Quiet, KeepConf, KeepHands, KeepObjs, KeepExecs, KeepTaken, ObjType
<1>2. ASSUME NEW c \in Conns, NEW r \in Requests, Get(c, r)
     PROVE  ObjType'
  BY <1>2 DEF Get, ReaderType, ObjType
<1>3. ASSUME NEW c \in Conns, Discard(c)
     PROVE  ObjType'
  BY <1>3 DEF Discard, ReaderType, KeepConf, KeepObjs, KeepExecs, KeepTaken, ObjType
<1>4. ASSUME NEW c \in Conns, Go(c)
     PROVE  ObjType'
  BY <1>4 DEF Go, ReaderType, ExecType, KeepConf, KeepObjs, KeepTaken, ObjType
<1>5. ASSUME NEW c \in Conns, Send(c)
     PROVE  ObjType'
  BY <1>5 DEF Send, ReaderType, KeepConf, KeepObjs, KeepExecs, KeepTaken, ObjType
<1>6. ASSUME NEW w \in Workers, Take(w)
     PROVE  ObjType'
  BY <1>6 DEF Take, KeepConf, KeepHands, KeepObjs, KeepTaken, ObjType
<1>7. ASSUME NEW r \in Requests, Run(r)
     PROVE  ObjType'
  BY <1>7 DEF Run, KeepConf, KeepHands, KeepObjs, KeepTaken, ObjType
<1>8. ASSUME NEW e \in Executors, Finish(e)
     PROVE  ObjType'
  BY <1>8, ExecFacts DEF Finish, ExecType, KeepObjs, ObjType
<1> QED
  BY <1>1, <1>2, <1>3, <1>4, <1>5, <1>6, <1>7, <1>8 DEF Move

\* What waits stays unsettled, what is handled is settled.
LEMMA StateStep ==
    ASSUME Basis, HandsInv, QueuesInv, FreeInv, StateInv, OnceInv, Move
    PROVE  StateInv'
<1> USE RequestFacts DEF Basis
<1>1. CASE Quiet
  <2>1. (\A c \in Conns : settled[c] \subseteq 1..taken[c])'
    BY <1>1
       DEF Quiet, KeepConf, KeepHands, KeepObjs, KeepExecs, KeepTaken, StateInv, Waiting,
           Begun
  <2>2. (\A c \in Conns : hand[c] # 0 =>
          Waiting(hand[c]) /\ obj[hand[c]].conn = c /\ obj[hand[c]].num = taken[c])'
    BY <1>1
       DEF Quiet, KeepConf, KeepHands, KeepObjs, KeepExecs, KeepTaken, StateInv, Waiting,
           Begun
  <2>3. (\A w \in Workers : \A i \in 1..Len(queue[w]) :
          Waiting(queue[w][i]) /\ conf.workerID[obj[queue[w][i]].conn] = w)'
    BY <1>1
       DEF Quiet, KeepConf, KeepHands, KeepObjs, KeepExecs, KeepTaken, StateInv, Waiting,
           Begun
  <2>4. (\A e \in Started : Waiting(cur[e]))'
    BY <1>1
       DEF Quiet, KeepConf, KeepHands, KeepObjs, KeepExecs, KeepTaken, StateInv, Waiting,
           Begun
  <2>5. (\A e \in Busy : Begun(cur[e]) /\ began[e] = <<obj[cur[e]].conn, obj[cur[e]].num>>)'
    BY <1>1
       DEF Quiet, KeepConf, KeepHands, KeepObjs, KeepExecs, KeepTaken, StateInv, Waiting,
           Begun
  <2> QED
    BY SMTT(60), <2>1, <2>2, <2>3, <2>4, <2>5 DEF StateInv
<1>2. ASSUME NEW c \in Conns, NEW r \in Requests, Get(c, r)
     PROVE  StateInv'
  <2>1. GetEffect(c, r)
    BY <1>2, GetFacts
  <2>2. (\A b \in Conns : settled[b] \subseteq 1..taken[b])'
    BY SMTT(60), <2>1 DEF GetEffect, StateInv
  <2>3. (\A b \in Conns : hand[b] # 0 =>
          Waiting(hand[b]) /\ obj[hand[b]].conn = b /\ obj[hand[b]].num = taken[b])'
    <3> SUFFICES ASSUME NEW d \in Conns, hand'[d] # 0
                 PROVE  /\ Waiting(hand[d])'
                        /\ obj'[hand'[d]].conn = d /\ obj'[hand'[d]].num = taken'[d]
      OBVIOUS
    <3>1. CASE d = c
      <4>1. hand'[d] = r /\ obj'[r].conn = c /\ obj'[r].num = taken[c] + 1
        BY <2>1, <3>1 DEF GetEffect
      <4>2. taken'[c] = taken[c] + 1 /\ taken[c] \in Nat /\ settled'[c] = settled[c]
        BY <2>1 DEF GetEffect
      <4>3. taken[c] + 1 \notin settled[c]
        BY SMTT(60), <4>2 DEF StateInv
      <4> QED
        BY <3>1, <4>1, <4>2, <4>3 DEF Waiting
    <3>2. CASE d # c
      <4>1. /\ hand'[d] = hand[d] /\ taken'[d] = taken[d]
            /\ hand[d] # r /\ hand[d] \in Requests
        BY SMTT(60), <2>1, <3>2 DEF GetEffect, ReaderType
      <4>2. Waiting(hand[d]) /\ obj[hand[d]].conn = d /\ obj[hand[d]].num = taken[d]
        BY SMTT(60), <4>1 DEF StateInv
      <4> QED
        BY <1>2, <4>1, <4>2, GetOthers
    <3> QED
      BY <3>1, <3>2
  <2>4. (\A w \in Workers : \A i \in 1..Len(queue[w]) :
          Waiting(queue[w][i]) /\ conf.workerID[obj[queue[w][i]].conn] = w)'
    <3> SUFFICES ASSUME NEW w \in Workers, NEW i \in 1..Len(queue'[w])
                 PROVE  Waiting(queue[w][i])' /\ conf'.workerID[obj'[queue'[w][i]].conn] = w
      OBVIOUS
    <3>1. queue' = queue /\ conf' = conf /\ queue[w][i] # r /\ queue[w][i] \in Requests
      BY <2>1, QueueFacts DEF GetEffect
    <3>2. Waiting(queue[w][i]) /\ conf.workerID[obj[queue[w][i]].conn] = w
      BY SMTT(60), <3>1 DEF StateInv
    <3> QED
      BY <1>2, <3>1, <3>2, GetOthers
  <2>5. (\A e \in Started : Waiting(cur[e]))'
    <3> SUFFICES ASSUME NEW e \in Started
                 PROVE  Waiting(cur[e])'
      BY <2>1 DEF GetEffect
    <3>1. cur' = cur /\ cur[e] # r /\ cur[e] \in Requests
      BY <2>1, ExecFacts DEF GetEffect
    <3> QED
      BY SMTT(60), <1>2, <3>1, GetOthers DEF StateInv
  <2>6. (\A e \in Busy : Begun(cur[e]) /\ began[e] = <<obj[cur[e]].conn, obj[cur[e]].num>>)'
    <3> SUFFICES ASSUME NEW e \in Busy
                 PROVE  /\ Begun(cur[e])'
                        /\ began'[e] = <<obj'[cur'[e]].conn, obj'[cur'[e]].num>>
      BY <2>1 DEF GetEffect
    <3>1. cur' = cur /\ began' = began /\ cur[e] # r /\ cur[e] \in Requests
      BY <2>1, ExecFacts DEF GetEffect
    <3> QED
      BY SMTT(60), <1>2, <3>1, GetOthers DEF StateInv
  <2> QED
    BY SMTT(60), <2>2, <2>3, <2>4, <2>5, <2>6 DEF StateInv
<1>3. ASSUME NEW c \in Conns, Discard(c)
     PROVE  StateInv'
  <2>1. (\A b \in Conns : settled[b] \subseteq 1..taken[b])'
    BY SMTT(60), <1>3, SettleSelf, SettleOthers, SettleBegun, QueueFacts, ExecFacts
       DEF Discard, ReaderType, KeepConf, KeepObjs, KeepExecs, KeepTaken, StateInv,
           OnceInv
  <2>2. (\A b \in Conns : hand[b] # 0 =>
          Waiting(hand[b]) /\ obj[hand[b]].conn = b /\ obj[hand[b]].num = taken[b])'
    <3> SUFFICES ASSUME NEW d \in Conns, hand'[d] # 0
                 PROVE  /\ Waiting(hand[d])' /\ obj'[hand'[d]].conn = d
                        /\ obj'[hand'[d]].num = taken'[d]
      OBVIOUS
    <3>1. d # c /\ hand'[d] = hand[d] /\ hand[d] \in Requests /\ hand[c] \in Requests
      BY <1>3 DEF Discard, ReaderType
    <3>2. obj' = obj /\ taken' = taken /\ SettleMove(hand[c]) /\ hand[c] # 0
      BY <1>3 DEF Discard, ReaderType, KeepObjs, KeepTaken
    <3>3. Waiting(hand[d]) /\ ~Same(hand[c], hand[d])
      BY <3>1, <3>2 DEF StateInv, Same
    <3>4. Waiting(hand[d])'
      BY <3>1, <3>2, <3>3, SettleOthers
    <3> QED
      BY SMTT(60), <3>1, <3>2, <3>4 DEF StateInv
  <2>3. (\A w \in Workers : \A i \in 1..Len(queue[w]) :
          Waiting(queue[w][i]) /\ conf.workerID[obj[queue[w][i]].conn] = w)'
    BY SMTT(60), <1>3, SettleSelf, SettleOthers, SettleBegun, QueueFacts, ExecFacts
       DEF Discard, ReaderType, KeepConf, KeepObjs, KeepExecs, KeepTaken, StateInv,
           OnceInv
  <2>4. (\A e \in Started : Waiting(cur[e]))'
    BY SMTT(60), <1>3, SettleSelf, SettleOthers, SettleBegun, QueueFacts, ExecFacts
       DEF Discard, ReaderType, KeepConf, KeepObjs, KeepExecs, KeepTaken, StateInv,
           OnceInv
  <2>5. (\A e \in Busy : Begun(cur[e]) /\ began[e] = <<obj[cur[e]].conn, obj[cur[e]].num>>)'
    BY SMTT(60), <1>3, SettleSelf, SettleOthers, SettleBegun, QueueFacts, ExecFacts
       DEF Discard, ReaderType, KeepConf, KeepObjs, KeepExecs, KeepTaken, StateInv,
           OnceInv
  <2> QED
    BY SMTT(60), <2>1, <2>2, <2>3, <2>4, <2>5 DEF StateInv
<1>4. ASSUME NEW c \in Conns, Go(c)
     PROVE  StateInv'
  <2>1. (\A b \in Conns : settled[b] \subseteq 1..taken[b])'
    BY SMTT(60), <1>4, ExecFacts, QueueFacts
       DEF Go, ReaderType, ExecType, KeepConf, KeepObjs, KeepTaken, StateInv, Waiting,
           Begun, HandsInv, PlaceInv
  <2>2. (\A b \in Conns : hand[b] # 0 =>
          Waiting(hand[b]) /\ obj[hand[b]].conn = b /\ obj[hand[b]].num = taken[b])'
    BY SMTT(60), <1>4, ExecFacts, QueueFacts
       DEF Go, ReaderType, ExecType, KeepConf, KeepObjs, KeepTaken, StateInv, Waiting,
           Begun, HandsInv, PlaceInv
  <2>3. (\A w \in Workers : \A i \in 1..Len(queue[w]) :
          Waiting(queue[w][i]) /\ conf.workerID[obj[queue[w][i]].conn] = w)'
    BY SMTT(60), <1>4, ExecFacts, QueueFacts
       DEF Go, ReaderType, ExecType, KeepConf, KeepObjs, KeepTaken, StateInv, Waiting,
           Begun, HandsInv, PlaceInv
  <2>4. (\A e \in Started : Waiting(cur[e]))'
    BY SMTT(60), <1>4, ExecFacts, QueueFacts
       DEF Go, ReaderType, ExecType, KeepConf, KeepObjs, KeepTaken, StateInv, Waiting,
           Begun, HandsInv, PlaceInv
  <2>5. (\A e \in Busy : Begun(cur[e]) /\ began[e] = <<obj[cur[e]].conn, obj[cur[e]].num>>)'
    BY SMTT(60), <1>4, ExecFacts, QueueFacts
       DEF Go, ReaderType, ExecType, KeepConf, KeepObjs, KeepTaken, StateInv, Waiting,
           Begun, HandsInv, PlaceInv
  <2> QED
    BY SMTT(60), <2>1, <2>2, <2>3, <2>4, <2>5 DEF StateInv
<1>5. ASSUME NEW c \in Conns, Send(c)
     PROVE  StateInv'
  <2>1. SendEffect(c)
    BY <1>5, SendFacts
  <2>0. (\A w \in Workers : \A i \in 1..Len(queue'[w]) :
            \/ i \in 1..Len(queue[w]) /\ queue'[w][i] = queue[w][i]
            \/ /\ w = conf.workerID[c] /\ i = Len(queue[w]) + 1
               /\ queue'[w][i] = hand[c])
    BY SMTT(60), <1>5, SendEntries
  <2>2. (\A b \in Conns : settled[b] \subseteq 1..taken[b])'
    BY SMTT(60), <2>1, <2>0, QueueFacts DEF SendEffect, StateInv, Waiting, Begun
  <2>3. (\A b \in Conns : hand[b] # 0 =>
          Waiting(hand[b]) /\ obj[hand[b]].conn = b /\ obj[hand[b]].num = taken[b])'
    BY SMTT(60), <2>1, <2>0, QueueFacts DEF SendEffect, StateInv, Waiting, Begun
  <2>4. (\A w \in Workers : \A i \in 1..Len(queue[w]) :
          Waiting(queue[w][i]) /\ conf.workerID[obj[queue[w][i]].conn] = w)'
    <3> SUFFICES ASSUME NEW w \in Workers, NEW i \in 1..Len(queue'[w])
                 PROVE  Waiting(queue[w][i])' /\ conf'.workerID[obj'[queue'[w][i]].conn] = w
      OBVIOUS
    <3>1. obj' = obj /\ taken' = taken /\ settled' = settled /\ conf' = conf
      BY <2>1 DEF SendEffect
    <3>2. CASE i \in 1..Len(queue[w]) /\ queue'[w][i] = queue[w][i]
      <4>1. Waiting(queue[w][i]) /\ conf.workerID[obj[queue[w][i]].conn] = w
        BY SMTT(60), <3>2 DEF StateInv
      <4> QED
        BY <3>1, <3>2, <4>1 DEF Waiting
    <3>3. CASE w = conf.workerID[c] /\ queue'[w][i] = hand[c]
      <4>1. hand[c] # 0
        BY <1>5 DEF Send
      <4>2. Waiting(hand[c]) /\ obj[hand[c]].conn = c
        BY SMTT(60), <4>1 DEF StateInv
      <4> QED
        BY <3>1, <3>3, <4>2 DEF Waiting
    <3> QED
      BY <2>0, <3>2, <3>3
  <2>5. (\A e \in Started : Waiting(cur[e]))'
    BY SMTT(60), <2>1, <2>0, QueueFacts DEF SendEffect, StateInv, Waiting, Begun
  <2>6. (\A e \in Busy : Begun(cur[e]) /\ began[e] = <<obj[cur[e]].conn, obj[cur[e]].num>>)'
    BY SMTT(60), <2>1, <2>0, QueueFacts DEF SendEffect, StateInv, Waiting, Begun
  <2> QED
    BY SMTT(60), <2>2, <2>3, <2>4, <2>5, <2>6 DEF StateInv
<1>6. ASSUME NEW w \in Workers, Take(w)
     PROVE  StateInv'
  <2>1. TakeEffect(w)
    BY <1>6, TakeFacts
  <2>0. \A v \in Workers : \A i \in 1..Len(queue'[v]) : \E k \in 1..Len(queue[v]) :
            /\ queue'[v][i] = queue[v][k]
            /\ v = w => k = i + 1 /\ k # 1
            /\ v # w => k = i
    BY SMTT(60), <1>6, TakeEntries
  <2>2. (\A c \in Conns : settled[c] \subseteq 1..taken[c])'
    BY SMTT(60), <2>1, <2>0, QueueFacts, SettleSelf, SettleOthers, SettleBegun, ExecFacts
       DEF TakeEffect, StateInv, OnceInv
  <2>3. (\A c \in Conns : hand[c] # 0 =>
          Waiting(hand[c]) /\ obj[hand[c]].conn = c /\ obj[hand[c]].num = taken[c])'
    <3> SUFFICES ASSUME NEW c \in Conns, hand[c] # 0
                 PROVE  Waiting(hand[c])'
      BY SMTT(60), <2>1 DEF TakeEffect, StateInv
    <3>1. hand[c] \in Requests /\ Waiting(hand[c])
      BY DEF ReaderType, StateInv
    <3>2. ~Same(queue[w][1], hand[c])
      BY SMTT(60), <2>1 DEF TakeEffect, OnceInv, Same
    <3>3. /\ obj' = obj /\ taken' = taken /\ hand' = hand /\ SettleMove(queue[w][1])
          /\ queue[w][1] \in Requests
      BY <2>1 DEF TakeEffect
    <3> QED
      BY <3>1, <3>2, <3>3, SettleOthers
  <2>4. (\A u \in Workers : \A i \in 1..Len(queue[u]) :
          Waiting(queue[u][i]) /\ conf.workerID[obj[queue[u][i]].conn] = u)'
    <3> SUFFICES ASSUME NEW v \in Workers, NEW i \in 1..Len(queue'[v])
                 PROVE  Waiting(queue[v][i])' /\ conf'.workerID[obj'[queue'[v][i]].conn] = v
      OBVIOUS
    <3>1. /\ obj' = obj /\ taken' = taken /\ conf' = conf /\ SettleMove(queue[w][1])
          /\ queue[w][1] \in Requests /\ 1 \in 1..Len(queue[w])
      BY <2>1 DEF TakeEffect
    <3>2. PICK k \in 1..Len(queue[v]) : queue'[v][i] = queue[v][k] /\ (v = w => k # 1)
      BY <2>0
    <3>3. /\ queue[v][k] \in Requests /\ Waiting(queue[v][k])
          /\ conf.workerID[obj[queue[v][k]].conn] = v
          /\ conf.workerID[obj[queue[w][1]].conn] = w
      BY SMTT(60), <3>1, QueueFacts DEF StateInv
    <3>4. ~Same(queue[w][1], queue[v][k])
      <4>1. CASE v = w
        <5>1. 1 < k
          BY SMTT(60), <3>2, <4>1, QueueFacts
        <5>2. obj[queue[w][1]].conn = obj[queue[w][k]].conn =>
                 obj[queue[w][1]].num < obj[queue[w][k]].num
          BY SMTT(60), <3>1, <4>1, <5>1 DEF OnceInv
        <5>3. obj[queue[w][1]].num \in Nat /\ obj[queue[w][k]].num \in Nat
          BY <3>1, <3>3, <4>1 DEF ObjType, RequestRecords
        <5> QED
          BY <4>1, <5>2, <5>3 DEF Same
      <4>2. CASE v # w
        BY <3>3, <4>2 DEF Same
      <4> QED
        BY <4>1, <4>2
    <3>5. \A s \in Requests : s = queue[v][k] => Waiting(s)'
      BY <3>1, <3>3, <3>4, SettleOthers
    <3> QED
      BY <3>1, <3>2, <3>3, <3>5 DEF Waiting
  <2>5. (\A e \in Started : Waiting(cur[e]))'
    <3> SUFFICES ASSUME NEW e \in Started
                 PROVE  Waiting(cur[e])'
      BY <2>1 DEF TakeEffect
    <3>1. /\ obj' = obj /\ taken' = taken /\ SettleMove(queue[w][1])
          /\ queue[w][1] \in Requests /\ 1 \in 1..Len(queue[w])
      BY <2>1 DEF TakeEffect
    <3>2. e \in Requests /\ e # w /\ cur[e] \in Requests /\ Waiting(cur[e])
      BY SMTT(60), ExecFacts DEF StateInv
    <3>3. cur'[e] = cur[e]
      BY <2>1, <3>2 DEF TakeEffect
    <3>4. ~Same(queue[w][1], cur[e])
      BY <3>1 DEF OnceInv, Same
    <3>5. \A s \in Requests : s = cur[e] => Waiting(s)'
      BY <3>1, <3>2, <3>4, SettleOthers
    <3> QED
      BY <3>2, <3>3, <3>5 DEF Waiting
  <2>6. (\A e \in Busy : Begun(cur[e]) /\ began[e] = <<obj[cur[e]].conn, obj[cur[e]].num>>)'
    <3>1. /\ obj' = obj /\ taken' = taken /\ SettleMove(queue[w][1])
          /\ queue[w][1] \in Requests /\ 1 \in 1..Len(queue[w]) /\ w \in Executors
      BY <2>1 DEF TakeEffect
    <3>2. ASSUME NEW e \in Busy
          PROVE  /\ Begun(cur[e])'
                 /\ began'[e] = <<obj'[cur'[e]].conn, obj'[cur'[e]].num>>
      <4>1. e # w /\ e \in Executors /\ cur[e] \in Requests
        BY <2>1, ExecFacts DEF TakeEffect
      <4>2. cur'[e] = cur[e] /\ began'[e] = began[e]
        BY <2>1, <4>1 DEF TakeEffect
      <4>3. \A s \in Requests : s = cur[e] => Begun(s)'
        BY SMTT(60), <3>1, <4>1, SettleBegun DEF StateInv
      <4> QED
        BY <3>1, <4>1, <4>2, <4>3 DEF StateInv, Begun
    <3>3. CASE /\ cur'[w] = queue[w][1]
               /\ began'[w] = <<obj[queue[w][1]].conn, obj[queue[w][1]].num>>
      <4>1. Waiting(queue[w][1])
        BY SMTT(60), <3>1 DEF StateInv
      <4>2. \A s \in Requests : s = queue[w][1] => Begun(s)'
        BY SMTT(60), <3>1, <4>1, SettleSelf DEF StateInv
      <4>3. Begun(cur[w])'
        BY <3>1, <3>3, <4>2 DEF Begun
      <4> QED
        BY <3>1, <3>2, <3>3, <4>3, <2>1 DEF TakeEffect
    <3>4. CASE Busy' = Busy
      BY <3>2, <3>4
    <3> QED
      BY <2>1, <3>3, <3>4 DEF TakeEffect
  <2> QED
    BY SMTT(60), <2>2, <2>3, <2>4, <2>5, <2>6 DEF StateInv
<1>7. ASSUME NEW r \in Requests, Run(r)
     PROVE  StateInv'
  <2>1. RunEffect(r)
    BY <1>7, RunFacts
  <2>2. (\A c \in Conns : settled[c] \subseteq 1..taken[c])'
    BY SMTT(60), <2>1, QueueFacts, SettleSelf, SettleOthers, SettleBegun, ExecFacts
       DEF RunEffect, StateInv, OnceInv
  <2>3. (\A c \in Conns : hand[c] # 0 =>
          Waiting(hand[c]) /\ obj[hand[c]].conn = c /\ obj[hand[c]].num = taken[c])'
    <3> SUFFICES ASSUME NEW c \in Conns, hand[c] # 0
                 PROVE  Waiting(hand[c])'
      BY SMTT(60), <2>1 DEF RunEffect, StateInv
    <3>1. hand[c] \in Requests /\ Waiting(hand[c]) /\ hand' = hand
      BY SMTT(60), <2>1 DEF RunEffect, ReaderType, StateInv
    <3>2. ~Same(r, hand[c])
      BY SMTT(60), <2>1 DEF RunEffect, OnceInv, Same
    <3>3. obj' = obj /\ taken' = taken /\ SettleMove(r)
      BY <2>1 DEF RunEffect
    <3> QED
      BY <3>1, <3>2, <3>3, SettleOthers
  <2>4. (\A w \in Workers : \A i \in 1..Len(queue[w]) :
          Waiting(queue[w][i]) /\ conf.workerID[obj[queue[w][i]].conn] = w)'
    BY SMTT(60), <2>1, QueueFacts, SettleSelf, SettleOthers, SettleBegun, ExecFacts
       DEF RunEffect, StateInv, OnceInv
  <2>5. (\A e \in Started : Waiting(cur[e]))'
    BY SMTT(60), <2>1, QueueFacts, SettleSelf, SettleOthers, SettleBegun, ExecFacts
       DEF RunEffect, StateInv, OnceInv
  <2>6. (\A e \in Busy : Begun(cur[e]) /\ began[e] = <<obj[cur[e]].conn, obj[cur[e]].num>>)'
    BY SMTT(60), <2>1, QueueFacts, SettleSelf, SettleOthers, SettleBegun, ExecFacts
       DEF RunEffect, StateInv, OnceInv
  <2> QED
    BY SMTT(60), <2>2, <2>3, <2>4, <2>5, <2>6 DEF StateInv
<1>8. ASSUME NEW e \in Executors, Finish(e)
     PROVE  StateInv'
  <2>1. (\A c \in Conns : settled[c] \subseteq 1..taken[c])'
    BY SMTT(60), <1>8, ExecFacts, QueueFacts
       DEF Finish, ExecType, KeepConf, KeepHands, KeepObjs, KeepTaken, StateInv, Waiting,
           Begun
  <2>2. (\A c \in Conns : hand[c] # 0 =>
          Waiting(hand[c]) /\ obj[hand[c]].conn = c /\ obj[hand[c]].num = taken[c])'
    BY SMTT(60), <1>8, ExecFacts, QueueFacts
       DEF Finish, ExecType, KeepConf, KeepHands, KeepObjs, KeepTaken, StateInv, Waiting,
           Begun
  <2>3. (\A w \in Workers : \A i \in 1..Len(queue[w]) :
          Waiting(queue[w][i]) /\ conf.workerID[obj[queue[w][i]].conn] = w)'
    BY SMTT(60), <1>8, ExecFacts, QueueFacts
       DEF Finish, ExecType, KeepConf, KeepHands, KeepObjs, KeepTaken, StateInv, Waiting,
           Begun
  <2>4. (\A g \in Started : Waiting(cur[g]))'
    BY SMTT(60), <1>8, ExecFacts, QueueFacts
       DEF Finish, ExecType, KeepConf, KeepHands, KeepObjs, KeepTaken, StateInv, Waiting,
           Begun
  <2>5. (\A g \in Busy : Begun(cur[g]) /\ began[g] = <<obj[cur[g]].conn, obj[cur[g]].num>>)'
    BY SMTT(60), <1>8, ExecFacts, QueueFacts
       DEF Finish, ExecType, KeepConf, KeepHands, KeepObjs, KeepTaken, StateInv, Waiting,
           Begun
  <2> QED
    BY SMTT(60), <2>1, <2>2, <2>3, <2>4, <2>5 DEF StateInv
<1> QED
  BY <1>1, <1>2, <1>3, <1>4, <1>5, <1>6, <1>7, <1>8 DEF Move

\* No two places come to hold requests of one frame, and the queues stay in order.
LEMMA OnceStep ==
    ASSUME Basis, HandsInv, QueuesInv, FreeInv, StateInv, OnceInv, Move
    PROVE  OnceInv'
<1> USE RequestFacts DEF Basis
<1>1. CASE Quiet
  BY <1>1 DEF Quiet, KeepHands, KeepObjs, KeepExecs, Same, OnceInv
<1>2. ASSUME NEW c \in Conns, NEW r \in Requests, Get(c, r)
     PROVE  OnceInv'
  <2>1. GetEffect(c, r)
    BY <1>2, GetFacts
  <2>2. (\A b \in Conns : hand[b] # 0 =>
          \A w \in Workers : \A i \in 1..Len(queue[w]) : ~Same(hand[b], queue[w][i]))'
    <3> SUFFICES ASSUME NEW d \in Conns, hand'[d] # 0, NEW w \in Workers,
                        NEW i \in 1..Len(queue'[w])
                 PROVE  ~Same(hand[d], queue[w][i])'
      OBVIOUS
    <3>1. /\ queue' = queue /\ queue[w][i] # r /\ queue[w][i] \in Requests
          /\ obj'[queue[w][i]] = obj[queue[w][i]] /\ Waiting(queue[w][i])
      BY SMTT(60), <2>1, QueueFacts DEF GetEffect, StateInv
    <3>2. CASE d = c
      <4>1. /\ hand'[d] = r /\ obj'[r].conn = c /\ obj'[r].num = taken[c] + 1
            /\ taken[c] \in Nat
        BY <2>1, <3>2 DEF GetEffect
      <4>2. obj[queue[w][i]].conn = c => obj[queue[w][i]].num <= taken[c]
        BY <3>1, <4>1 DEF Waiting
      <4> QED
        BY <3>1, <4>1, <4>2 DEF Same
    <3>3. CASE d # c
      <4>1. hand'[d] = hand[d] /\ hand[d] # r /\ hand[d] \in Requests
        BY SMTT(60), <2>1, <3>3 DEF GetEffect, ReaderType
      <4>2. obj'[hand[d]] = obj[hand[d]]
        BY <2>1, <4>1 DEF GetEffect
      <4> QED
        BY <3>1, <4>1, <4>2 DEF Same, OnceInv
    <3> QED
      BY <3>2, <3>3
  <2>3. (\A b \in Conns : hand[b] # 0 => \A e \in Started : ~Same(hand[b], cur[e]))'
    <3> SUFFICES ASSUME NEW d \in Conns, hand'[d] # 0, NEW e \in Started
                 PROVE  ~Same(hand[d], cur[e])'
      BY <2>1 DEF GetEffect
    <3>1. /\ cur' = cur /\ cur[e] # r /\ cur[e] \in Requests
          /\ obj'[cur[e]] = obj[cur[e]] /\ Waiting(cur[e])
      BY SMTT(60), <2>1, ExecFacts DEF GetEffect, StateInv
    <3>2. CASE d = c
      <4>1. /\ hand'[d] = r /\ obj'[r].conn = c /\ obj'[r].num = taken[c] + 1
            /\ taken[c] \in Nat
        BY <2>1, <3>2 DEF GetEffect
      <4>2. obj[cur[e]].conn = c => obj[cur[e]].num <= taken[c]
        BY <3>1, <4>1 DEF Waiting
      <4> QED
        BY <3>1, <4>1, <4>2 DEF Same
    <3>3. CASE d # c
      <4>1. hand'[d] = hand[d] /\ hand[d] # r /\ hand[d] \in Requests
        BY SMTT(60), <2>1, <3>3 DEF GetEffect, ReaderType
      <4>2. obj'[hand[d]] = obj[hand[d]]
        BY <2>1, <4>1 DEF GetEffect
      <4> QED
        BY <3>1, <4>1, <4>2 DEF Same, OnceInv
    <3> QED
      BY <3>2, <3>3
  <2>4. (\A e \in Started, w \in Workers : \A i \in 1..Len(queue[w]) :
          ~Same(cur[e], queue[w][i]))'
    <3> SUFFICES ASSUME NEW e \in Started, NEW w \in Workers, NEW i \in 1..Len(queue[w])
                 PROVE  ~Same(cur[e], queue[w][i])'
      BY <2>1 DEF GetEffect
    <3>1. /\ cur' = cur /\ queue' = queue
          /\ obj'[cur[e]] = obj[cur[e]] /\ obj'[queue[w][i]] = obj[queue[w][i]]
      BY <2>1, ExecFacts, QueueFacts DEF GetEffect
    <3> QED
      BY <3>1 DEF Same, OnceInv
  <2>5. (\A e, f \in Started : e # f => ~Same(cur[e], cur[f]))'
    <3> SUFFICES ASSUME NEW e \in Started, NEW f \in Started, e # f
                 PROVE  ~Same(cur[e], cur[f])'
      BY <2>1 DEF GetEffect
    <3>1. cur' = cur /\ obj'[cur[e]] = obj[cur[e]] /\ obj'[cur[f]] = obj[cur[f]]
      BY <2>1, ExecFacts DEF GetEffect
    <3> QED
      BY <3>1 DEF Same, OnceInv
  <2>6. (\A e, f \in Busy : e # f => ~Same(cur[e], cur[f]))'
    <3> SUFFICES ASSUME NEW e \in Busy, NEW f \in Busy, e # f
                 PROVE  ~Same(cur[e], cur[f])'
      BY <2>1 DEF GetEffect
    <3>1. cur' = cur /\ obj'[cur[e]] = obj[cur[e]] /\ obj'[cur[f]] = obj[cur[f]]
      BY <2>1, ExecFacts DEF GetEffect
    <3> QED
      BY <3>1 DEF Same, OnceInv
  <2>7. (\A w \in Workers : \A i, j \in 1..Len(queue[w]) :
          i < j /\ obj[queue[w][i]].conn = obj[queue[w][j]].conn =>
              obj[queue[w][i]].num < obj[queue[w][j]].num)'
    <3> SUFFICES ASSUME NEW w \in Workers, NEW i \in 1..Len(queue[w]),
                        NEW j \in 1..Len(queue[w]), i < j,
                        obj'[queue[w][i]].conn = obj'[queue[w][j]].conn
                 PROVE  obj'[queue[w][i]].num < obj'[queue[w][j]].num
      BY <2>1 DEF GetEffect
    <3>1. obj'[queue[w][i]] = obj[queue[w][i]] /\ obj'[queue[w][j]] = obj[queue[w][j]]
      BY <2>1, QueueFacts DEF GetEffect
    <3> QED
      BY SMTT(60), <3>1 DEF OnceInv
  <2> QED
    BY SMTT(60), <2>2, <2>3, <2>4, <2>5, <2>6, <2>7 DEF OnceInv
<1>3. ASSUME NEW c \in Conns, Discard(c)
     PROVE  OnceInv'
  BY <1>3 DEF Discard, ReaderType, KeepObjs, KeepExecs, Same, OnceInv
<1>4. ASSUME NEW c \in Conns, Go(c)
     PROVE  OnceInv'
  <2>1. (\A b \in Conns : hand[b] # 0 =>
          \A w \in Workers : \A i \in 1..Len(queue[w]) : ~Same(hand[b], queue[w][i]))'
    BY <1>4 DEF Go, ReaderType, ExecType, KeepObjs, Same, OnceInv
  <2>2. (\A b \in Conns : hand[b] # 0 => \A e \in Started : ~Same(hand[b], cur[e]))'
    <3> SUFFICES ASSUME NEW d \in Conns, hand'[d] # 0, NEW e \in Started'
                 PROVE  ~Same(hand[d], cur[e])'
      OBVIOUS
    <3>1. /\ obj' = obj /\ d # c /\ hand'[d] = hand[d] /\ hand[d] # 0
          /\ hand[c] # 0 /\ hand[c] \in Requests
      BY <1>4 DEF Go, ReaderType, ExecType, KeepObjs
    <3>2. CASE e = hand[c]
      <4>1. cur'[e] = hand[c]
        BY <1>4, <3>1, <3>2 DEF Go, ReaderType, ExecType
      <4> QED
        BY <3>1, <4>1 DEF Same, StateInv
    <3>3. CASE e # hand[c] /\ e \in Started
      <4>1. cur'[e] = cur[e]
        BY <1>4, <3>3, ExecFacts DEF Go, ReaderType, ExecType
      <4> QED
        BY <3>1, <3>3, <4>1 DEF Same, OnceInv
    <3> QED
      BY <1>4, <3>2, <3>3 DEF Go, ReaderType, ExecType
  <2>3. (\A e \in Started, w \in Workers : \A i \in 1..Len(queue[w]) :
          ~Same(cur[e], queue[w][i]))'
    <3>1. obj' = obj /\ queue' = queue /\ hand[c] # 0 /\ hand[c] \in Requests
      BY <1>4 DEF Go, ReaderType, ExecType, KeepObjs
    <3>2. ASSUME NEW e \in Started'
          PROVE  (e = hand[c] /\ cur'[e] = hand[c]) \/ (e \in Started /\ cur'[e] = cur[e])
      BY <1>4, <3>1, <3>2, ExecFacts DEF Go, ReaderType, ExecType
    <3> QED
      BY SMTT(60), <3>1, <3>2 DEF Same, OnceInv
  <2>4. (\A e, f \in Started : e # f => ~Same(cur[e], cur[f]))'
    <3>1. obj' = obj /\ queue' = queue /\ hand[c] # 0 /\ hand[c] \in Requests
      BY <1>4 DEF Go, ReaderType, ExecType, KeepObjs
    <3>2. ASSUME NEW e \in Started'
          PROVE  (e = hand[c] /\ cur'[e] = hand[c]) \/ (e \in Started /\ cur'[e] = cur[e])
      BY <1>4, <3>1, <3>2, ExecFacts DEF Go, ReaderType, ExecType
    <3> QED
      BY <3>1, <3>2 DEF Same, OnceInv
  <2>5. (\A e, f \in Busy : e # f => ~Same(cur[e], cur[f]))'
    <3>1. \A f \in Busy : f # hand[c] /\ f \in Executors
      BY <1>4, ExecFacts DEF Go, ReaderType, ExecType, HandsInv, PlaceInv
    <3>2. \A f \in Busy : cur'[f] = cur[f]
      BY <1>4, <3>1 DEF Go, ReaderType, ExecType
    <3> QED
      BY <1>4, <3>2 DEF Go, ReaderType, ExecType, KeepObjs, Same, OnceInv
  <2>6. (\A w \in Workers : \A i, j \in 1..Len(queue[w]) :
          i < j /\ obj[queue[w][i]].conn = obj[queue[w][j]].conn =>
              obj[queue[w][i]].num < obj[queue[w][j]].num)'
    BY <1>4 DEF Go, ReaderType, ExecType, KeepObjs, OnceInv
  <2> QED
    BY SMTT(60), <2>1, <2>2, <2>3, <2>4, <2>5, <2>6 DEF OnceInv
<1>5. ASSUME NEW c \in Conns, Send(c)
     PROVE  OnceInv'
  <2>1. SendEffect(c)
    BY <1>5, SendFacts
  <2>0. (\A w \in Workers : \A i \in 1..Len(queue'[w]) :
            \/ i \in 1..Len(queue[w]) /\ queue'[w][i] = queue[w][i]
            \/ /\ w = conf.workerID[c] /\ i = Len(queue[w]) + 1
               /\ queue'[w][i] = hand[c])
    BY SMTT(60), <1>5, SendEntries
  <2>2. (\A b \in Conns : hand[b] # 0 =>
          \A w \in Workers : \A i \in 1..Len(queue[w]) : ~Same(hand[b], queue[w][i]))'
    <3> SUFFICES ASSUME NEW d \in Conns, hand'[d] # 0, NEW w \in Workers,
                        NEW i \in 1..Len(queue'[w])
                 PROVE  ~Same(hand[d], queue[w][i])'
      OBVIOUS
    <3>1. obj' = obj /\ d # c /\ hand'[d] = hand[d] /\ hand[d] # 0 /\ hand[c] # 0
      BY SMTT(60), <1>5, <2>1 DEF SendEffect, Send
    <3>2. CASE i \in 1..Len(queue[w]) /\ queue'[w][i] = queue[w][i]
      BY SMTT(60), <3>1, <3>2 DEF Same, OnceInv
    <3>3. CASE queue'[w][i] = hand[c]
      BY <3>1, <3>3 DEF Same, StateInv
    <3> QED
      BY <2>0, <3>2, <3>3
  <2>3. (\A b \in Conns : hand[b] # 0 => \A e \in Started : ~Same(hand[b], cur[e]))'
    BY SMTT(60), <2>1, <2>0, QueueFacts DEF SendEffect, OnceInv, Same
  <2>4. (\A e \in Started, w \in Workers : \A i \in 1..Len(queue[w]) :
          ~Same(cur[e], queue[w][i]))'
    <3> SUFFICES ASSUME NEW e \in Started, NEW w \in Workers, NEW i \in 1..Len(queue'[w])
                 PROVE  ~Same(cur[e], queue[w][i])'
      BY <2>1 DEF SendEffect
    <3>1. obj' = obj /\ cur' = cur /\ hand[c] # 0
      BY SMTT(60), <1>5, <2>1 DEF SendEffect, Send
    <3>2. CASE i \in 1..Len(queue[w]) /\ queue'[w][i] = queue[w][i]
      BY <3>1, <3>2 DEF Same, OnceInv
    <3>3. CASE queue'[w][i] = hand[c]
      BY <3>1, <3>3 DEF Same, OnceInv
    <3> QED
      BY <2>0, <3>2, <3>3
  <2>5. (\A e, f \in Started : e # f => ~Same(cur[e], cur[f]))'
    BY SMTT(60), <2>1, <2>0, QueueFacts DEF SendEffect, OnceInv, Same
  <2>6. (\A e, f \in Busy : e # f => ~Same(cur[e], cur[f]))'
    BY SMTT(60), <2>1, <2>0, QueueFacts DEF SendEffect, OnceInv, Same
  <2>7. (\A w \in Workers : \A i, j \in 1..Len(queue[w]) :
          i < j /\ obj[queue[w][i]].conn = obj[queue[w][j]].conn =>
              obj[queue[w][i]].num < obj[queue[w][j]].num)'
    <3> SUFFICES ASSUME NEW w \in Workers, NEW i \in 1..Len(queue'[w]),
                        NEW j \in 1..Len(queue'[w]), i < j,
                        obj'[queue'[w][i]].conn = obj'[queue'[w][j]].conn
                 PROVE  obj'[queue'[w][i]].num < obj'[queue'[w][j]].num
      BY SMTT(60)
    <3>1. obj' = obj /\ hand[c] # 0 /\ hand[c] \in Requests /\ Len(queue[w]) \in Nat
      BY SMTT(60), <1>5, <2>1 DEF SendEffect, Send
    <3>2. CASE j \in 1..Len(queue[w])
      <4>1. i \in 1..Len(queue[w])
        BY <2>1, <2>0, <3>1, <3>2
      <4>2. queue'[w][i] = queue[w][i] /\ queue'[w][j] = queue[w][j]
        BY <2>0, <3>1, <3>2, <4>1
      <4> QED
        BY SMTT(60), <3>1, <3>2, <4>1, <4>2 DEF OnceInv
    <3>3. CASE ~(j \in 1..Len(queue[w]))
      <4>1. j = Len(queue[w]) + 1 /\ queue'[w][j] = hand[c]
        BY <2>0, <3>3
      <4>2. i \in 1..Len(queue[w]) /\ queue'[w][i] = queue[w][i]
        BY <2>0, <3>1, <4>1
      <4>3. /\ obj[hand[c]].conn = c /\ obj[hand[c]].num = taken[c]
            /\ Waiting(queue[w][i]) /\ ~Same(hand[c], queue[w][i])
        BY <3>1, <4>2 DEF StateInv, OnceInv
      <4>4. taken[c] \in Nat
        BY TakenType
      <4>5. /\ obj[queue[w][i]].num \in 1..taken[c]
            /\ obj[queue[w][i]].num # taken[c]
        BY <3>1, <4>1, <4>2, <4>3 DEF Waiting, Same
      <4> QED
        BY <3>1, <4>1, <4>2, <4>3, <4>4, <4>5
    <3> QED
      BY <3>2, <3>3
  <2> QED
    BY SMTT(60), <2>2, <2>3, <2>4, <2>5, <2>6, <2>7 DEF OnceInv
<1>6. ASSUME NEW w \in Workers, Take(w)
     PROVE  OnceInv'
  <2>1. TakeEffect(w)
    BY <1>6, TakeFacts
  <2>0. \A v \in Workers : \A i \in 1..Len(queue'[v]) : \E k \in 1..Len(queue[v]) :
            /\ queue'[v][i] = queue[v][k]
            /\ v = w => k = i + 1 /\ k # 1
            /\ v # w => k = i
    BY SMTT(60), <1>6, TakeEntries
  <2>2. (\A c \in Conns : hand[c] # 0 =>
          \A u \in Workers : \A i \in 1..Len(queue[u]) : ~Same(hand[c], queue[u][i]))'
    <3> SUFFICES ASSUME NEW c \in Conns, hand[c] # 0, NEW v \in Workers,
                        NEW i \in 1..Len(queue'[v])
                 PROVE  ~Same(hand[c], queue[v][i])'
      BY <2>1 DEF TakeEffect
    <3>1. PICK k \in 1..Len(queue[v]) : queue'[v][i] = queue[v][k]
      BY <2>0
    <3>2. obj' = obj /\ hand' = hand
      BY <2>1 DEF TakeEffect
    <3> QED
      BY <3>1, <3>2 DEF Same, OnceInv
  <2>3. (\A c \in Conns : hand[c] # 0 => \A e \in Started : ~Same(hand[c], cur[e]))'
    BY SMTT(60), <2>1, ExecFacts DEF TakeEffect, Same, OnceInv
  <2>4. (\A e \in Started, u \in Workers : \A i \in 1..Len(queue[u]) :
          ~Same(cur[e], queue[u][i]))'
    <3> SUFFICES ASSUME NEW e \in Started, NEW v \in Workers, NEW i \in 1..Len(queue'[v])
                 PROVE  ~Same(cur[e], queue[v][i])'
      BY <2>1 DEF TakeEffect
    <3>1. PICK k \in 1..Len(queue[v]) : queue'[v][i] = queue[v][k]
      BY <2>0
    <3>2. obj' = obj /\ e \in Requests /\ e # w
      BY <2>1, ExecFacts DEF TakeEffect
    <3>3. cur'[e] = cur[e]
      BY <2>1, <3>2 DEF TakeEffect
    <3> QED
      BY <3>1, <3>2, <3>3 DEF Same, OnceInv
  <2>5. (\A e, f \in Started : e # f => ~Same(cur[e], cur[f]))'
    <3> SUFFICES ASSUME NEW e \in Started, NEW f \in Started, e # f
                 PROVE  ~Same(cur[e], cur[f])'
      BY <2>1 DEF TakeEffect
    <3>2. obj' = obj /\ e \in Requests /\ e # w /\ f \in Requests /\ f # w
      BY <2>1, ExecFacts DEF TakeEffect
    <3>3. cur'[e] = cur[e] /\ cur'[f] = cur[f]
      BY <2>1, <3>2 DEF TakeEffect
    <3> QED
      BY <3>2, <3>3 DEF Same, OnceInv
  <2>6. (\A e, f \in Busy : e # f => ~Same(cur[e], cur[f]))'
    <3>1. /\ obj' = obj /\ w \in Executors /\ w \notin Busy
          /\ \A f \in Busy : f \in Executors /\ f # w /\ cur'[f] = cur[f]
      BY <2>1, ExecFacts DEF TakeEffect
    <3>2. CASE Busy' = Busy
      BY <3>1, <3>2 DEF Same, OnceInv
    <3>3. CASE Busy' = Busy \cup {w} /\ cur'[w] = queue[w][1]
      <4>1. Waiting(queue[w][1])
        BY SMTT(60), <2>1 DEF TakeEffect, StateInv
      <4>2. \A f \in Busy : ~Same(queue[w][1], cur[f]) /\ ~Same(cur[f], queue[w][1])
        BY <4>1 DEF StateInv, Waiting, Begun, Same
      <4> QED
        BY <3>1, <3>3, <4>2 DEF Same, OnceInv
    <3> QED
      BY <2>1, <3>2, <3>3 DEF TakeEffect
  <2>7. (\A u \in Workers : \A i, j \in 1..Len(queue[u]) :
          i < j /\ obj[queue[u][i]].conn = obj[queue[u][j]].conn =>
              obj[queue[u][i]].num < obj[queue[u][j]].num)'
    <3> SUFFICES ASSUME NEW v \in Workers, NEW i \in 1..Len(queue'[v]),
                        NEW j \in 1..Len(queue'[v]), i < j,
                        obj'[queue'[v][i]].conn = obj'[queue'[v][j]].conn
                 PROVE  obj'[queue'[v][i]].num < obj'[queue'[v][j]].num
      OBVIOUS
    <3>1. PICK k \in 1..Len(queue[v]) :
             queue'[v][i] = queue[v][k] /\ (v = w => k = i + 1) /\ (v # w => k = i)
      BY <2>0
    <3>2. PICK l \in 1..Len(queue[v]) :
             queue'[v][j] = queue[v][l] /\ (v = w => l = j + 1) /\ (v # w => l = j)
      BY <2>0
    <3>3. obj' = obj /\ k < l
      BY <2>1, <3>1, <3>2 DEF TakeEffect
    <3> QED
      BY SMTT(60), <3>1, <3>2, <3>3 DEF OnceInv
  <2> QED
    BY SMTT(60), <2>2, <2>3, <2>4, <2>5, <2>6, <2>7 DEF OnceInv
<1>7. ASSUME NEW r \in Requests, Run(r)
     PROVE  OnceInv'
  <2>1. RunEffect(r)
    BY <1>7, RunFacts
  <2>2. (\A c \in Conns : hand[c] # 0 =>
          \A w \in Workers : \A i \in 1..Len(queue[w]) : ~Same(hand[c], queue[w][i]))'
    BY SMTT(60), <2>1 DEF RunEffect, Same, OnceInv
  <2>3. (\A c \in Conns : hand[c] # 0 => \A e \in Started : ~Same(hand[c], cur[e]))'
    <3>1. \A f \in Started' : f \in Started /\ f # r /\ f \in Executors
      BY <2>1, ExecFacts DEF RunEffect
    <3>2. \A f \in Started' : cur'[f] = cur[f]
      BY <2>1, <3>1 DEF RunEffect
    <3>3. obj' = obj /\ hand' = hand /\ queue' = queue
      BY <2>1 DEF RunEffect
    <3> QED
      BY <3>1, <3>2, <3>3 DEF Same, OnceInv
  <2>4. (\A e \in Started, w \in Workers : \A i \in 1..Len(queue[w]) :
          ~Same(cur[e], queue[w][i]))'
    <3>1. \A f \in Started' : f \in Started /\ f # r /\ f \in Executors
      BY <2>1, ExecFacts DEF RunEffect
    <3>2. \A f \in Started' : cur'[f] = cur[f]
      BY <2>1, <3>1 DEF RunEffect
    <3>3. obj' = obj /\ hand' = hand /\ queue' = queue
      BY <2>1 DEF RunEffect
    <3> QED
      BY <3>1, <3>2, <3>3 DEF Same, OnceInv
  <2>5. (\A e, f \in Started : e # f => ~Same(cur[e], cur[f]))'
    <3>1. \A f \in Started' : f \in Started /\ f # r /\ f \in Executors
      BY <2>1, ExecFacts DEF RunEffect
    <3>2. \A f \in Started' : cur'[f] = cur[f]
      BY <2>1, <3>1 DEF RunEffect
    <3>3. obj' = obj /\ hand' = hand /\ queue' = queue
      BY <2>1 DEF RunEffect
    <3> QED
      BY <3>1, <3>2, <3>3 DEF Same, OnceInv
  <2>6. (\A e, f \in Busy : e # f => ~Same(cur[e], cur[f]))'
    <3>1. /\ obj' = obj /\ r \in Executors /\ r \notin Busy
          /\ \A f \in Busy : f \in Executors /\ f # r /\ cur'[f] = cur[f]
      BY <2>1, ExecFacts DEF RunEffect
    <3>2. CASE Busy' = Busy
      BY <3>1, <3>2 DEF Same, OnceInv
    <3>3. CASE Busy' = Busy \cup {r} /\ cur'[r] = r
      <4>1. Waiting(r)
        BY SMTT(60), <2>1, ExecFacts DEF RunEffect, StateInv
      <4>2. \A f \in Busy : ~Same(r, cur[f]) /\ ~Same(cur[f], r)
        BY <4>1 DEF StateInv, Waiting, Begun, Same
      <4> QED
        BY <3>1, <3>3, <4>2 DEF Same, OnceInv
    <3> QED
      BY <2>1, <3>2, <3>3 DEF RunEffect
  <2>7. (\A w \in Workers : \A i, j \in 1..Len(queue[w]) :
          i < j /\ obj[queue[w][i]].conn = obj[queue[w][j]].conn =>
              obj[queue[w][i]].num < obj[queue[w][j]].num)'
    BY SMTT(60), <2>1 DEF RunEffect, OnceInv
  <2> QED
    BY SMTT(60), <2>2, <2>3, <2>4, <2>5, <2>6, <2>7 DEF OnceInv
<1>8. ASSUME NEW e \in Executors, Finish(e)
     PROVE  OnceInv'
  <2>1. (\A c \in Conns : hand[c] # 0 =>
          \A w \in Workers : \A i \in 1..Len(queue[w]) : ~Same(hand[c], queue[w][i]))'
    BY <1>8 DEF Finish, ExecType, KeepHands, KeepObjs, Same, OnceInv
  <2>2. (\A c \in Conns : hand[c] # 0 => \A g \in Started : ~Same(hand[c], cur[g]))'
    <3>1. \A f \in Started : cur'[f] = cur[f]
      BY <1>8, ExecFacts DEF Finish, ExecType
    <3> QED
      BY <1>8, <3>1 DEF Finish, ExecType, KeepHands, KeepObjs, Same, OnceInv
  <2>3. (\A g \in Started, w \in Workers : \A i \in 1..Len(queue[w]) :
          ~Same(cur[g], queue[w][i]))'
    <3>1. \A f \in Started : cur'[f] = cur[f]
      BY <1>8, ExecFacts DEF Finish, ExecType
    <3> QED
      BY SMTT(60), <1>8, <3>1 DEF Finish, ExecType, KeepHands, KeepObjs, Same, OnceInv
  <2>4. (\A g, f \in Started : g # f => ~Same(cur[g], cur[f]))'
    <3>1. \A f \in Started : cur'[f] = cur[f]
      BY <1>8, ExecFacts DEF Finish, ExecType
    <3> QED
      BY <1>8, <3>1 DEF Finish, ExecType, KeepHands, KeepObjs, Same, OnceInv
  <2>5. (\A g, f \in Busy : g # f => ~Same(cur[g], cur[f]))'
    <3>1. \A f \in Busy' : f \in Busy /\ f # e /\ cur'[f] = cur[f]
      BY <1>8, ExecFacts DEF Finish, ExecType
    <3> QED
      BY <1>8, <3>1 DEF Finish, ExecType, KeepObjs, Same, OnceInv
  <2>6. (\A w \in Workers : \A i, j \in 1..Len(queue[w]) :
          i < j /\ obj[queue[w][i]].conn = obj[queue[w][j]].conn =>
              obj[queue[w][i]].num < obj[queue[w][j]].num)'
    BY SMTT(60), <1>8 DEF Finish, ExecType, KeepObjs, OnceInv
  <2> QED
    BY SMTT(60), <2>1, <2>2, <2>3, <2>4, <2>5, <2>6 DEF OnceInv
<1> QED
  BY <1>1, <1>2, <1>3, <1>4, <1>5, <1>6, <1>7, <1>8 DEF Move

\* A frame that waits is with the reader of its connection or in the queue of its worker.
Placed(c, m) ==
    \/ hand[c] # 0 /\ m = taken[c]
    \/ \E i \in 1..Len(queue[conf.workerID[c]]) :
          LET r == queue[conf.workerID[c]][i]
          IN  obj[r].conn = c /\ obj[r].num = m

\* With the pool, what waits stays where the worker of its connection finds it.
LEMMA PoolStep ==
    ASSUME Basis, HandsInv, QueuesInv, FreeInv, StateInv, OnceInv, PoolInv, Move
    PROVE  PoolInv'
<1> USE RequestFacts DEF Basis
<1>1. CASE Quiet
  <2> SUFFICES ASSUME usePool, usePool' PROVE PoolInv'
    <3>1. usePool' => usePool
      BY <1>1 DEF Quiet, KeepConf
    <3>2. ~usePool' => PoolInv'
      BY SMTT(60) DEF PoolInv
    <3> QED
      BY <3>1, <3>2
  <2>1. (Started = {})'
    BY <1>1 DEF Quiet, KeepExecs, PoolInv
  <2>2. (\A e \in Busy : e = conf.workerID[obj[cur[e]].conn])'
    BY <1>1 DEF Quiet, KeepConf, KeepExecs, KeepObjs, PoolInv
  <2>3. (\A c \in Conns : \A m \in (1..taken[c]) \ settled[c] :
          \/ hand[c] # 0 /\ m = taken[c]
          \/ \E i \in 1..Len(queue[conf.workerID[c]]) :
                LET r == queue[conf.workerID[c]][i]
                IN  obj[r].conn = c /\ obj[r].num = m)'
    BY SMTT(60), <1>1 DEF Quiet, KeepConf, KeepHands, KeepTaken, KeepObjs, PoolInv
  <2> QED
    BY SMTT(60), <2>1, <2>2, <2>3 DEF PoolInv
<1>2. ASSUME NEW c \in Conns, NEW r \in Requests, Get(c, r)
     PROVE  PoolInv'
  <2> SUFFICES ASSUME usePool, usePool' PROVE PoolInv'
    <3>1. usePool' => usePool
      BY <1>2 DEF Get, KeepConf
    <3>2. ~usePool' => PoolInv'
      BY SMTT(60) DEF PoolInv
    <3> QED
      BY <3>1, <3>2
  <2>1. GetEffect(c, r)
    BY <1>2, GetFacts
  <2>2. (Started = {})'
    BY SMTT(60), <2>1 DEF GetEffect, PoolInv
  <2>3. (\A e \in Busy : e = conf.workerID[obj[cur[e]].conn])'
    <3> SUFFICES ASSUME NEW e \in Busy
                 PROVE  e = conf'.workerID[obj'[cur'[e]].conn]
      BY <2>1 DEF GetEffect
    <3>1. cur' = cur /\ conf' = conf /\ obj'[cur[e]] = obj[cur[e]]
      BY <2>1, ExecFacts DEF GetEffect
    <3> QED
      BY SMTT(60), <3>1 DEF PoolInv
  <2>4. (\A b \in Conns : \A m \in (1..taken[b]) \ settled[b] :
          \/ hand[b] # 0 /\ m = taken[b]
          \/ \E i \in 1..Len(queue[conf.workerID[b]]) :
                LET q == queue[conf.workerID[b]][i]
                IN  obj[q].conn = b /\ obj[q].num = m)'
    <3> SUFFICES ASSUME NEW d \in Conns, NEW m \in (1..taken'[d]) \ settled'[d]
                 PROVE  Placed(d, m)'
      BY DEF Placed
    <3>1. /\ conf' = conf /\ queue' = queue /\ settled' = settled /\ r # 0
          /\ taken[d] \in Nat /\ conf.workerID[d] \in Workers
      BY SMTT(60), <2>1, ConfigAssumption DEF GetEffect, ReaderType
    <3>2. CASE d = c /\ m = taken[c] + 1
      <4>1. hand'[c] = r /\ taken'[c] = taken[c] + 1
        BY <2>1 DEF GetEffect
      <4> QED
        BY <3>1, <3>2, <4>1 DEF Placed
    <3>3. CASE ~(d = c /\ m = taken[c] + 1)
      <4>1. m \in (1..taken[d]) \ settled[d]
        BY <2>1, <3>1, <3>3 DEF GetEffect
      <4>2. Placed(d, m)
        BY <4>1 DEF PoolInv, Placed
      <4>3. CASE hand[d] # 0 /\ m = taken[d]
        <5>1. d # c
          BY SMTT(60), <1>2, <4>3 DEF Get, ReaderType
        <5> QED
          BY SMTT(60), <2>1, <4>3, <5>1 DEF GetEffect, Placed
      <4>4. ASSUME NEW i \in 1..Len(queue[conf.workerID[d]]),
                   obj[queue[conf.workerID[d]][i]].conn = d,
                   obj[queue[conf.workerID[d]][i]].num = m
            PROVE  Placed(d, m)'
        <5>1. queue[conf.workerID[d]][i] \in Requests /\ queue[conf.workerID[d]][i] # r
          BY <2>1, <3>1, QueueFacts DEF GetEffect
        <5>2. obj'[queue[conf.workerID[d]][i]] = obj[queue[conf.workerID[d]][i]]
          BY SMTT(60), <2>1, <5>1 DEF GetEffect
        <5> QED
          BY <3>1, <4>4, <5>2 DEF Placed
      <4> QED
        BY ZenonT(30), <4>2, <4>3, <4>4 DEF Placed
    <3> QED
      BY <3>2, <3>3
  <2> QED
    BY SMTT(60), <2>2, <2>3, <2>4 DEF PoolInv
<1>3. ASSUME NEW c \in Conns, Discard(c)
     PROVE  PoolInv'
  <2> SUFFICES ASSUME usePool, usePool' PROVE PoolInv'
    <3>1. usePool' => usePool
      BY <1>3 DEF Discard, KeepConf
    <3>2. ~usePool' => PoolInv'
      BY SMTT(60) DEF PoolInv
    <3> QED
      BY <3>1, <3>2
  <2>1. (Started = {})'
    BY <1>3 DEF Discard, ReaderType, KeepExecs, PoolInv
  <2>2. (\A e \in Busy : e = conf.workerID[obj[cur[e]].conn])'
    BY <1>3 DEF KeepConf, Discard, KeepExecs, KeepObjs, PoolInv
  <2>3. (\A b \in Conns : \A m \in (1..taken[b]) \ settled[b] :
          \/ hand[b] # 0 /\ m = taken[b]
          \/ \E i \in 1..Len(queue[conf.workerID[b]]) :
                LET r == queue[conf.workerID[b]][i]
                IN  obj[r].conn = b /\ obj[r].num = m)'
    <3> SUFFICES ASSUME NEW d \in Conns, NEW m \in (1..taken'[d]) \ settled'[d]
                 PROVE  Placed(d, m)'
      BY DEF Placed
    <3>1. /\ conf' = conf /\ queue' = queue /\ taken' = taken /\ obj' = obj
          /\ hand[c] \in Requests /\ hand[c] # 0 /\ SettleMove(hand[c])
      BY <1>3 DEF Discard, ReaderType, KeepConf, KeepTaken, KeepObjs
    <3>2. Waiting(hand[c]) /\ obj[hand[c]].conn = c /\ obj[hand[c]].num = taken[c]
      BY SMTT(60), <3>1 DEF StateInv
    <3>3. m \in (1..taken[d]) \ settled[d] /\ (d = c => m # taken[c])
      BY <3>1, <3>2 DEF SettleMove
    <3>4. Placed(d, m)
      BY <3>3 DEF PoolInv, Placed
    <3>5. d # c => hand'[d] = hand[d]
      BY <1>3 DEF Discard, ReaderType
    <3> QED
      BY ZenonT(30), <3>1, <3>3, <3>4, <3>5 DEF Placed
  <2> QED
    BY SMTT(60), <2>1, <2>2, <2>3 DEF PoolInv
<1>4. ASSUME NEW c \in Conns, Go(c)
     PROVE  PoolInv'
  <2>1. ~usePool'
    BY SMTT(60), <1>4 DEF KeepConf, Go
  <2> QED
    BY SMTT(60), <2>1 DEF PoolInv
<1>5. ASSUME NEW c \in Conns, Send(c)
     PROVE  PoolInv'
  <2> SUFFICES ASSUME usePool, usePool' PROVE PoolInv'
    <3>1. usePool' => usePool
      BY <1>5 DEF Send, KeepConf
    <3>2. ~usePool' => PoolInv'
      BY SMTT(60) DEF PoolInv
    <3> QED
      BY <3>1, <3>2
  <2>1. SendEffect(c)
    BY <1>5, SendFacts
  <2>0. (\A w \in Workers : \A i \in 1..Len(queue'[w]) :
            \/ i \in 1..Len(queue[w]) /\ queue'[w][i] = queue[w][i]
            \/ /\ w = conf.workerID[c] /\ i = Len(queue[w]) + 1
               /\ queue'[w][i] = hand[c])
    BY SMTT(60), <1>5, SendEntries
  <2>2. (Started = {})'
    BY SMTT(60), <2>1 DEF SendEffect, PoolInv
  <2>3. (\A e \in Busy : e = conf.workerID[obj[cur[e]].conn])'
    BY SMTT(60), <2>1 DEF SendEffect, PoolInv
  <2>4. (\A b \in Conns : \A m \in (1..taken[b]) \ settled[b] :
          \/ hand[b] # 0 /\ m = taken[b]
          \/ \E i \in 1..Len(queue[conf.workerID[b]]) :
                LET r == queue[conf.workerID[b]][i]
                IN  obj[r].conn = b /\ obj[r].num = m)'
    <3> SUFFICES ASSUME NEW d \in Conns, NEW m \in (1..taken'[d]) \ settled'[d]
                 PROVE  Placed(d, m)'
      BY DEF Placed
    <3>1. /\ conf' = conf /\ taken' = taken /\ obj' = obj /\ settled' = settled
          /\ hand[c] # 0
      BY SMTT(60), <1>5, <2>1 DEF SendEffect, Send
    <3>2. Placed(d, m)
      BY <3>1 DEF PoolInv, Placed
    <3>3. conf.workerID[d] \in Workers
      BY ConfigAssumption DEF ReaderType
    <3>4. ASSUME NEW i \in 1..Len(queue[conf.workerID[d]])
          PROVE  /\ i \in 1..Len(queue'[conf.workerID[d]])
                 /\ queue'[conf.workerID[d]][i] = queue[conf.workerID[d]][i]
      BY SMTT(60), <1>5, <3>3, SendEntries
    <3>5. CASE hand[d] # 0 /\ m = taken[d]
      <4>1. CASE d # c
        BY SMTT(60), <2>1, <3>1, <3>5, <4>1 DEF SendEffect, Placed
      <4>2. CASE d = c
        <5> DEFINE v == conf.workerID[c]
                   n == Len(queue[v]) + 1
        <5>1. Len(queue'[v]) = n /\ queue'[v][n] = hand[c] /\ Len(queue[v]) \in Nat
          BY <2>1, <3>3, <4>2 DEF SendEffect
        <5>2. n \in 1..Len(queue'[v])
          BY <5>1
        <5>3. obj[hand[c]].conn = c /\ obj[hand[c]].num = m
          BY SMTT(60), <3>1, <3>5, <4>2 DEF StateInv
        <5> QED
          BY <3>1, <4>2, <5>1, <5>2, <5>3 DEF Placed
      <4> QED
        BY <4>1, <4>2
    <3>6. CASE ~(hand[d] # 0 /\ m = taken[d])
      BY ZenonT(30), <3>1, <3>2, <3>4, <3>6 DEF Placed
    <3> QED
      BY <3>5, <3>6
  <2> QED
    BY SMTT(60), <2>2, <2>3, <2>4 DEF PoolInv
<1>6. ASSUME NEW w \in Workers, Take(w)
     PROVE  PoolInv'
  <2> SUFFICES ASSUME usePool, usePool' PROVE PoolInv'
    <3>1. usePool' => usePool
      BY <1>6 DEF Take, KeepConf
    <3>2. ~usePool' => PoolInv'
      BY SMTT(60) DEF PoolInv
    <3> QED
      BY <3>1, <3>2
  <2>1. TakeEffect(w)
    BY <1>6, TakeFacts
  <2>0. \A v \in Workers : \A i \in 1..Len(queue'[v]) : \E k \in 1..Len(queue[v]) :
            /\ queue'[v][i] = queue[v][k]
            /\ v = w => k = i + 1 /\ k # 1
            /\ v # w => k = i
    BY SMTT(60), <1>6, TakeEntries
  <2>2. (Started = {})'
    BY SMTT(60), <2>1 DEF TakeEffect, PoolInv
  <2>3. (\A e \in Busy : e = conf.workerID[obj[cur[e]].conn])'
    <3>1. /\ obj' = obj /\ conf' = conf /\ w \in Executors
          /\ \A f \in Busy : f \in Executors /\ f # w /\ cur'[f] = cur[f]
      BY <2>1, ExecFacts DEF TakeEffect
    <3>2. CASE Busy' = Busy
      BY SMTT(60), <3>1, <3>2 DEF PoolInv
    <3>3. CASE Busy' = Busy \cup {w} /\ cur'[w] = queue[w][1]
      <4>1. w \in Workers /\ 1 \in 1..Len(queue[w])
        BY <2>1 DEF TakeEffect
      <4>2. w = conf.workerID[obj[queue[w][1]].conn]
        BY SMTT(60), <4>1 DEF StateInv
      <4> QED
        BY SMTT(60), <3>1, <3>3, <4>2 DEF PoolInv
    <3> QED
      BY <2>1, <3>2, <3>3 DEF TakeEffect
  <2>4. (\A c \in Conns : \A m \in (1..taken[c]) \ settled[c] :
          \/ hand[c] # 0 /\ m = taken[c]
          \/ \E i \in 1..Len(queue[conf.workerID[c]]) :
                LET r == queue[conf.workerID[c]][i]
                IN  obj[r].conn = c /\ obj[r].num = m)'
    <3> SUFFICES ASSUME NEW d \in Conns, NEW m \in (1..taken'[d]) \ settled'[d]
                 PROVE  Placed(d, m)'
      BY DEF Placed
    <3>1. /\ conf' = conf /\ taken' = taken /\ obj' = obj /\ hand' = hand
          /\ SettleMove(queue[w][1]) /\ 1 \in 1..Len(queue[w])
      BY <2>1 DEF TakeEffect
    <3>2. m \in (1..taken[d]) \ settled[d]
      BY <3>1 DEF SettleMove
    <3>3. Placed(d, m)
      BY <3>2 DEF PoolInv, Placed
    <3> DEFINE v == conf.workerID[d]
    <3>4. v \in Workers
      BY ConfigAssumption DEF ReaderType
    <3>5. CASE hand[d] # 0 /\ m = taken[d]
      BY <3>1, <3>5 DEF Placed
    <3>6. ASSUME NEW i \in 1..Len(queue[v]),
                 obj[queue[v][i]].conn = d, obj[queue[v][i]].num = m
          PROVE  Placed(d, m)'
      <4>1. CASE v # w
        BY SMTT(60), <2>1, <3>1, <3>4, <3>6, <4>1 DEF TakeEffect, Placed
      <4>2. CASE v = w
        <5>1. i # 1
          BY <3>1, <3>6, <4>2 DEF SettleMove
        <5>2. i - 1 \in 1..Len(queue'[w]) /\ (i - 1) + 1 = i
          BY <2>1, <4>2, <5>1 DEF TakeEffect
        <5>3. queue'[w][i - 1] = queue[w][i]
          BY <2>1, <5>2 DEF TakeEffect
        <5> QED
          BY <3>1, <3>6, <4>2, <5>2, <5>3 DEF Placed
      <4> QED
        BY SMTT(60), <4>1, <4>2
    <3> QED
      BY ZenonT(30), <3>3, <3>5, <3>6 DEF Placed
  <2> QED
    BY SMTT(60), <2>2, <2>3, <2>4 DEF PoolInv
<1>7. ASSUME NEW r \in Requests, Run(r)
     PROVE  PoolInv'
  <2>1. Started # {} /\ usePool' = usePool
    BY <1>7 DEF Run, KeepConf
  <2> QED
    BY SMTT(60), <2>1 DEF PoolInv
<1>8. ASSUME NEW e \in Executors, Finish(e)
     PROVE  PoolInv'
  <2> SUFFICES ASSUME usePool, usePool' PROVE PoolInv'
    <3>1. usePool' => usePool
      BY <1>8 DEF Finish, KeepConf
    <3>2. ~usePool' => PoolInv'
      BY SMTT(60) DEF PoolInv
    <3> QED
      BY <3>1, <3>2
  <2>1. (Started = {})'
    BY <1>8 DEF Finish, ExecType, PoolInv
  <2>2. (\A g \in Busy : g = conf.workerID[obj[cur[g]].conn])'
    <3>1. \A f \in Busy' : f \in Busy /\ f # e /\ cur'[f] = cur[f]
      BY SMTT(60), <1>8, ExecFacts DEF Finish, ExecType
    <3> QED
      BY <1>8, <3>1 DEF Finish, ExecType, KeepConf, KeepObjs, PoolInv
  <2>3. (\A c \in Conns : \A m \in (1..taken[c]) \ settled[c] :
          \/ hand[c] # 0 /\ m = taken[c]
          \/ \E i \in 1..Len(queue[conf.workerID[c]]) :
                LET r == queue[conf.workerID[c]][i]
                IN  obj[r].conn = c /\ obj[r].num = m)'
    BY <1>8 DEF Finish, ExecType, KeepConf, KeepHands, KeepTaken, KeepObjs, PoolInv
  <2> QED
    BY SMTT(60), <2>1, <2>2, <2>3 DEF PoolInv
<1> QED
  BY <1>1, <1>2, <1>3, <1>4, <1>5, <1>6, <1>7, <1>8 DEF Move

\* What a step does to the requests that are still to be logged: it adds none, or the
\* reader of c queues its request, or the reader of c, which has none, makes a request.
SeenKept ==
    /\ \A d \in Conns : seen'[d] \in {0, seen[d]}
    /\ conf' = conf /\ obj' = obj /\ fresh' = fresh /\ taken' = taken

SeenSent(c) ==
    /\ hand[c] # 0 /\ seen' = [seen EXCEPT ![c] = hand[c]]
    /\ conf' = conf /\ obj' = obj /\ fresh' = fresh /\ taken' = taken

SeenMade(c) ==
    /\ seen' = seen /\ seen[c] = 0
    /\ conf' = conf /\ fresh' \in {fresh, fresh + 1}
    /\ \A d \in Conns : d # c => taken'[d] = taken[d]
    /\ ~conf.pool => \A s \in Requests : s < fresh => obj'[s] = obj[s]

LEMMA SeenMoves ==
    ASSUME Basis, ResponseInv, [Next]_vars
    PROVE  SeenKept \/ \E c \in Conns : SeenSent(c) \/ SeenMade(c)
<1> USE DEF Basis, ReaderType, readerVars, objVars
<1>1. ASSUME NEW c \in Conns, EnterRead(c) \/ ReaderDone(c) \/ Withhold(c) \/ ChainPanic(c)
      PROVE  SeenKept
  BY <1>1 DEF EnterRead, ReaderDone, Withhold, ChainPanic, SeenKept, taken
<1>2. ASSUME NEW c \in Conns, UsePool(c) \/ GoHandler(c) \/ Stop(c) \/ CloseSocket(c)
      PROVE  SeenKept
  BY <1>2 DEF UsePool, GoHandler, Pass, Stop, CloseSocket, SeenKept, taken
<1>3. ASSUME NEW c \in Conns, SendMsgToTaskQueue(c)
      PROVE  SeenSent(c)
  BY <1>3 DEF SendMsgToTaskQueue, HandOver, SeenSent, taken, PlaceInv
<1>4. ASSUME NEW c \in Conns, LogData(c)
      PROVE  SeenKept
  BY <1>4 DEF LogData, SeenKept, taken
<1>5. ASSUME NEW c \in Conns, NEW k \in 1..MaxChunk, Read(c, k)
      PROVE  SeenKept
  <2>1. taken' = taken
    BY <1>5, LimitAssumption DEF Read, InRead, taken, CountType, PlaceInv
  <2> QED
    BY <1>5, <2>1 DEF Read, SeenKept
<1>6. ASSUME NEW c \in Conns, ReadError(c)
      PROVE  SeenKept
  BY <1>6 DEF ReadError, SeenKept, taken
<1>7. ASSUME NEW e \in Executors, Execute(e)
      PROVE  SeenKept
  BY <1>7
  DEF Execute, StartOneWorker, RunGoroutine, PutRequest, HandlerPanic, HandlerBlocks,
      SeenKept, taken
<1>8. CASE ClientRestart
  BY <1>8 DEF ClientRestart, SeenKept, taken
<1>9. CASE UNCHANGED vars
  BY <1>9 DEF vars, SeenKept, taken
<1>10. ASSUME NEW c \in Conns, GetRequest(c)
       PROVE  SeenMade(c)
  <2>1. seen' = seen /\ seen[c] = 0 /\ conf' = conf
    BY <1>10 DEF GetRequest, PlaceInv
  <2>2. PICK r \in Requests :
          /\ \/ r = fresh /\ fresh' = fresh + 1 /\ pool' = pool
             \/ r \in pool /\ pool' = pool \ {r} /\ fresh' = fresh
          /\ \E request \in Intercept(Reset(r, c, nread[c] - rest[c] + 1)) :
                obj' = [obj EXCEPT ![r] = request]
    BY <1>10 DEF GetRequest
  <2>3. \A d \in Conns : d # c => taken'[d] = taken[d]
    BY <1>10 DEF GetRequest, taken, CountType
  <2>4. ASSUME ~conf.pool, NEW s \in Requests, s < fresh
        PROVE  obj'[s] = obj[s]
    <3>1. r = fresh /\ fresh \in Nat
      BY <2>2, <2>4 DEF ResponseInv, ObjType
    <3>2. s # r
      BY <2>4, <3>1, RequestFacts
    <3> QED
      BY <2>2, <3>2 DEF ObjType
  <2> QED
    BY <2>1, <2>2, <2>3, <2>4 DEF SeenMade
<1> QED
  BY <1>1, <1>2, <1>3, <1>4, <1>5, <1>6, <1>7, <1>8, <1>9, <1>10 DEF Next, StartReader

\* A step keeps what is still to be logged.
LEMMA SeenStep ==
    ASSUME IInv, [Next]_vars
    PROVE  SeenInv'
<1>1. /\ fresh \in Nat /\ fresh > 0
      /\ \A d \in Conns : seen[d] \in Requests \cup {0} /\ hand[d] \in Requests \cup {0}
      /\ \A d \in Conns : seen[d] < fresh /\ hand[d] < fresh
      /\ \A s \in Requests : s \in Nat
  BY RequestFacts DEF IInv, Basis, ReaderType, FreeInv, SeenInv
<1>2. ~conf.pool => \A d \in Conns : seen[d] # 0 =>
          obj[seen[d]].conn = d /\ obj[seen[d]].num = taken[d]
  BY DEF IInv, SeenInv
<1>3. CASE SeenKept
  BY <1>1, <1>2, <1>3 DEF SeenKept, SeenInv
<1>4. ASSUME NEW c \in Conns, SeenSent(c)
      PROVE  SeenInv'
  <2>1. \A d \in Conns : seen'[d] = IF d = c THEN hand[c] ELSE seen[d]
    BY <1>4 DEF SeenSent, IInv, Basis, ReaderType
  <2>2. obj[hand[c]].conn = c /\ obj[hand[c]].num = taken[c]
    BY <1>4 DEF SeenSent, IInv, StateInv
  <2> QED
    BY <1>1, <1>2, <1>4, <2>1, <2>2 DEF SeenSent, SeenInv
<1>5. ASSUME NEW c \in Conns, SeenMade(c)
      PROVE  SeenInv'
  <2>1. \A d \in Conns : seen'[d] = seen[d] /\ (seen[d] # 0 => d # c)
    BY <1>5 DEF SeenMade
  <2>2. \A d \in Conns : seen'[d] < fresh'
    BY <1>1, <1>5, <2>1 DEF SeenMade
  <2>3. ASSUME ~conf.pool, NEW d \in Conns, seen[d] # 0
        PROVE  obj'[seen[d]].conn = d /\ obj'[seen[d]].num = taken'[d]
    BY <1>1, <1>2, <1>5, <2>1, <2>3 DEF SeenMade
  <2> QED
    BY <1>5, <2>1, <2>2, <2>3 DEF SeenMade, SeenInv
<1> QED
  BY <1>3, <1>4, <1>5, SeenMoves DEF IInv

-----------------------------------------------------------------------------
(* The theorems.                                                           *)

LEMMA InitIInv ==
    ASSUME Init
    PROVE  IInv
<1>1. Cardinality(Frames) \in Nat /\ \A c \in Conns : Quota[c] \in Nat
  BY FramesFinite, FS_CardinalityType, LimitAssumption
<1>2. ReaderType /\ FlagType
  BY DEF Init, ReaderType, FlagType
<1>12. CountType
  BY <1>1 DEF Init, CountType
<1>3. ObjType
  BY DEF Init, ObjType, RequestRecords
<1>4. QueueType
  BY LimitAssumption DEF Init, QueueType
<1>5. ExecType /\ PlaceInv
  BY RequestFacts DEF Init, ExecType, PlaceInv
<1>6. \A w \in Workers : /\ queue[w] = <<>> /\ Len(queue[w]) = 0
                         /\ ~(\E i \in 1..Len(queue[w]) : TRUE)
  BY DEF Init
<1>7. HandsInv /\ QueuesInv /\ FreeInv
  BY <1>6 DEF Init, HandsInv, QueuesInv, FreeInv
<1>8. ResponseInv /\ SeenInv
  BY DEF Init, ResponseInv, SeenInv
<1>9. Busy = {} /\ Started = {} /\ \A c \in Conns : taken[c] = 0 /\ settled[c] = {}
  BY DEF Init, Busy, Started, taken
<1>10. StateInv /\ OnceInv
  BY <1>6, <1>9 DEF Init, StateInv, OnceInv
<1>11. PoolInv
  BY SMTT(60), <1>9 DEF PoolInv
<1> QED
  BY <1>2, <1>3, <1>4, <1>5, <1>7, <1>8, <1>10, <1>11, <1>12 DEF IInv, Basis

LEMMA NextIInv ==
    ASSUME IInv, [Next]_vars
    PROVE  IInv'
<1> USE DEF IInv, Basis
<1>1. ReaderType' /\ CountType' /\ FlagType' /\ QueueType' /\ ExecType' /\ PlaceInv'
  BY ReaderStep, CountStep, FlagStep, QueueStep, ExecStep, PlaceStep
<1>2. Move
  BY <1>1, StepMoves
<1>3. ObjType'
  BY <1>2, ObjStep
<1>4. HandsInv' /\ QueuesInv' /\ FreeInv'
  BY <1>2, HandsStep, QueuesStep, FreeStep
<1>5. ResponseInv' /\ StateInv' /\ OnceInv' /\ PoolInv'
  BY <1>2, ResponseStep, StateStep, OnceStep, PoolStep
<1>6. SeenInv'
  BY SeenStep
<1> QED
  BY <1>1, <1>3, <1>4, <1>5, <1>6

LEMMA Inductive == Spec => []IInv
<1>1. Init => IInv
  BY InitIInv
<1>2. IInv /\ [Next]_vars => IInv'
  BY NextIInv
<1> QED
  BY <1>1, <1>2, PTL DEF Spec

\* In every reachable state the variables of the dispatch have their types; in
\* particular no queue is longer than MaxWorkerTaskLen.
THEOREM TypeCorrect == Spec => []TypeOK
<1>1. IInv => TypeOK
  BY DEF IInv, Basis, ReaderType, CountType, FlagType, ObjType, RequestRecords, QueueType,
         ExecType, TypeOK
<1> QED
  BY <1>1, Inductive, PTL

\* The places that refer to a request are at most one.
LEMMA OneOwner ==
    ASSUME IInv, NEW r \in Requests
    PROVE  Cardinality(Owners(r)) <= 1
<1> DEFINE Readers == {<<"reader", c>> : c \in {d \in Conns : hand[d] = r}}
           Execs == {<<"executor", e>> : e \in {x \in Executors : cur[x] = r}}
           Entries == {q \in Workers \X (1..MaxWorkerTaskLen) :
                          q[2] <= Len(queue[q[1]]) /\ queue[q[1]][q[2]] = r}
           Queued == {<<"queue", p>> : p \in Entries}
           Free == IF r \in pool THEN {<<"pool", 0>>} ELSE {}
<1>1. Owners(r) = Readers \cup Execs \cup Queued \cup Free
  BY DEF Owners
<1>2. \A q \in Entries :
         q[1] \in Workers /\ q[2] \in 1..Len(queue[q[1]]) /\ queue[q[1]][q[2]] = r
  BY QueueFacts DEF IInv, Basis
<1>3. r # 0
  BY RequestFacts
<1>4. SUFFICES ASSUME Owners(r) # {}
               PROVE  \E x : Owners(r) = {x}
  <2>1. Cardinality({}) = 0
    BY FS_EmptySet
  <2>2. \A x : Cardinality({x}) = 1
    BY FS_Singleton
  <2>3. CASE Owners(r) = {}
    BY <2>1, <2>3
  <2>4. CASE Owners(r) # {}
    <3>1. PICK x : Owners(r) = {x}
      BY <1>4, <2>4
    <3> QED
      BY <2>2, <3>1
  <2> QED
    BY <2>3, <2>4
<1>5. ASSUME NEW c \in Conns, hand[c] = r
      PROVE  Owners(r) = {<<"reader", c>>}
  <2>1. Readers = {<<"reader", c>>}
    BY <1>3, <1>5 DEF IInv, HandsInv
  <2>2. Execs = {}
    BY <1>3, <1>5 DEF IInv, HandsInv
  <2>3. Queued = {}
    BY <1>2, <1>5 DEF IInv, QueuesInv
  <2>4. Free = {}
    BY <1>5 DEF IInv, FreeInv
  <2> QED
    BY <1>1, <2>1, <2>2, <2>3, <2>4
<1>6. ASSUME NEW e \in Executors, cur[e] = r
      PROVE  Owners(r) = {<<"executor", e>>}
  <2>1. Readers = {}
    BY <1>3, <1>6 DEF IInv, HandsInv
  <2>2. Execs = {<<"executor", e>>}
    BY <1>3, <1>6 DEF IInv, HandsInv
  <2>3. Queued = {}
    BY <1>2, <1>6 DEF IInv, QueuesInv
  <2>4. Free = {}
    BY <1>6 DEF IInv, FreeInv
  <2> QED
    BY <1>1, <2>1, <2>2, <2>3, <2>4
<1>7. ASSUME NEW q \in Entries
      PROVE  Owners(r) = {<<"queue", q>>}
  <2>1. Readers = {} /\ Execs = {}
    BY <1>2 DEF IInv, QueuesInv
  <2>2. \A p \in Entries : p = q
    <3> SUFFICES ASSUME NEW p \in Entries PROVE p = q
      OBVIOUS
    <3>1. p[1] = q[1] /\ p[2] = q[2]
      BY <1>2 DEF IInv, QueuesInv
    <3>2. p = <<p[1], p[2]>> /\ q = <<q[1], q[2]>>
      OBVIOUS
    <3> QED
      BY <3>1, <3>2
  <2> HIDE DEF Entries
  <2>3. Queued = {<<"queue", q>>}
    BY <2>2
  <2>4. Free = {}
    BY <1>2 DEF IInv, FreeInv
  <2> QED
    BY <1>1, <2>1, <2>3, <2>4
<1>8. CASE Readers = {} /\ Execs = {} /\ Queued = {}
  BY <1>1, <1>4, <1>8
<1> QED
  BY <1>5, <1>6, <1>7, <1>8

\* A request object has one owner at a time, whatever the readers, the workers and
\* the goroutines do (request.go, RequestPool), and without RequestPool the reader that
\* logs a request it has queued (msghandler.go) still reads that request.
THEOREM Exclusive == Spec => []RequestExclusive
<1>1. IInv => RequestExclusive
  BY OneOwner DEF RequestExclusive, IInv, SeenInv, taken
<1> QED
  BY <1>1, Inductive, PTL

\* The data of a request does not change under its handler, except for a TCP
\* connection without a frame decoder: connection.go, StartReader.
THEOREM Intact == Spec => []DataIntact
<1>1. ASSUME IInv PROVE DataIntact
  <2> SUFFICES ASSUME ~(conf.transport = "tcp" /\ ~conf.framed), NEW e \in Executors,
                      xpc[e] \in {"handle", "stuck"}
               PROVE  began[e] = <<obj[cur[e]].conn, GetData(cur[e])>>
    BY DEF DataIntact
  <2>1. OwnBuffer
    BY DEF OwnBuffer
  <2>2. e \in Busy
    BY DEF Busy
  <2> QED
    BY <1>1, <2>1, <2>2 DEF GetData, IInv, StateInv
<1> QED
  BY <1>1, Inductive, PTL

\* No handler finds the response of an earlier request, with a frame decoder or without
\* RequestPool: request.go, Reset.
THEOREM OwnResponse == Spec => []ResponseOwn
<1>1. IInv => ResponseOwn
  BY RequestFacts DEF IInv, Basis, ExecType, PlaceInv, ResponseInv, ResponseOwn
<1> QED
  BY <1>1, Inductive, PTL

-----------------------------------------------------------------------------
(* The refinement.                                                         *)

\* The frames of each connection that are being handled, as OrderedDelivery sees them.
handled == [c \in Conns |-> {obj[cur[e]].num : e \in Handling(c)}]

\* Frame m of connection c is being handled.
Handled(c, m) == \E e \in Busy : obj[cur[e]].conn = c /\ obj[cur[e]].num = m

\* Their executors are the busy ones.
LEMMA HandledFacts ==
    ASSUME NEW c \in Conns, NEW m
    PROVE  /\ m \in handled[c] <=> Handled(c, m)
           /\ m \in handled'[c] <=> Handled(c, m)'
BY DEF handled, Handling, Busy, Handled

LEMMA HandledSets ==
    ASSUME NEW S, NEW T, \A m : m \in S <=> m \in T
    PROVE  S = T
OBVIOUS

\* The frames that are handled after a step that changes nothing for any of them, that
\* adds one, or that removes one.
LEMMA HandledSame ==
    ASSUME \A d \in Conns : \A m : Handled(d, m)' <=> Handled(d, m)
    PROVE  handled' = handled
<1>1. ASSUME NEW d \in Conns
      PROVE  handled'[d] = handled[d]
  <2>1. \A m : m \in handled'[d] <=> m \in handled[d]
    BY HandledFacts
  <2> QED
    BY <2>1, HandledSets
<1>2. /\ handled = [d \in Conns |-> handled[d]]
      /\ handled' = [d \in Conns |-> handled'[d]]
  BY DEF handled
<1> QED
  BY <1>1, <1>2

LEMMA HandledMore ==
    ASSUME NEW c \in Conns, NEW n,
           \A d \in Conns : \A m :
               Handled(d, m)' <=> Handled(d, m) \/ (d = c /\ m = n)
    PROVE  handled' = [handled EXCEPT ![c] = @ \cup {n}]
<1>1. ASSUME NEW d \in Conns
      PROVE  handled'[d] = IF d = c THEN handled[c] \cup {n} ELSE handled[d]
  <2>1. \A m : m \in handled'[d]
                  <=> m \in (IF d = c THEN handled[c] \cup {n} ELSE handled[d])
    BY HandledFacts
  <2> QED
    BY <2>1, HandledSets
<1>2. /\ handled = [d \in Conns |-> handled[d]]
      /\ handled' = [d \in Conns |-> handled'[d]]
  BY DEF handled
<1> QED
  BY <1>1, <1>2

LEMMA HandledLess ==
    ASSUME NEW c \in Conns, NEW n,
           \A d \in Conns : \A m :
               Handled(d, m)' <=> Handled(d, m) /\ ~(d = c /\ m = n)
    PROVE  handled' = [handled EXCEPT ![c] = @ \ {n}]
<1>1. ASSUME NEW d \in Conns
      PROVE  handled'[d] = IF d = c THEN handled[c] \ {n} ELSE handled[d]
  <2>1. \A m : m \in handled'[d]
                  <=> m \in (IF d = c THEN handled[c] \ {n} ELSE handled[d])
    BY HandledFacts
  <2> QED
    BY <2>1, HandledSets
<1>2. /\ handled = [d \in Conns |-> handled[d]]
      /\ handled' = [d \in Conns |-> handled'[d]]
  BY DEF handled
<1> QED
  BY <1>1, <1>2

\* The steps of OrderedDelivery, in the terms of Dispatch.
LEMMA DeliverySteps ==
    /\ \A c \in Conns :
          taken[c] < Quota[c] /\ taken' = [taken EXCEPT ![c] = @ + 1]
          /\ settled' = settled /\ handled' = handled /\ usePool' = usePool
              => Delivery!Next
    /\ \A c \in Conns : \A m \in 1..taken[c] :
          m \notin settled[c] /\ settled' = [settled EXCEPT ![c] = @ \cup {m}]
          /\ handled' = [handled EXCEPT ![c] = @ \cup {m}]
          /\ (usePool => handled[c] = {} /\ \A k \in 1..(m - 1) : k \in settled[c])
          /\ taken' = taken /\ usePool' = usePool
              => Delivery!Next
    /\ \A c \in Conns : \A m \in 1..taken[c] :
          m \in handled[c] /\ handled' = [handled EXCEPT ![c] = @ \ {m}]
          /\ taken' = taken /\ settled' = settled /\ usePool' = usePool
              => Delivery!Next
    /\ \A c \in Conns : \A m \in 1..taken[c] :
          m \notin settled[c] /\ settled' = [settled EXCEPT ![c] = @ \cup {m}]
          /\ taken' = taken /\ handled' = handled /\ usePool' = usePool
              => Delivery!Next
    /\ usePool' = FALSE /\ taken' = taken /\ settled' = settled /\ handled' = handled
          => Delivery!Next
    /\ taken' = taken /\ settled' = settled /\ handled' = handled /\ usePool' = usePool
          => UNCHANGED Delivery!vars
<1>1. ASSUME NEW c \in Conns,
             taken[c] < Quota[c], taken' = [taken EXCEPT ![c] = @ + 1],
             settled' = settled, handled' = handled, usePool' = usePool
      PROVE  Delivery!Next
  <2>1. Delivery!Arrive(c)
    BY <1>1 DEF Delivery!Arrive, taken, handled
  <2> QED
    BY <2>1 DEF Delivery!Next
<1>2. ASSUME NEW c \in Conns, NEW m \in 1..taken[c],
             m \notin settled[c], settled' = [settled EXCEPT ![c] = @ \cup {m}],
             handled' = [handled EXCEPT ![c] = @ \cup {m}],
             usePool => handled[c] = {} /\ \A k \in 1..(m - 1) : k \in settled[c],
             taken' = taken, usePool' = usePool
      PROVE  Delivery!Next
  <2>1. Delivery!Begin(c, m)
    BY <1>2 DEF Delivery!Begin, taken, handled
  <2> QED
    BY <2>1 DEF Delivery!Next, taken
<1>3. ASSUME NEW c \in Conns, NEW m \in 1..taken[c],
             m \in handled[c], handled' = [handled EXCEPT ![c] = @ \ {m}],
             taken' = taken, settled' = settled, usePool' = usePool
      PROVE  Delivery!Next
  <2>1. Delivery!End(c, m)
    BY <1>3 DEF Delivery!End, taken, handled
  <2> QED
    BY <2>1 DEF Delivery!Next, taken
<1>4. ASSUME NEW c \in Conns, NEW m \in 1..taken[c],
             m \notin settled[c], settled' = [settled EXCEPT ![c] = @ \cup {m}],
             taken' = taken, handled' = handled, usePool' = usePool
      PROVE  Delivery!Next
  <2>1. Delivery!Drop(c, m)
    BY <1>4 DEF Delivery!Drop, taken, handled
  <2> QED
    BY <2>1 DEF Delivery!Next, taken
<1>5. ASSUME usePool' = FALSE, taken' = taken, settled' = settled, handled' = handled
      PROVE  Delivery!Next
  <2>1. Delivery!LosePool
    BY <1>5 DEF Delivery!LosePool, taken, handled
  <2> QED
    BY <2>1 DEF Delivery!Next
<1>6. ASSUME taken' = taken, settled' = settled, handled' = handled, usePool' = usePool
      PROVE  UNCHANGED Delivery!vars
  BY <1>6 DEF Delivery!vars, taken, handled
<1> QED
  BY <1>1, <1>2, <1>3, <1>4, <1>5, <1>6

\* Settling the frame of a request that waits.
LEMMA SettleStep ==
    ASSUME IInv, NEW r \in Requests, Waiting(r), SettleMove(r)
    PROVE  /\ obj[r].conn \in Conns /\ obj[r].num \in 1..taken[obj[r].conn]
           /\ obj[r].num \notin settled[obj[r].conn]
           /\ settled' = [settled EXCEPT ![obj[r].conn] = @ \cup {obj[r].num}]
<1>1. settled \in [Conns -> SUBSET Nat] /\ settled' \in [Conns -> SUBSET Nat]
  BY DEF IInv, Basis, ObjType, SettleMove
<1>2. obj[r].conn \in Conns
  BY DEF Waiting
<1>3. \A c \in Conns : settled'[c] = IF c = obj[r].conn THEN settled[c] \cup {obj[r].num}
                                                    ELSE settled[c]
  BY <1>2 DEF SettleMove
<1> QED
  BY <1>1, <1>2, <1>3 DEF Waiting

\* An executor that begins with a request that waits begins the frame or drops it.
LEMMA BeginStep ==
    ASSUME IInv, NEW e \in Executors, NEW r \in Requests, Waiting(r), SettleMove(r),
           e \notin Busy, obj' = obj, taken' = taken, usePool' = usePool,
           \A f \in Executors : f # e => cur'[f] = cur[f],
           Busy' = Busy \/ (Busy' = Busy \cup {e} /\ cur'[e] = r),
           usePool => /\ handled[obj[r].conn] = {}
                      /\ \A k \in 1..(obj[r].num - 1) : k \in settled[obj[r].conn]
    PROVE  Delivery!Next
<1> DEFINE c == obj[r].conn
           n == obj[r].num
<1>1. /\ c \in Conns /\ n \in 1..taken[c] /\ n \notin settled[c]
      /\ settled' = [settled EXCEPT ![c] = @ \cup {n}]
  BY SettleStep
<1>2. \A f \in Busy : f # e /\ f \in Executors /\ cur'[f] = cur[f]
  BY DEF Busy
<1>3. usePool => handled[c] = {} /\ \A k \in 1..(n - 1) : k \in settled[c]
  OBVIOUS
<1>4. CASE Busy' = Busy
  <2>1. \A d \in Conns : \A m : Handled(d, m)' <=> Handled(d, m)
    BY <1>2, <1>4 DEF Handled
  <2>2. handled' = handled
    BY <2>1, HandledSame
  <2> HIDE DEF c, n
  <2> QED
    BY <1>1, <2>2, DeliverySteps
<1>5. CASE Busy' = Busy \cup {e} /\ cur'[e] = r
  <2>1. \A d \in Conns : \A m : Handled(d, m)' <=> Handled(d, m) \/ (d = c /\ m = n)
    BY <1>2, <1>5 DEF Handled
  <2> HIDE DEF c, n
  <2>2. handled' = [handled EXCEPT ![c] = @ \cup {n}]
    BY <1>1, <2>1, HandledMore
  <2> QED
    BY <1>1, <1>3, <2>2, DeliverySteps
<1> QED
  BY <1>4, <1>5

\* With the pool, the request at the head of a queue is the first of its connection that
\* waits, and none of its connection is being handled.
LEMMA HeadIsNext ==
    ASSUME IInv, usePool, NEW w \in Workers, w \notin Busy, 1 \in 1..Len(queue[w])
    PROVE  LET c == obj[queue[w][1]].conn
               n == obj[queue[w][1]].num
           IN  handled[c] = {} /\ \A k \in 1..(n - 1) : k \in settled[c]
<1> DEFINE q == queue[w][1]
           c == obj[q].conn
           n == obj[q].num
<1>1. /\ Waiting(q) /\ conf.workerID[c] = w /\ q \in Requests
      /\ c \in Conns /\ n \in 1..taken[c]
  BY QueueFacts DEF IInv, Basis, StateInv, Waiting
<1>2. handled[c] = {}
  <2>1. \A m : ~Handled(c, m)
    BY <1>1 DEF Handled, IInv, PoolInv
  <2> QED
    BY SMTT(60), <1>1, <2>1, HandledFacts
<1>3. ASSUME NEW k \in 1..(n - 1), k \notin settled[c]
      PROVE  FALSE
  <2>1. taken[c] \in Nat /\ n \in Nat
    BY <1>1, TakenType DEF IInv, Basis
  <2>2. k \in (1..taken[c]) \ settled[c] /\ k # taken[c] /\ k < n
    BY SMTT(60), <1>1, <1>3, <2>1
  <2>3. PICK i \in 1..Len(queue[w]) : obj[queue[w][i]].conn = c /\ obj[queue[w][i]].num = k
    <3> HIDE DEF c
    <3>1. Placed(c, k)
      BY <1>1, <2>2 DEF IInv, PoolInv, Placed
    <3> QED
      BY <1>1, <2>2, <3>1 DEF Placed
  <2>4. i # 1
    BY <2>1, <2>2, <2>3
  <2>5. 1 < i
    BY <2>3, <2>4, QueueFacts DEF IInv, Basis
  <2>6. n < k
    BY <2>3, <2>5 DEF IInv, OnceInv
  <2> QED
    BY <2>1, <2>2, <2>6
<1> QED
  BY <1>2, <1>3

\* Every step is a step of OrderedDelivery or changes nothing there.
LEMMA DeliveryStep ==
    ASSUME IInv, FlagType', Move
    PROVE  [Delivery!Next]_Delivery!vars
<1> USE DEF IInv, Basis
<1>1. CASE Quiet
  <2>1. taken' = taken /\ settled' = settled /\ (usePool' => usePool)
    BY <1>1 DEF Quiet, KeepTaken
  <2>2. \A d \in Conns : \A m : Handled(d, m)' <=> Handled(d, m)
    BY <1>1 DEF Quiet, KeepExecs, KeepObjs, Handled
  <2>3. handled' = handled
    BY <2>2, HandledSame
  <2>4. usePool' = usePool \/ usePool' = FALSE
    BY <2>1 DEF FlagType
  <2> QED
    BY <2>1, <2>3, <2>4, DeliverySteps
<1>2. ASSUME NEW c \in Conns, NEW r \in Requests, Get(c, r)
      PROVE  [Delivery!Next]_Delivery!vars
  <2>1. GetEffect(c, r)
    BY <1>2, GetFacts
  <2>2. \A e \in Busy : cur'[e] = cur[e] /\ obj'[cur[e]] = obj[cur[e]]
    BY <2>1, ExecFacts DEF GetEffect
  <2>3. \A d \in Conns : \A m : Handled(d, m)' <=> Handled(d, m)
    BY SMTT(60), <2>1, <2>2 DEF GetEffect, Handled
  <2>4. handled' = handled
    BY <2>3, HandledSame
  <2> QED
    BY <1>2, <2>4, DeliverySteps DEF Get, KeepConf
<1>3. ASSUME NEW c \in Conns, Discard(c)
      PROVE  [Delivery!Next]_Delivery!vars
  <2>1. \A d \in Conns : \A m : Handled(d, m)' <=> Handled(d, m)
    BY <1>3 DEF Discard, KeepExecs, KeepObjs, Handled
  <2>2. handled' = handled
    BY <2>1, HandledSame
  <2>3. /\ hand[c] \in Requests /\ Waiting(hand[c]) /\ SettleMove(hand[c])
        /\ obj[hand[c]].conn = c
    BY <1>3 DEF Discard, ReaderType, StateInv
  <2> DEFINE n == obj[hand[c]].num
  <2>4. /\ n \in 1..taken[c] /\ n \notin settled[c]
        /\ settled' = [settled EXCEPT ![c] = @ \cup {n}]
    BY <2>3, SettleStep
  <2>5. taken' = taken /\ usePool' = usePool
    BY <1>3 DEF Discard, KeepTaken, KeepConf
  <2> HIDE DEF n
  <2> QED
    BY <2>2, <2>4, <2>5, DeliverySteps
<1>4. ASSUME NEW c \in Conns, Go(c)
      PROVE  [Delivery!Next]_Delivery!vars
  <2>1. \A e \in Busy : cur'[e] = cur[e]
    BY <1>4, ExecFacts DEF Go, HandsInv, ReaderType, ExecType, PlaceInv
  <2>2. \A d \in Conns : \A m : Handled(d, m)' <=> Handled(d, m)
    BY <1>4, <2>1 DEF Go, KeepObjs, Handled
  <2>3. handled' = handled
    BY <2>2, HandledSame
  <2> QED
    BY <1>4, <2>3, DeliverySteps DEF Go, KeepTaken, KeepConf
<1>5. ASSUME NEW c \in Conns, Send(c)
      PROVE  [Delivery!Next]_Delivery!vars
  <2>1. \A d \in Conns : \A m : Handled(d, m)' <=> Handled(d, m)
    BY <1>5 DEF Send, KeepExecs, KeepObjs, Handled
  <2>2. handled' = handled
    BY <2>1, HandledSame
  <2> QED
    BY <1>5, <2>2, DeliverySteps DEF Send, KeepTaken, KeepConf
<1>6. ASSUME NEW w \in Workers, Take(w)
      PROVE  [Delivery!Next]_Delivery!vars
  <2>1. TakeEffect(w)
    BY <1>6, TakeFacts
  <2>2. /\ w \in Executors /\ w \notin Busy /\ 1 \in 1..Len(queue[w])
        /\ queue[w][1] \in Requests /\ SettleMove(queue[w][1])
        /\ obj' = obj /\ taken' = taken /\ usePool' = usePool
        /\ \A f \in Executors : f # w => cur'[f] = cur[f]
        /\ Busy' = Busy \/ (Busy' = Busy \cup {w} /\ cur'[w] = queue[w][1])
    BY <2>1 DEF TakeEffect
  <2>3. Waiting(queue[w][1])
    BY SMTT(60), <2>2 DEF StateInv
  <2> DEFINE q == queue[w][1]
  <2>4. usePool => /\ handled[obj[q].conn] = {}
                   /\ \A k \in 1..(obj[q].num - 1) : k \in settled[obj[q].conn]
    BY <2>2, HeadIsNext
  <2> HIDE DEF q
  <2>5. Delivery!Next
    BY <2>2, <2>3, <2>4, BeginStep DEF q
  <2> QED
    BY <2>5
<1>7. ASSUME NEW r \in Requests, Run(r)
      PROVE  [Delivery!Next]_Delivery!vars
  <2>1. RunEffect(r)
    BY <1>7, RunFacts
  <2>2. /\ r \in Executors /\ r \notin Busy /\ SettleMove(r) /\ r \in Started /\ cur[r] = r
        /\ obj' = obj /\ taken' = taken /\ usePool' = usePool
        /\ \A f \in Executors : f # r => cur'[f] = cur[f]
        /\ Busy' = Busy \/ (Busy' = Busy \cup {r} /\ cur'[r] = r)
    BY <2>1, ExecFacts DEF RunEffect
  <2>3. Waiting(r)
    BY SMTT(60), <2>2 DEF StateInv
  <2>4. ~usePool
    BY SMTT(60), <2>2 DEF PoolInv
  <2>5. Delivery!Next
    BY <2>2, <2>3, <2>4, BeginStep
  <2> QED
    BY <2>5
<1>8. ASSUME NEW e \in Executors, Finish(e)
      PROVE  [Delivery!Next]_Delivery!vars
  <2>1. /\ e \in Busy /\ cur[e] \in Requests /\ Begun(cur[e]) /\ Busy' = Busy \ {e}
        /\ obj' = obj /\ taken' = taken /\ usePool' = usePool /\ settled' = settled
    BY <1>8, ExecFacts DEF Finish, StateInv, KeepObjs, KeepTaken, KeepConf
  <2> DEFINE c == obj[cur[e]].conn
             n == obj[cur[e]].num
  <2>2. c \in Conns /\ n \in 1..taken[c]
    BY <2>1 DEF Begun, StateInv
  <2>3. \A f \in Busy : f # e => cur'[f] = cur[f] /\ ~Same(cur[e], cur[f])
    BY <1>8, <2>1, ExecFacts DEF Finish, ExecType, OnceInv
  <2>4. \A d \in Conns : \A m : Handled(d, m)' <=> Handled(d, m) /\ ~(d = c /\ m = n)
    BY <2>1, <2>3 DEF Handled, Same
  <2>5. Handled(c, n)
    BY <2>1 DEF Handled
  <2> HIDE DEF c, n
  <2>6. handled' = [handled EXCEPT ![c] = @ \ {n}]
    BY <2>2, <2>4, HandledLess
  <2>7. n \in handled[c]
    BY <2>2, <2>5, HandledFacts
  <2> QED
    BY <2>1, <2>2, <2>6, <2>7, DeliverySteps
<1> QED
  BY <1>1, <1>2, <1>3, <1>4, <1>5, <1>6, <1>7, <1>8 DEF Move

\* Dispatch implements OrderedDelivery: a request is handled at most once and, as long as
\* the worker pool is used, the requests of a connection are handled one at a time and
\* in the order of their frames: msghandler.go, SendMsgToTaskQueue and StartOneWorker.
THEOREM Implements == Spec => Ordered
<1>1. Init => Delivery!Init
  <2> SUFFICES ASSUME Init PROVE Delivery!Init
    OBVIOUS
  <2>1. taken = [c \in Conns |-> 0]
    BY DEF Init, taken
  <2>2. \A c \in Conns : Handling(c) = {}
    BY DEF Init, Handling
  <2>3. handled = [c \in Conns |-> {}]
    BY <2>2 DEF handled
  <2> QED
    BY <2>1, <2>3 DEF Init, Delivery!Init, taken, handled
<1>2. IInv /\ IInv' /\ [Next]_vars => [Delivery!Next]_Delivery!vars
  <2> SUFFICES ASSUME IInv, IInv', [Next]_vars
               PROVE  [Delivery!Next]_Delivery!vars
    OBVIOUS
  <2>1. ExecType' /\ FlagType'
    BY DEF IInv, Basis
  <2>2. Move
    BY <2>1, StepMoves DEF IInv, Basis
  <2> QED
    BY <2>1, <2>2, DeliveryStep
<1> QED
  BY <1>1, <1>2, Inductive, PTL DEF Spec, Ordered, Delivery!Spec
=============================================================================
