----------------------------- MODULE SendQueue ------------------------------
(***************************************************************************)
(* The buffered send path of one connection of gray: SendToQueue and       *)
(* SendBuffMsg, called by several goroutines at once, the channel          *)
(* msgBuffChan that the first of them creates, the StartWriter goroutine   *)
(* it starts, and the end of the connection.                               *)
(*                                                                         *)
(*   tcp  (gnet/connection.go)     no lock; an atomic flag elects the      *)
(*                                 creator; a sender closes the channel    *)
(*   ws   (gnet/ws_connecion.go)   msgLock held for reading by senders and *)
(*                                 for writing by finalizer, which closes  *)
(*                                 the channel                             *)
(*   kcp  (gnet/kcp_connection.go) as ws, but SendBuffMsg takes no lock    *)
(*                                                                         *)
(* Every make of a channel is a new channel here, with its own writer: the *)
(* tests for nil are not atomic with the assignment.                       *)
(***************************************************************************)
EXTENDS Naturals, FiniteSets, Sequences, SequencesExt

CONSTANTS
    Transports,   \* transports to consider, a subset of {"tcp", "ws", "kcp"}
    Senders,      \* goroutines that send on this connection
    Quota,        \* bound: Quota[s] is the number of messages s sends
    MaxMsgChanLen \* GlobalObject.MaxMsgChanLen

ASSUME SendQueueAssumption ==
    /\ Transports \subseteq {"tcp", "ws", "kcp"}
    /\ IsFiniteSet(Senders)
    /\ Quota \in [Senders -> Nat]
    /\ MaxMsgChanLen \in Nat

\* At most one make per sender; the writer a make starts has the channel's number.
Chans == 1..Cardinality(Senders)
Messages == UNION {{s} \X (1..Quota[s]) : s \in Senders}

VARIABLES
    transport,  \* the transport of the connection
    ctx,        \* the context: "live" or "done"
    closed,     \* isClosed (ws) / closed (kcp) flag
    fin,        \* finalizer: "no", "lock" (kcp: flag set, lock awaited) or "yes"
    peer,       \* the other end: it "reads", "stalls" (writes wait) or "reset" (writes fail)
    startFlag,  \* Connection.startWriterFlag
    cur,        \* msgBuffChan: the channel's number, 0 for nil
    made,       \* channels made so far
    buf,        \* buf[h]: contents of channel h
    shut,       \* channels that were closed
    pc,         \* pc[s]: where sender s is in its current call
    op,         \* op[s]: the function called, "queue" or "buff"
    n,          \* n[s]: messages s has tried to send, the current one included
    sel,        \* sel[s]: the channel s's select waits on
    rlocks,     \* senders that hold msgLock for reading
    wpc,        \* wpc[h]: where the writer started with channel h is
    wsel,       \* wsel[h]: the channel its select waits on
    hand,       \* hand[h]: the message it has received and not yet written
    clash,      \* two writers inside one websocket's WriteMessage: "no", "met" (since
                \* then the wire is undefined) or "panic" (the process has died of it)
    accepted,   \* messages whose call returned nil, in the order queued
    wire        \* messages written to the socket

connVars == <<transport, ctx, closed, fin, peer>>
chanVars == <<startFlag, cur, made, buf, shut>>
sendVars == <<pc, op, n, sel, rlocks>>
writerVars == <<wpc, wsel, hand, clash>>
vars == <<connVars, chanVars, sendVars, writerVars, accepted, wire>>

Init ==
    /\ transport \in Transports
    /\ ctx = "live" /\ closed = FALSE /\ fin = "no" /\ peer = "reads"
    /\ startFlag = 0 /\ cur = 0 /\ made = 0
    /\ buf = [h \in Chans |-> <<>>]
    /\ shut = {}
    /\ pc = [s \in Senders |-> "idle"]
    /\ op = [s \in Senders |-> "queue"]
    /\ n = [s \in Senders |-> 0]
    /\ sel = [s \in Senders |-> 0]
    /\ rlocks = {}
    /\ wpc = [h \in Chans |-> "off"]
    /\ wsel = [h \in Chans |-> 0]
    /\ hand = [h \in Chans |-> <<>>] /\ clash = "no"
    /\ accepted = <<>> /\ wire = <<>>

-----------------------------------------------------------------------------
(* The senders.                                                            *)

Message(s) == <<s, n[s]>>

Goto(s, label) == pc' = [pc EXCEPT ![s] = label]

\* A call begins; the first step depends on the transport and the function.
Call(s) ==
    /\ pc[s] = "idle" /\ n[s] < Quota[s]
    /\ n' = [n EXCEPT ![s] = @ + 1]
    /\ \E o \in IF transport = "kcp" THEN {"queue", "buff"} ELSE {"queue"} :
          /\ op' = [op EXCEPT ![s] = o]
          /\ Goto(s, IF transport = "tcp" THEN "create"
                     ELSE IF transport = "kcp" /\ o = "buff" THEN "test"
                     ELSE "rlock")
    /\ UNCHANGED <<connVars, chanVars, sel, rlocks, writerVars, accepted, wire>>

\* The call returns, with an error or not; deferred RUnlock.
Return(s) ==
    /\ Goto(s, "idle")
    /\ rlocks' = rlocks \ {s}
    /\ op' = [op EXCEPT ![s] = "queue"]
    /\ sel' = [sel EXCEPT ![s] = 0]

\* Mutant of TcpCreate: the flag is not tested.
TcpCreate_noFlag(s) ==
    /\ transport = "tcp" /\ pc[s] = "create"
    /\ startFlag' = 1
    /\ Goto(s, IF cur = 0 THEN "make" ELSE "test")
    /\ UNCHANGED <<connVars, cur, made, buf, shut, op, n, sel, rlocks, writerVars,
                   accepted, wire>>

\* msgBuffChan == nil && setStartWriterFlag(): one sender wins, the others go on
\* and may find the channel still nil.
TcpCreate(s) ==
    /\ transport = "tcp" /\ pc[s] = "create"
    /\ startFlag' = IF cur = 0 THEN 1 ELSE startFlag
    /\ Goto(s, IF cur = 0 /\ startFlag = 0 THEN "make" ELSE "test")
    /\ UNCHANGED <<connVars, cur, made, buf, shut, op, n, sel, rlocks, writerVars,
                   accepted, wire>>

\* Mutant of RLock: the lock is not taken.
RLock_skip(s) ==
    /\ pc[s] = "rlock"
    /\ Goto(s, "create")
    /\ UNCHANGED <<connVars, chanVars, op, n, sel, rlocks, writerVars, accepted, wire>>

\* msgLock.RLock(): finalizer's critical section is the atomic step LockedClose.
RLock(s) ==
    /\ pc[s] = "rlock"
    /\ rlocks' = rlocks \cup {s}
    /\ Goto(s, "create")
    /\ UNCHANGED <<connVars, chanVars, op, n, sel, writerVars, accepted, wire>>

\* ws and kcp: if msgBuffChan == nil, under a lock that readers share, or no lock.
LockedCreate(s) ==
    /\ transport # "tcp" /\ pc[s] = "create"
    /\ Goto(s, IF cur = 0 THEN "make"
               ELSE IF transport = "kcp" /\ op[s] = "buff" THEN "enter" ELSE "test")
    /\ UNCHANGED <<connVars, chanVars, op, n, sel, rlocks, writerVars, accepted, wire>>

\* make the channel, then `go c.StartWriter()`.
Make(s) ==
    /\ pc[s] = "make"
    /\ made' = made + 1
    /\ cur' = made + 1
    /\ wpc' = [wpc EXCEPT ![made + 1] = "loop"]
    /\ Goto(s, IF transport = "kcp" /\ op[s] = "buff" THEN "enter" ELSE "test")
    /\ UNCHANGED <<connVars, startFlag, buf, shut, op, n, sel, rlocks, wsel, hand, clash,
                   accepted, wire>>

IsClosed == IF transport = "tcp" THEN ctx = "done" ELSE closed

\* if isClosed return an error; SendBuffMsg of KCP tests before it creates.
TestClosed(s) ==
    /\ pc[s] = "test"
    /\ \/ IsClosed /\ Return(s)
       \/ /\ ~IsClosed
          /\ Goto(s, IF transport = "kcp" /\ op[s] = "buff" THEN "create" ELSE "enter")
          /\ UNCHANGED <<op, sel, rlocks>>
    /\ UNCHANGED <<connVars, chanVars, n, writerVars, accepted, wire>>

\* The select is entered: msgBuffChan is evaluated, once.
EnterSelect(s) ==
    /\ pc[s] = "enter"
    /\ sel' = [sel EXCEPT ![s] = cur]
    /\ Goto(s, "select")
    /\ UNCHANGED <<connVars, chanVars, op, n, rlocks, writerVars, accepted, wire>>

\* case c.msgBuffChan <- data: a nil channel is never ready.
Enqueue(s) ==
    /\ pc[s] = "select" /\ sel[s] # 0
    /\ sel[s] \notin shut
    /\ Len(buf[sel[s]]) < MaxMsgChanLen
    /\ buf' = [buf EXCEPT ![sel[s]] = Append(@, Message(s))]
    /\ accepted' = Append(accepted, Message(s))
    /\ Return(s)
    /\ UNCHANGED <<connVars, startFlag, cur, made, shut, n, writerVars, wire>>

\* The same case on a closed channel: panic: send on closed channel.
EnqueuePanic(s) ==
    /\ pc[s] = "select" /\ sel[s] \in shut
    /\ Goto(s, "panic")
    /\ rlocks' = rlocks \ {s}
    /\ UNCHANGED <<connVars, chanVars, op, n, sel, writerVars, accepted, wire>>

\* case <-idleTimeout.C
Timeout(s) ==
    /\ pc[s] = "select"
    /\ Return(s)
    /\ UNCHANGED <<connVars, chanVars, n, writerVars, accepted, wire>>

\* case <-c.ctx.Done(), TCP only: the sender closes the channel, which panics when
\* it is nil or closed already.
TcpDone(s) ==
    /\ transport = "tcp" /\ pc[s] = "select" /\ ctx = "done"
    /\ \/ cur # 0 /\ cur \notin shut /\ shut' = shut \cup {cur} /\ Return(s)
       \/ (cur = 0 \/ cur \in shut) /\ Goto(s, "panic")
          /\ UNCHANGED <<shut, rlocks, op, sel>>
    /\ UNCHANGED <<connVars, startFlag, cur, made, buf, n, writerVars, accepted, wire>>

Sender(s) ==
    \/ TcpCreate(s)
    \/ RLock(s)
    \/ LockedCreate(s)
    \/ Make(s)
    \/ TestClosed(s)
    \/ EnterSelect(s)
    \/ Enqueue(s)
    \/ EnqueuePanic(s)
    \/ Timeout(s)
    \/ TcpDone(s)

-----------------------------------------------------------------------------
(* The writers.                                                            *)

\* A new turn of the loop: select evaluates msgBuffChan.
WriterLoop(h) ==
    /\ wpc[h] = "loop"
    /\ wpc' = [wpc EXCEPT ![h] = "select"]
    /\ wsel' = [wsel EXCEPT ![h] = cur]
    /\ UNCHANGED <<connVars, chanVars, sendVars, hand, clash, accepted, wire>>

\* Mutant of WriterReceive: the message stays in the channel.
WriterReceive_keep(h) ==
    /\ wpc[h] = "select" /\ buf[wsel[h]] # <<>>
    /\ hand' = [hand EXCEPT ![h] = <<Head(buf[wsel[h]])>>]
    /\ wpc' = [wpc EXCEPT ![h] = "send"]
    /\ wsel' = [wsel EXCEPT ![h] = 0]
    /\ UNCHANGED <<connVars, chanVars, sendVars, clash, accepted, wire>>

WriterReceive(h) ==
    /\ wpc[h] = "select" /\ buf[wsel[h]] # <<>>
    /\ hand' = [hand EXCEPT ![h] = <<Head(buf[wsel[h]])>>]
    /\ buf' = [buf EXCEPT ![wsel[h]] = Tail(@)]
    /\ wpc' = [wpc EXCEPT ![h] = "send"]
    /\ wsel' = [wsel EXCEPT ![h] = 0]
    /\ UNCHANGED <<connVars, startFlag, cur, made, shut, sendVars, clash, accepted, wire>>

\* The channel is closed and empty: break leaves only the select.
WriterClosed(h) ==
    /\ wpc[h] = "select" /\ wsel[h] \in shut /\ buf[wsel[h]] = <<>>
    /\ wpc' = [wpc EXCEPT ![h] = "loop"]
    /\ wsel' = [wsel EXCEPT ![h] = 0]
    /\ UNCHANGED <<connVars, chanVars, sendVars, hand, clash, accepted, wire>>

WriterDone(h) ==
    /\ wpc[h] = "select" /\ ctx = "done"
    /\ wpc' = [wpc EXCEPT ![h] = "off"]
    /\ wsel' = [wsel EXCEPT ![h] = 0]
    /\ UNCHANGED <<connVars, chanVars, sendVars, hand, clash, accepted, wire>>

\* Writers inside conn.Write or WriteMessage; ws and kcp hold msgLock for reading there.
Writing == {h \in Chans : wpc[h] = "write"}

\* Send: the message is lost when the connection is closed. Nothing keeps two writers of
\* a websocket apart, whose WriteMessage allows one: it panics when it notices.
WriterEnter(h) ==
    /\ wpc[h] = "send"
    /\ \/ /\ IsClosed
          /\ wpc' = [wpc EXCEPT ![h] = "loop"]
          /\ hand' = [hand EXCEPT ![h] = <<>>]
          /\ UNCHANGED clash
       \/ /\ ~IsClosed
          /\ wpc' = [wpc EXCEPT ![h] = "write"]
          /\ clash' \in IF transport = "ws" /\ Writing # {} THEN {"met", "panic"}
                                                         ELSE {clash}
          /\ UNCHANGED hand
    /\ UNCHANGED <<connVars, chanVars, sendVars, wsel, accepted, wire>>

\* What a write that succeeds leaves on the wire: after a clash it may be what another
\* writer has put into the websocket's one buffer, or nothing that can be read.
Written(h) ==
    IF clash = "no" THEN {wire \o hand[h]} ELSE {wire} \cup {wire \o hand[g] : g \in Writing}

WriteFails == peer = "reset" \/ (transport = "tcp" /\ ctx = "done")

\* Mutant of WriterWrite: the writer returns after one message.
WriterWrite_once(h) ==
    /\ wpc[h] = "write"
    /\ \/ peer = "reads" /\ wire' \in Written(h)
       \/ WriteFails /\ wire' = wire
    /\ hand' = [hand EXCEPT ![h] = <<>>]
    /\ wpc' = [wpc EXCEPT ![h] = "off"]
    /\ UNCHANGED <<connVars, chanVars, sendVars, wsel, clash, accepted>>

\* The write returns: not while the peer stalls, unless the finalizer of a cancelled TCP
\* connection, which takes no lock, closes the socket under it. Whatever the outcome the
\* loop goes on (break leaves only the select).
WriterWrite(h) ==
    /\ wpc[h] = "write"
    /\ \/ peer = "reads" /\ wire' \in Written(h)
       \/ WriteFails /\ wire' = wire
    /\ hand' = [hand EXCEPT ![h] = <<>>]
    /\ wpc' = [wpc EXCEPT ![h] = "loop"]
    /\ UNCHANGED <<connVars, chanVars, sendVars, wsel, clash, accepted>>

StartWriter(h) ==
    \/ WriterLoop(h)
    \/ WriterReceive(h)
    \/ WriterClosed(h)
    \/ WriterDone(h)
    \/ WriterEnter(h)
    \/ WriterWrite(h)

-----------------------------------------------------------------------------
(* The end of the connection.                                              *)

\* The peer stops reading, reads again, or resets the connection. What it does after the
\* connection is cancelled makes no difference to what is claimed here.
PeerTurns ==
    /\ ctx = "live" /\ peer # "reset"
    /\ peer' \in {"reads", "stalls", "reset"} \ {peer}
    /\ UNCHANGED <<transport, ctx, closed, fin, chanVars, sendVars, writerVars,
                   accepted, wire>>

Cancel ==
    /\ ctx = "live"
    /\ ctx' = "done"
    /\ UNCHANGED <<transport, closed, fin, peer, chanVars, sendVars, writerVars, accepted, wire>>

\* KCP finalizer: setClose before the lock.
KcpSetClose ==
    /\ transport = "kcp" /\ ctx = "done" /\ fin = "no"
    /\ closed' = TRUE
    /\ fin' = "lock"
    /\ UNCHANGED <<transport, ctx, peer, chanVars, sendVars, writerVars, accepted, wire>>

\* finalizer of ws and kcp, under msgLock: close the channel, set the flag.
LockedClose ==
    /\ \/ transport = "ws" /\ ctx = "done" /\ fin = "no"
       \/ transport = "kcp" /\ fin = "lock"
    /\ rlocks = {} /\ Writing = {}
    /\ shut' = IF cur # 0 THEN shut \cup {cur} ELSE shut
    /\ closed' = TRUE
    /\ fin' = "yes"
    /\ UNCHANGED <<transport, ctx, peer, startFlag, cur, made, buf, sendVars,
                   writerVars, accepted, wire>>

-----------------------------------------------------------------------------
Running == clash # "panic"

Next ==
    /\ Running
    /\ \/ \E s \in Senders : Call(s) \/ Sender(s)
       \/ \E h \in Chans : StartWriter(h)
       \/ PeerTurns
       \/ Cancel
       \/ KcpSetClose
       \/ LockedClose

Spec == Init /\ [][Next]_vars

\* A writer that can take a step takes one: while the connection is live each
\* message costs the writers a bounded number of steps, so with Quota[s] messages
\* of sender s the condition on their disjunction makes every one of them progress. A
\* write returns only while the peer reads (or has reset): WriterWrite is disabled while
\* it stalls, and nothing makes it read again. Senders, the peer and the end of the
\* connection need no fairness.
FairSpec == Spec /\ WF_vars(Running /\ \E h \in Chans : StartWriter(h))

-----------------------------------------------------------------------------
(* Properties.                                                             *)

\* Type invariant of the send path.
TypeOK ==
    /\ transport \in Transports
    /\ ctx \in {"live", "done"} /\ closed \in BOOLEAN /\ fin \in {"no", "lock", "yes"}
    /\ peer \in {"reads", "stalls", "reset"} /\ clash \in {"no", "met", "panic"}
    /\ startFlag \in {0, 1} /\ cur \in 0..made /\ made \in 0..Cardinality(Senders)
    /\ buf \in [Chans -> Seq(Messages)]
    /\ \A h \in Chans : Len(buf[h]) <= MaxMsgChanLen
    /\ shut \subseteq Chans
    /\ pc \in [Senders -> {"idle", "create", "rlock", "make", "test", "enter", "select", "panic"}]
    /\ op \in [Senders -> {"queue", "buff"}]
    /\ n \in [Senders -> Nat] /\ \A s \in Senders : n[s] <= Quota[s]
    /\ sel \in [Senders -> 0..made]
    /\ rlocks \subseteq Senders
    /\ wpc \in [Chans -> {"off", "loop", "select", "send", "write"}]
    /\ wsel \in [Chans -> 0..made]
    /\ hand \in [Chans -> Seq(Messages)]
    /\ accepted \in Seq(Messages) /\ wire \in Seq(Messages)

Copies(m) ==
    Cardinality({i \in DOMAIN wire : wire[i] = m})
    + Cardinality({p \in Chans \X (1..MaxMsgChanLen) :
                     p[2] \in DOMAIN buf[p[1]] /\ buf[p[1]][p[2]] = m})
    + Cardinality({h \in Chans : m \in Range(hand[h])})

\* A message for which the caller was told nil exists once, on the wire, in a
\* channel or in a writer's hands, until the connection is cancelled or reset,
\* however many channels and writers racing senders have made; a message whose
\* call failed (or timed out) is never on its way. Nothing is claimed of a websocket
\* once two of its writers are in WriteMessage together, and two writers there are only
\* after two senders have each made a channel. (SendMsg, which is not part of this module,
\* writes under the same shared lock: of its calls nothing is claimed either.)
ExactlyOnce ==
    /\ clash # "no" => transport = "ws" /\ made > 1
    /\ clash = "no" => \A m \in Messages :
          IF m \in Range(accepted) /\ ctx = "live" /\ peer # "reset" THEN Copies(m) = 1
          ELSE Copies(m) <= (IF m \in Range(accepted) THEN 1 ELSE 0)

\* TCP: the wire carries the messages in the order in which they were accepted,
\* without a gap, whichever senders they came from (one channel, one writer).
TcpFifo == transport = "tcp" => IsPrefix(wire, accepted)

\* A sender can only panic (send on a closed channel, close of a nil or closed
\* channel) when the connection is over, and never on a websocket connection,
\* whose lock keeps the channel open during the select.
PanicOnlyWhenOver ==
    \A s \in Senders : pc[s] = "panic" => ctx = "done" /\ transport # "ws"

\* Messages in a channel that a racing sender has replaced (ws and kcp: the test for nil
\* is made under a lock that readers share). The writers may all have moved on.
Stranded == UNION {Range(buf[h]) : h \in Chans \ {cur}}

\* What the queue has accepted is written ("to be sent to the remote TCP client
\* later", giface/iconnection.go): again and again the wire catches up with it, but for
\* the messages in a replaced channel, unless the connection is cancelled, its peer
\* resets it or does not read, or two writers of a websocket have met in WriteMessage.
AcceptedIsSent ==
    []<>(\/ Range(accepted) \subseteq Range(wire) \cup Stranded
         \/ ctx = "done" \/ peer # "reads" \/ clash # "no")
=============================================================================
