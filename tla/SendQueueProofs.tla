--------------------------- MODULE SendQueueProofs ---------------------------
(***************************************************************************)
(* Proofs about module SendQueue, for every set of transports and senders, *)
(* every number of messages and every capacity of the channel.             *)
(***************************************************************************)
EXTENDS SendQueue, FiniteSetTheorems, SequenceTheorems, TLAPS

Makers == {s \in Senders : pc[s] = "make"}

\* A channel is made only by a sender that found none: each sender makes at most one.
MakeInv ==
    /\ cur = made
    /\ made = 0 \/ made + Cardinality(Makers) <= Cardinality(Senders)

\* A sender in a call has a message; a writer that selects has a channel to select on
\* and nothing in its hands.
PlaceInv ==
    /\ \A s \in Senders : pc[s] # "idle" => n[s] \in 1..Quota[s]
    /\ \A h \in Chans : wpc[h] # "off" => h <= made
    /\ \A h \in Chans : wpc[h] = "select" => wsel[h] \in 1..made
    /\ \A h \in Chans : IF wpc[h] \in {"send", "write"} THEN \E m \in Messages : hand[h] = <<m>>
                                                           ELSE hand[h] = <<>>

\* Writers meet in WriteMessage on websockets only, and only when there are two.
ClashInv == clash # "no" => transport = "ws" /\ made > 1

\* Channels are closed at the end only; on a websocket, not while a sender that holds
\* the lock has found the connection open.
EndInv ==
    /\ closed \/ fin # "no" \/ shut # {} => ctx = "done"
    /\ transport = "ws" =>
          /\ shut # {} => closed
          /\ \A s \in Senders :
                /\ pc[s] \in {"create", "make", "test", "enter", "select"} => s \in rlocks
                /\ pc[s] \in {"enter", "select"} => ~closed

\* The wire, a hand and a channel, one behind the other.
Pipe(w, x, b) == (w \o x) \o b
Put(b, e) == Append(b, e)

\* TCP: one sender makes the only channel, and what was accepted is on the wire, in
\* the writer's hand and in the channel, in this order. A write under way when the
\* connection is cancelled may still succeed.
FifoInv ==
    transport = "tcp" =>
        /\ startFlag = 0 => made = 0
        /\ made <= 1
        /\ \A s \in Senders : pc[s] = "make" =>
              /\ made = 0 /\ startFlag = 1
              /\ \A t \in Senders : pc[t] = "make" => t = s
        /\ made = 0 => accepted = <<>> /\ \A h \in Chans : buf[h] = <<>>
        /\ made = 1 /\ ctx = "live" /\ peer # "reset" => accepted = Pipe(wire, hand[1], buf[1])
        /\ made = 1 /\ wpc[1] = "write" /\ peer # "reset" => IsPrefix(wire \o hand[1], accepted)

Once(seq) == \A i, j \in 1..Len(seq) : seq[i] = seq[j] => i = j

\* The messages on the wire (W), in the channels (B) and in the hands (H) are accepted
\* ones (A), no message in two places.
Located(W, B, H, A) ==
    /\ \A g, h \in Chans : g # h => B[g] \cap B[h] = {} /\ H[g] \cap H[h] = {}
    /\ \A g, h \in Chans : B[g] \cap H[h] = {}
    /\ \A h \in Chans : W \cap (B[h] \cup H[h]) = {}
    /\ W \subseteq A
    /\ \A h \in Chans : B[h] \cup H[h] \subseteq A

\* They are all of the accepted ones.
Present(W, B, H, A) == \A m \in A : m \in W \/ \E h \in Chans : m \in B[h] \cup H[h]

Ranges(f) == [h \in Chans |-> Range(f[h])]
Lost == ctx = "done" \/ peer = "reset"

\* Until two writers have met in WriteMessage no message is twice in one place or in two
\* places. A call under way has not accepted
\* its message.
OnceInv ==
    /\ clash = "no" =>
          /\ Once(wire)
          /\ \A h \in Chans : Once(buf[h])
          /\ Located(Range(wire), Ranges(buf), Ranges(hand), Range(accepted))
          /\ ~Lost => Present(Range(wire), Ranges(buf), Ranges(hand), Range(accepted))
    /\ \A s \in Senders, k \in Nat : <<s, k>> \in Range(accepted) =>
          k <= n[s] /\ (pc[s] # "idle" => k < n[s])

IInv == /\ TypeOK /\ MakeInv /\ PlaceInv
        /\ ClashInv /\ EndInv /\ PanicOnlyWhenOver
        /\ FifoInv /\ TcpFifo
        /\ OnceInv

-----------------------------------------------------------------------------
(* Sequences.                                                              *)

LEMMA EmptyRange == Range(<<>>) = {}
BY DEF Range

LEMMA AppendRange ==
    ASSUME NEW S, NEW s \in Seq(S), NEW e \in S
    PROVE  Range(Append(s, e)) = Range(s) \cup {e}
<1>1. Range(<<e>>) = {e}
  BY DEF Range
<1>2. Append(s, e) = s \o <<e>> /\ <<e>> \in Seq(S)
  BY AppendIsConcat
<1>3. Range(s \o <<e>>) = Range(s) \cup Range(<<e>>)
  BY <1>2, RangeConcatenation, SMTT(60)
<1>4. QED
  BY <1>1, <1>2, <1>3

LEMMA AppendOnce ==
    ASSUME NEW S, NEW s \in Seq(S), NEW e \in S, Once(s), e \notin Range(s)
    PROVE  Once(Append(s, e))
<1>1. Len(s) \in Nat /\ \A i \in 1..Len(s) : s[i] # e
  BY LenProperties DEF Range
<1>2. QED
  BY <1>1, AppendProperties DEF Once

LEMMA TailOnce ==
    ASSUME NEW S, NEW s \in Seq(S), s # <<>>, Once(s)
    PROVE  Once(Tail(s)) /\ Range(Tail(s)) = Range(s) \ {Head(s)} /\ Head(s) \in Range(s)
<1>1. /\ Len(s) \in Nat \ {0} /\ Tail(s) \in Seq(S) /\ Len(Tail(s)) = Len(s) - 1
      /\ \A i \in 1..Len(Tail(s)) : Tail(s)[i] = s[i + 1]
  BY EmptySeq, HeadTailProperties, LenProperties
<1>2. Head(s) = s[1]
  BY <1>1
<1>3. Once(Tail(s))
  BY <1>1 DEF Once
<1>4. /\ Range(s) = {s[i] : i \in 1..Len(s)}
      /\ Range(Tail(s)) = {Tail(s)[i] : i \in 1..Len(Tail(s))}
  BY <1>1, RangeEquality
<1>5. Head(s) \in Range(s)
  BY <1>1, <1>2, <1>4
<1>6. Range(Tail(s)) \subseteq Range(s) \ {Head(s)}
  BY <1>1, <1>2, <1>4 DEF Once
<1>7. ASSUME NEW x \in Range(s), x # Head(s) PROVE x \in Range(Tail(s))
  <2>1. PICK i \in 1..Len(s) : x = s[i]
    BY <1>4
  <2>2. i - 1 \in 1..Len(Tail(s)) /\ (i - 1) + 1 = i
    BY <1>1, <1>2, <1>7, <2>1
  <2> DEFINE j == i - 1
  <2>4. x = Tail(s)[j] /\ j \in 1..Len(Tail(s))
    BY <1>1, <2>1, <2>2
  <2> HIDE DEF j
  <2>3. QED
    BY <1>4, <2>4
<1>8. QED
  BY <1>3, <1>5, <1>6, <1>7

\* A sequence is a prefix of its continuations.
LEMMA PrefixOfConcat ==
    ASSUME NEW S, NEW s \in Seq(S), NEW t \in Seq(S)
    PROVE  IsPrefix(s, s \o t)
<1>1. /\ s \o t \in Seq(S) /\ Len(s \o t) = Len(s) + Len(t)
      /\ \A i \in 1..Len(s) : (s \o t)[i] = s[i]
      /\ Len(s) \in Nat /\ Len(t) \in Nat
  BY ConcatProperties, LenProperties
<1>2. /\ \A i \in 1..Len(s) : s[i] \in S
      /\ \A i \in 1..Len(s) : (s \o t)[i] \in S
  BY <1>1, ElementOfSeq
<1> DEFINE a == SubSeq(s, 1, Len(s))
           b == SubSeq(s \o t, 1, Len(s))
<1>3. /\ a \in Seq(S) /\ b \in Seq(S) /\ Len(a) = Len(b) /\ Len(a) = Len(s)
      /\ \A i \in 1..Len(a) : a[i] = s[i] /\ b[i] = (s \o t)[i]
  BY <1>1, <1>2, SubSeqProperties
<1>4. a = b
  <2>1. \A i \in 1..Len(a) : a[i] = b[i]
    BY <1>1, <1>3
  <2>2. QED
    BY <1>3, <2>1, SeqEqual
<1>5. QED
  BY <1>1, <1>4 DEF IsPrefix

\* What is a prefix now is one of every continuation.
LEMMA PrefixOfAppend ==
    ASSUME NEW S, NEW s \in Seq(S), NEW t \in Seq(S), NEW e \in S, IsPrefix(s, t)
    PROVE  IsPrefix(s, Append(t, e))
<1>1. Len(s) \in Nat /\ Len(t) \in Nat /\ Len(s) <= Len(t)
  BY LenProperties DEF IsPrefix
<1>2. \A i \in 1..Len(s) : s[i] \in S /\ t[i] \in S /\ Append(t, e)[i] \in S
                           /\ Append(t, e)[i] = t[i]
  BY <1>1, ElementOfSeq, AppendProperties
<1> DEFINE b == SubSeq(t, 1, Len(s))
           c == SubSeq(Append(t, e), 1, Len(s))
<1>3. /\ b \in Seq(S) /\ c \in Seq(S) /\ Len(b) = Len(c) /\ Len(b) = Len(s)
      /\ \A i \in 1..Len(b) : b[i] = t[i] /\ c[i] = Append(t, e)[i]
  BY <1>1, <1>2, SubSeqProperties
<1>4. b = c
  <2>1. \A i \in 1..Len(b) : b[i] = c[i]
    BY <1>2, <1>3
  <2>2. QED
    BY <1>3, <2>1, SeqEqual
<1>5. QED
  BY <1>1, <1>4, AppendProperties DEF IsPrefix
\* Appending to the last part appends to the whole.
LEMMA PipeAppend ==
    ASSUME NEW S, NEW w \in Seq(S), NEW x \in Seq(S), NEW b \in Seq(S), NEW e \in S
    PROVE  Put(Pipe(w, x, b), e) = Pipe(w, x, Put(b, e))
<1> DEFINE u == <<e>>
           a == w \o x
<1>1. u \in Seq(S) /\ a \in Seq(S)
  BY ConcatProperties
<1>2. Put(b, e) = b \o u
  BY AppendIsConcat DEF Put
<1>3. Put(Pipe(w, x, b), e) = (a \o b) \o u
  <2>1. a \o b \in Seq(S)
    BY <1>1, ConcatProperties
  <2>2. QED
    BY <2>1, AppendIsConcat DEF Put, Pipe
<1>4. Pipe(w, x, Put(b, e)) = a \o (b \o u)
  BY <1>2 DEF Pipe
<1> HIDE DEF u, a
<1>5. (a \o b) \o u = a \o (b \o u)
  BY <1>1, ConcatAssociative, SMTT(60)
<1>6. QED
  BY <1>3, <1>4, <1>5

\* The first element of the last part may as well end the first part.
LEMMA MoveHead ==
    ASSUME NEW S, NEW s \in Seq(S), NEW t \in Seq(S), t # <<>>
    PROVE  (s \o <<>>) \o t = (s \o <<Head(t)>>) \o Tail(t)
<1>1. /\ Len(t) \in Nat \ {0} /\ Len(Tail(t)) = Len(t) - 1
      /\ Head(t) \in S /\ Tail(t) \in Seq(S) /\ Head(t) = t[1]
      /\ \A i \in 1..Len(Tail(t)) : Tail(t)[i] = t[i + 1]
  BY EmptySeq, HeadTailProperties
<1> DEFINE u == <<Head(t)>>
           v == Tail(t)
<1>2. u \in Seq(S) /\ Len(u) = 1 /\ u[1] = Head(t)
  BY <1>1
<1>3. v \in Seq(S) /\ Len(v) = Len(t) - 1 /\ \A i \in 1..Len(v) : v[i] = t[i + 1]
  BY <1>1
<1> HIDE DEF u, v
<1>4. /\ u \o v \in Seq(S) /\ Len(u \o v) = Len(t)
      /\ \A i \in 1..Len(t) : (u \o v)[i] = IF i <= 1 THEN u[i] ELSE v[i - 1]
  <2>1. Len(u) + Len(v) = Len(t)
    BY <1>1, <1>2, <1>3
  <2>2. /\ u \o v \in Seq(S) /\ Len(u \o v) = Len(u) + Len(v)
        /\ \A i \in 1..(Len(u) + Len(v)) :
              (u \o v)[i] = IF i <= Len(u) THEN u[i] ELSE v[i - Len(u)]
    <3>1. u \in Seq(S) /\ v \in Seq(S)
      BY <1>2, <1>3
    <3>2. QED
      BY <3>1, ConcatProperties
  <2>3. QED
    BY <1>2, <2>1, <2>2
<1>5. \A i \in 1..Len(u \o v) : (u \o v)[i] = t[i]
  BY <1>1, <1>2, <1>3, <1>4
<1>6. u \o v = t
  BY <1>4, <1>5, SeqEqual
<1>7. (s \o u) \o v = s \o (u \o v)
  BY <1>2, <1>3, ConcatAssociative, SMTT(60)
<1>8. s \o <<>> = s
  BY ConcatEmptySeq
<1>9. QED
  BY <1>6, <1>7, <1>8 DEF u, v

-----------------------------------------------------------------------------
(* Types.                                                                  *)

LEMMA SendersFinite == IsFiniteSet(Senders) /\ Cardinality(Senders) \in Nat
BY SendQueueAssumption, FS_CardinalityType

\* A sender in a call sends one of the messages.
LEMMA MessageType ==
    ASSUME TypeOK, PlaceInv, NEW s \in Senders, pc[s] # "idle"
    PROVE  Message(s) \in Messages
<1>1. n[s] \in 1..Quota[s]
  BY DEF PlaceInv
<1>2. Message(s) \in {s} \X (1..Quota[s])
  BY <1>1 DEF Message
<1>3. QED
  BY <1>2 DEF Messages

LEMMA InitIInv == Init => IInv
<1> SUFFICES ASSUME Init PROVE IInv
  OBVIOUS
<1>1. \A S : <<>> \in Seq(S)
  BY EmptySeq
<1>2. TypeOK
  <2>1. <<>> \in Seq(Messages) /\ Len(<<>>) = 0
    BY <1>1, EmptySeq
  <2>2. /\ buf \in [Chans -> Seq(Messages)] /\ hand \in [Chans -> Seq(Messages)]
        /\ \A h \in Chans : Len(buf[h]) <= MaxMsgChanLen
    BY <2>1, SendQueueAssumption DEF Init
  <2>3. /\ \A s \in Senders : n[s] <= Quota[s]
        /\ n \in [Senders -> Nat] /\ sel \in [Senders -> 0..made]
        /\ wsel \in [Chans -> 0..made]
    BY SendQueueAssumption DEF Init
  <2>4. cur \in 0..made /\ made \in 0..Cardinality(Senders) /\ startFlag \in {0, 1}
    BY SendersFinite DEF Init
  <2>5. QED
    BY <2>1, <2>2, <2>3, <2>4 DEF Init, TypeOK
<1>3. MakeInv /\ PlaceInv /\ ClashInv /\ EndInv /\ PanicOnlyWhenOver
  BY DEF Init, MakeInv, PlaceInv, ClashInv, EndInv, PanicOnlyWhenOver
<1>4. FifoInv
  BY DEF Init, FifoInv
<1>5. TcpFifo
  <2>1. <<>> \o <<>> = <<>>
    BY <1>1, ConcatEmptySeq
  <2>2. QED
    BY <1>1, <2>1, PrefixOfConcat DEF Init, TcpFifo
<1>6. OnceInv
  BY EmptyRange DEF Init, OnceInv, Once, Located, Present, Ranges
<1>7. QED
  BY <1>2, <1>3, <1>4, <1>5, <1>6 DEF IInv

\* The steps that move messages.
Moves ==
    \/ \E s \in Senders : Enqueue(s)
    \/ \E h \in Chans : WriterReceive(h) \/ WriterEnter(h) \/ WriterWrite(h)

\* All other steps leave the messages where they are.
LEMMA StepCases ==
    ASSUME [Next]_vars
    PROVE  \/ Moves
           \/ UNCHANGED <<buf, hand, accepted, wire>>
BY DEF Next, vars, connVars, chanVars, sendVars, writerVars, Moves, Call, Sender, TcpCreate,
       RLock, LockedCreate, Make, TestClosed, EnterSelect, EnqueuePanic, Timeout, TcpDone,
       StartWriter, WriterLoop, WriterClosed, WriterDone, PeerTurns, Cancel, KcpSetClose,
       LockedClose

\* Messages that move stay messages.
LEMMA MessagesTyped ==
    ASSUME TypeOK, PlaceInv, [Next]_vars
    PROVE  /\ buf' \in [Chans -> Seq(Messages)]
           /\ \A h \in Chans : Len(buf'[h]) <= MaxMsgChanLen
           /\ hand' \in [Chans -> Seq(Messages)]
           /\ accepted' \in Seq(Messages) /\ wire' \in Seq(Messages)
<1>1. ASSUME NEW s \in Senders, Enqueue(s)
      PROVE  /\ buf' \in [Chans -> Seq(Messages)]
             /\ \A h \in Chans : Len(buf'[h]) <= MaxMsgChanLen
             /\ hand' \in [Chans -> Seq(Messages)]
             /\ accepted' \in Seq(Messages) /\ wire' \in Seq(Messages)
  <2>1. Message(s) \in Messages
    BY <1>1, MessageType DEF Enqueue
  <2>2. accepted' = Append(accepted, Message(s)) /\ wire' = wire /\ hand' = hand
    BY <1>1 DEF Enqueue, writerVars
  <2>3. accepted' \in Seq(Messages)
    BY <2>1, <2>2, AppendProperties DEF TypeOK
  <2>4. sel[s] \in Chans
    BY <1>1, SendersFinite DEF Enqueue, TypeOK, Chans
  <2>5. /\ Append(buf[sel[s]], Message(s)) \in Seq(Messages)
        /\ Len(Append(buf[sel[s]], Message(s))) <= MaxMsgChanLen
    <3>1. buf[sel[s]] \in Seq(Messages) /\ Len(buf[sel[s]]) < MaxMsgChanLen
      BY <1>1, <2>4 DEF Enqueue, TypeOK
    <3>2. Len(buf[sel[s]]) \in Nat
      BY <3>1, LenProperties
    <3>3. Len(Append(buf[sel[s]], Message(s))) = Len(buf[sel[s]]) + 1
      BY <3>1, <2>1, AppendProperties
    <3>4. QED
      BY <3>1, <3>2, <3>3, <2>1, AppendProperties, SendQueueAssumption
  <2>6. buf' = [buf EXCEPT ![sel[s]] = Append(@, Message(s))]
    BY <1>1 DEF Enqueue
  <2>7. QED
    BY <2>2, <2>3, <2>5, <2>6 DEF TypeOK
<1>2. ASSUME NEW h \in Chans, WriterReceive(h)
      PROVE  /\ buf' \in [Chans -> Seq(Messages)]
             /\ \A g \in Chans : Len(buf'[g]) <= MaxMsgChanLen
             /\ hand' \in [Chans -> Seq(Messages)]
             /\ accepted' \in Seq(Messages) /\ wire' \in Seq(Messages)
  <2>1. wsel[h] \in Chans
    BY <1>2, SendersFinite DEF WriterReceive, PlaceInv, TypeOK, Chans
  <2>2. /\ buf[wsel[h]] \in Seq(Messages) /\ buf[wsel[h]] # <<>>
        /\ Len(buf[wsel[h]]) <= MaxMsgChanLen
    BY <1>2, <2>1 DEF WriterReceive, TypeOK
  <2>3. /\ Head(buf[wsel[h]]) \in Messages /\ Tail(buf[wsel[h]]) \in Seq(Messages)
        /\ Len(Tail(buf[wsel[h]])) = Len(buf[wsel[h]]) - 1
        /\ Len(buf[wsel[h]]) \in Nat
    BY <2>2, HeadTailProperties, LenProperties
  <2>4. Len(Tail(buf[wsel[h]])) <= MaxMsgChanLen
    BY <2>2, <2>3, SendQueueAssumption
  <2>5. <<Head(buf[wsel[h]])>> \in Seq(Messages)
    BY <2>3
  <2>6. /\ buf' = [buf EXCEPT ![wsel[h]] = Tail(@)]
        /\ hand' = [hand EXCEPT ![h] = <<Head(buf[wsel[h]])>>]
        /\ accepted' = accepted /\ wire' = wire
    BY <1>2 DEF WriterReceive
  <2>7. QED
    BY <2>3, <2>4, <2>5, <2>6 DEF TypeOK
<1>3. ASSUME NEW h \in Chans, WriterEnter(h) \/ WriterWrite(h)
      PROVE  /\ buf' \in [Chans -> Seq(Messages)]
             /\ \A g \in Chans : Len(buf'[g]) <= MaxMsgChanLen
             /\ hand' \in [Chans -> Seq(Messages)]
             /\ accepted' \in Seq(Messages) /\ wire' \in Seq(Messages)
  <2>1. \A g \in Chans : wire \o hand[g] \in Seq(Messages)
    BY ConcatProperties DEF TypeOK
  <2>2. wire \in Seq(Messages) /\ <<>> \in Seq(Messages)
    BY EmptySeq DEF TypeOK
  <2>3. Writing \subseteq Chans
    BY DEF Writing
  <2>4. Written(h) \subseteq Seq(Messages)
    BY <2>1, <2>2, <2>3 DEF Written
  <2>5. wire' \in Seq(Messages)
    BY <1>3, <2>2, <2>4 DEF WriterEnter, WriterWrite
  <2>6. QED
    BY <1>3, <2>2, <2>5 DEF WriterEnter, WriterWrite, TypeOK, chanVars
<1>4. QED
  BY <1>1, <1>2, <1>3, StepCases DEF TypeOK, Moves
-----------------------------------------------------------------------------
(* One lemma per part of the invariant.                                    *)

\* Every step but Make leaves the channels alone, and no sender decides to make a
\* channel while there is one.
LEMMA NoMake ==
    ASSUME TypeOK, MakeInv, [Next]_vars, ~\E s \in Senders : Make(s)
    PROVE  /\ cur' = cur /\ made' = made
           /\ made # 0 => Makers' \subseteq Makers
<1>1. cur' = cur /\ made' = made
  BY DEF Next, vars, connVars, chanVars, sendVars, writerVars, Call, Sender, TcpCreate,
       RLock, LockedCreate, TestClosed, EnterSelect, Enqueue, EnqueuePanic, Timeout,
       TcpDone, StartWriter, WriterLoop, WriterReceive, WriterClosed, WriterDone,
       WriterEnter, WriterWrite, PeerTurns, Cancel, KcpSetClose, LockedClose
<1>2. ASSUME made # 0, NEW s \in Senders, pc[s] # "make", NEW t \in Senders,
             Call(t) \/ Sender(t)
      PROVE  pc'[s] # "make"
  <2>1. cur # 0
    BY <1>2 DEF MakeInv
  <2>2. ~Make(t)
    OBVIOUS
  <2>3. QED
    BY <1>2, <2>1, <2>2 DEF TypeOK, Call, Sender, TcpCreate, RLock, LockedCreate,
      TestClosed,
       EnterSelect, Enqueue, EnqueuePanic, Timeout, TcpDone, Goto, Return
<1>3. ASSUME ~\E t \in Senders : Call(t) \/ Sender(t) PROVE pc' = pc
  BY <1>3 DEF Next, vars, connVars, chanVars, sendVars, writerVars, StartWriter, WriterLoop,
       WriterReceive, WriterClosed, WriterDone, WriterEnter, WriterWrite, PeerTurns,
       Cancel, KcpSetClose,
       LockedClose
<1>4. QED
  BY <1>1, <1>2, <1>3 DEF Makers

LEMMA MakeStep ==
    ASSUME TypeOK, MakeInv, PlaceInv, [Next]_vars
    PROVE  MakeInv' /\ made' \in 0..Cardinality(Senders) /\ made <= made'
<1>1. IsFiniteSet(Makers) /\ Cardinality(Makers) \in Nat
      /\ Cardinality(Makers) <= Cardinality(Senders)
  BY SendersFinite, FS_Subset, FS_CardinalityType DEF Makers
<1>2. CASE ~\E s \in Senders : Make(s)
  <2>1. CASE made # 0
    <3>1. Makers' \subseteq Makers
      BY <1>2, <2>1, NoMake
    <3>2. Cardinality(Makers') <= Cardinality(Makers) /\ Cardinality(Makers') \in Nat
      BY <1>1, <3>1, FS_Subset, FS_CardinalityType
    <3>3. QED
      BY <1>1, <1>2, <2>1, <3>2, NoMake, SendersFinite DEF MakeInv, TypeOK
  <2>2. CASE made = 0
    BY <1>2, <2>2, NoMake, SendersFinite DEF MakeInv, TypeOK
  <2>3. QED
    BY <2>1, <2>2
<1>3. ASSUME NEW s \in Senders, Make(s)
      PROVE  MakeInv' /\ made' \in 0..Cardinality(Senders) /\ made <= made'
  <2>1. s \in Makers /\ made' = made + 1 /\ cur' = made'
    BY <1>3 DEF Make, Makers
  <2>2. Makers' = Makers \ {s}
    BY <1>3 DEF Make, Makers, Goto, TypeOK
  <2>3. Cardinality(Makers \ {s}) = Cardinality(Makers) - 1
    BY <1>1, <2>1, FS_RemoveElement
  <2>4. Cardinality(Makers) >= 1
    BY <1>1, <2>1, FS_EmptySet
  <2>5. made + Cardinality(Makers) <= Cardinality(Senders)
    BY <1>1 DEF MakeInv
  <2>6. QED
    BY <1>1, <2>1, <2>2, <2>3, <2>4, <2>5, SendersFinite DEF MakeInv, TypeOK
<1>4. QED
  BY <1>2, <1>3

LEMMA TypeStep == ASSUME TypeOK, MakeInv, PlaceInv, [Next]_vars PROVE TypeOK'
<1>1. /\ made' \in 0..Cardinality(Senders) /\ made <= made' /\ cur' = made'
      /\ made \in Nat /\ made' \in Nat
  BY MakeStep, SendersFinite DEF MakeInv, TypeOK
<1>2. /\ transport' \in Transports /\ ctx' \in {"live", "done"} /\ closed' \in BOOLEAN
      /\ fin' \in {"no", "lock", "yes"} /\ peer' \in {"reads", "stalls", "reset"}
  <2>1. CASE UNCHANGED connVars
    BY <2>1 DEF TypeOK, connVars
  <2>2. CASE PeerTurns
    BY <2>2 DEF TypeOK, PeerTurns
  <2>3. CASE Cancel
    BY <2>3 DEF TypeOK, Cancel
  <2>4. CASE KcpSetClose
    BY <2>4 DEF TypeOK, KcpSetClose
  <2>5. CASE LockedClose
    BY <2>5 DEF TypeOK, LockedClose
  <2>6. QED
    BY <2>1, <2>2, <2>3, <2>4, <2>5 DEF Next, vars, Call, Sender, TcpCreate, RLock,
       LockedCreate, Make, TestClosed, EnterSelect, Enqueue, EnqueuePanic, Timeout, TcpDone,
       StartWriter, WriterLoop, WriterReceive, WriterClosed, WriterDone, WriterEnter,
       WriterWrite
<1>8. clash' \in {"no", "met", "panic"}
  BY DEF TypeOK, Next, vars, writerVars, Call, Sender, TcpCreate, RLock, LockedCreate, Make,
       TestClosed, EnterSelect, Enqueue, EnqueuePanic, Timeout, TcpDone, StartWriter,
       WriterLoop, WriterReceive, WriterClosed, WriterDone, WriterEnter, WriterWrite,
       PeerTurns, Cancel, KcpSetClose, LockedClose
<1>7. startFlag' \in {0, 1}
  BY DEF TypeOK, Next, vars, connVars, chanVars, sendVars, writerVars, Call, Sender,
    TcpCreate,
       RLock, LockedCreate, Make, TestClosed, EnterSelect, Enqueue, EnqueuePanic, Timeout,
       TcpDone, StartWriter, WriterLoop, WriterReceive, WriterClosed, WriterDone,
       WriterEnter, WriterWrite, PeerTurns, Cancel, KcpSetClose, LockedClose
<1>3. shut' \subseteq Chans
  <2>1. cur # 0 => cur \in Chans
    BY SendersFinite DEF TypeOK, Chans, MakeInv
  <2>2. QED
    BY <2>1 DEF TypeOK, Next, vars, connVars, chanVars, sendVars, writerVars, Call, Sender,
       TcpCreate, RLock, LockedCreate, Make, TestClosed, EnterSelect, Enqueue, EnqueuePanic,
       Timeout, TcpDone, StartWriter, WriterLoop, WriterReceive, WriterClosed, WriterDone,
       WriterEnter, WriterWrite, PeerTurns, Cancel, KcpSetClose, LockedClose
<1> DEFINE Senders1 ==
             /\ pc' \in [Senders -> {"idle", "create", "rlock", "make", "test", "enter",
                                     "select", "panic"}]
             /\ op' \in [Senders -> {"queue", "buff"}]
             /\ n' \in [Senders -> Nat] /\ \A s \in Senders : n'[s] <= Quota[s]
             /\ sel' \in [Senders -> 0..made']
             /\ rlocks' \subseteq Senders
<1>4. Senders1
  <2>1. \A s \in Senders : sel[s] \in 0..made' /\ Quota[s] \in Nat
    BY <1>1, SendQueueAssumption DEF TypeOK
  <2>2. sel \in [Senders -> 0..made'] /\ cur \in 0..made' /\ 0 \in 0..made'
    BY <1>1, <2>1 DEF TypeOK
  <2>3. ASSUME NEW s \in Senders, Call(s) PROVE Senders1
    BY <2>1, <2>2, <2>3, Zenon, SMT DEF TypeOK, Call, Goto
  <2>4. ASSUME NEW s \in Senders, Sender(s) PROVE Senders1
    <3>1. CASE TcpCreate(s) \/ RLock(s) \/ LockedCreate(s) \/ Make(s)
      BY <2>2, <3>1 DEF TypeOK, TcpCreate, RLock, LockedCreate, Make, Goto
    <3>2. CASE EnterSelect(s)
      BY <2>2, <3>2 DEF TypeOK, EnterSelect, Goto
    <3>3. CASE Return(s) /\ n' = n
      BY <2>2, <3>3 DEF TypeOK, Goto, Return
    <3>4. CASE /\ \E l \in {"create", "enter", "panic"} : Goto(s, l)
               /\ rlocks' \subseteq rlocks /\ UNCHANGED <<op, n, sel>>
      BY <2>2, <3>4 DEF TypeOK, Goto
    <3>5. QED
      BY <2>4, <3>1, <3>2, <3>3, <3>4 DEF Sender, TestClosed, Enqueue, EnqueuePanic,
        Timeout,
         TcpDone
  <2>5. CASE UNCHANGED sendVars
    BY <2>2, <2>5 DEF sendVars, TypeOK
  <2>6. QED
    BY <2>3, <2>4, <2>5 DEF Next, vars, StartWriter, WriterLoop, WriterReceive,
      WriterClosed,
       WriterDone, WriterEnter, WriterWrite, PeerTurns, Cancel, KcpSetClose, LockedClose
<1>5. wpc' \in [Chans -> {"off", "loop", "select", "send", "write"}] /\ wsel' \in [Chans -> 0..made']
  <2>1. wsel \in [Chans -> 0..made'] /\ cur \in 0..made' /\ 0 \in 0..made'
    <3>1. \A h \in Chans : wsel[h] \in 0..made'
      BY <1>1 DEF TypeOK
    <3>2. QED
      BY <1>1, <3>1 DEF TypeOK
  <2>2. ASSUME NEW h \in Chans, StartWriter(h)
        PROVE  wpc' \in [Chans -> {"off", "loop", "select", "send", "write"}]
               /\ wsel' \in [Chans -> 0..made']
    <3>1. \E l \in {"off", "loop", "select", "send", "write"} : wpc' = [wpc EXCEPT ![h] = l]
      BY <2>2 DEF StartWriter, WriterLoop, WriterReceive, WriterClosed, WriterDone,
        WriterEnter, WriterWrite
    <3>2. wsel' = wsel \/ \E c \in {0, cur} : wsel' = [wsel EXCEPT ![h] = c]
      BY <2>2 DEF StartWriter, WriterLoop, WriterReceive, WriterClosed, WriterDone,
        WriterEnter, WriterWrite
    <3>3. wpc' \in [Chans -> {"off", "loop", "select", "send", "write"}]
      BY <3>1 DEF TypeOK
    <3>4. wsel' \in [Chans -> 0..made']
      BY <2>1, <3>2
    <3>5. QED
      BY <3>3, <3>4
  <2>3. CASE \E s \in Senders : Make(s)
    BY <2>1, <2>3 DEF TypeOK, Make
  <2>4. CASE UNCHANGED <<wpc, wsel>>
    BY <2>1, <2>4 DEF TypeOK
  <2>5. QED
    BY <2>2, <2>3, <2>4 DEF Next, vars, connVars, chanVars, sendVars, writerVars, Call,
      Sender,
       TcpCreate, RLock, LockedCreate, TestClosed, EnterSelect, Enqueue, EnqueuePanic,
       Timeout,
       TcpDone, PeerTurns, Cancel, KcpSetClose, LockedClose
<1>6. QED
  BY <1>1, <1>2, <1>3, <1>4, <1>5, <1>7, <1>8, MessagesTyped DEF TypeOK
LEMMA PlaceStep == ASSUME TypeOK, MakeInv, PlaceInv, [Next]_vars PROVE PlaceInv'
<1>1. made <= made' /\ made \in Nat /\ made' \in Nat
  BY MakeStep, SendersFinite DEF TypeOK
<1>2. \A s \in Senders : pc'[s] # "idle" => n'[s] \in 1..Quota[s]
  <2>1. ASSUME NEW s \in Senders, Call(s)
        PROVE  \A t \in Senders : pc'[t] # "idle" => n'[t] \in 1..Quota[t]
    <3>1. n[s] < Quota[s] /\ n' = [n EXCEPT ![s] = @ + 1]
          /\ \A t \in Senders : t # s => pc'[t] = pc[t]
      BY <2>1 DEF Call, Goto, TypeOK
    <3>2. n'[s] \in 1..Quota[s]
      <4>1. n[s] \in Nat /\ Quota[s] \in Nat
        BY SendQueueAssumption DEF TypeOK
      <4>2. n'[s] = n[s] + 1
        BY <3>1 DEF TypeOK
      <4>3. QED
        BY <3>1, <4>1, <4>2
    <3>3. \A t \in Senders : t # s => n'[t] = n[t]
      BY <3>1 DEF TypeOK
    <3>4. QED
      BY <3>1, <3>2, <3>3 DEF PlaceInv
  <2>2. ASSUME NEW s \in Senders, Sender(s)
        PROVE  n' = n /\ \A t \in Senders : pc'[t] # "idle" => pc[t] # "idle"
    BY <2>2 DEF Sender, TcpCreate, RLock, LockedCreate, Make, TestClosed, EnterSelect,
      Enqueue,
       EnqueuePanic, Timeout, TcpDone, Goto, Return, TypeOK
  <2>3. CASE UNCHANGED sendVars
    BY <2>3 DEF sendVars, PlaceInv
  <2>4. QED
    BY <2>1, <2>2, <2>3 DEF Next, vars, StartWriter, WriterLoop, WriterReceive,
      WriterClosed,
       WriterDone, WriterEnter, WriterWrite, PeerTurns, Cancel, KcpSetClose, LockedClose,
       PlaceInv
<1> DEFINE Writers(w, ws, ha, mk) ==
             /\ \A h \in Chans : w[h] # "off" => h <= mk
             /\ \A h \in Chans : w[h] = "select" => ws[h] \in 1..mk
             /\ \A h \in Chans : IF w[h] \in {"send", "write"} THEN \E m \in Messages : ha[h] = <<m>>
                                                  ELSE ha[h] = <<>>
<1>3. Writers(wpc', wsel', hand', made')
  <2>1. ASSUME NEW h \in Chans, WriterLoop(h) \/ WriterClosed(h) \/ WriterDone(h)
        PROVE  Writers(wpc', wsel', hand', made')
    <3>1. cur \in 1..made /\ h \in Nat
      BY <2>1, SendersFinite DEF WriterLoop, WriterClosed, WriterDone, PlaceInv, MakeInv,
         TypeOK, Chans
    <3>2. hand' = hand /\ made' = made
      BY <2>1 DEF WriterLoop, WriterClosed, WriterDone, chanVars
    <3>3. QED
      <4>1. /\ wpc[h] \in {"loop", "select"}
            /\ \E l \in {"select", "loop", "off"} : wpc' = [wpc EXCEPT ![h] = l]
            /\ wsel' = [wsel EXCEPT ![h] = IF wpc'[h] = "select" THEN cur ELSE 0]
        BY <2>1 DEF WriterLoop, WriterClosed, WriterDone, TypeOK
      <4>2. \A g \in Chans : g # h => wpc'[g] = wpc[g] /\ wsel'[g] = wsel[g]
        BY <4>1 DEF TypeOK
      <4>3. wpc'[h] \notin {"send", "write"} /\ (wpc'[h] = "select" => wsel'[h] = cur)
            /\ h <= made
        BY <2>1, <4>1 DEF TypeOK, PlaceInv
      <4>4. hand[h] = <<>>
        BY <4>1 DEF PlaceInv
      <4>5. \A g \in Chans : wpc'[g] = "select" => wsel'[g] \in 1..made'
        BY <3>1, <3>2, <4>2, <4>3 DEF PlaceInv
      <4>6. \A g \in Chans : wpc'[g] # "off" => g <= made'
        BY <3>2, <4>2, <4>3 DEF PlaceInv
      <4>7. \A g \in Chans : IF wpc'[g] \in {"send", "write"}
                            THEN \E m \in Messages : hand'[g] = <<m>> ELSE hand'[g] = <<>>
        BY <3>2, <4>2, <4>3, <4>4 DEF PlaceInv
      <4>8. QED
        BY <4>5, <4>6, <4>7
  <2>2. ASSUME NEW h \in Chans, WriterReceive(h) PROVE Writers(wpc', wsel', hand', made')
    <3>1. Head(buf[wsel[h]]) \in Messages
      BY <2>2, HeadTailProperties, SendersFinite
      DEF WriterReceive, PlaceInv, TypeOK, Chans
    <3>2. /\ wpc[h] = "select" /\ wpc' = [wpc EXCEPT ![h] = "send"]
          /\ wsel' = [wsel EXCEPT ![h] = 0]
          /\ hand' = [hand EXCEPT ![h] = <<Head(buf[wsel[h]])>>] /\ made' = made
      BY <2>2 DEF WriterReceive
    <3>3. QED
      BY <3>1, <3>2 DEF PlaceInv, TypeOK
  <2>3. ASSUME NEW h \in Chans, WriterEnter(h) \/ WriterWrite(h)
        PROVE  Writers(wpc', wsel', hand', made')
    <3>1. CASE /\ wpc[h] \in {"send", "write"} /\ wpc' = [wpc EXCEPT ![h] = "loop"]
               /\ hand' = [hand EXCEPT ![h] = <<>>] /\ UNCHANGED <<wsel, made>>
      BY <3>1 DEF PlaceInv, TypeOK
    <3>2. CASE /\ wpc[h] = "send" /\ wpc' = [wpc EXCEPT ![h] = "write"]
               /\ UNCHANGED <<hand, wsel, made>>
      BY <3>2 DEF PlaceInv, TypeOK
    <3>3. QED
      BY <2>3, <3>1, <3>2 DEF WriterEnter, WriterWrite, chanVars
  <2>4. ASSUME NEW s \in Senders, Make(s) PROVE Writers(wpc', wsel', hand', made')
    <3>1. /\ made' = made + 1 /\ wpc' = [wpc EXCEPT ![made + 1] = "loop"]
          /\ wsel' = wsel /\ hand' = hand
      BY <2>4 DEF Make
    <3>2. \A h \in Chans : h \in Nat
      BY SendersFinite DEF Chans
    <3>3. \A h \in Chans : h = made + 1 => wpc[h] = "off"
      BY <1>1, <3>2 DEF PlaceInv
    <3>4. \A h \in Chans : wpc'[h] = IF h = made + 1 THEN "loop" ELSE wpc[h]
      BY <3>1 DEF TypeOK
    <3>5. /\ \A h \in Chans : wpc'[h] # "off" => h <= made'
          /\ \A h \in Chans : wpc'[h] = "select" => wsel'[h] \in 1..made'
      BY <1>1, <3>1, <3>2, <3>4 DEF PlaceInv
    <3>6. \A h \in Chans : IF wpc'[h] \in {"send", "write"} THEN \E m \in Messages : hand'[h] = <<m>>
                                               ELSE hand'[h] = <<>>
      BY <3>1, <3>3, <3>4 DEF PlaceInv
    <3>7. QED
      BY <3>5, <3>6
  <2>5. CASE UNCHANGED <<wpc, wsel, hand, made>>
    BY <2>5 DEF PlaceInv
  <2>6. QED
    BY <2>1, <2>2, <2>3, <2>4, <2>5 DEF Next, vars, connVars, chanVars, sendVars,
      writerVars,
       Call, Sender, TcpCreate, RLock, LockedCreate, TestClosed, EnterSelect, Enqueue,
       EnqueuePanic, Timeout, TcpDone, StartWriter, PeerTurns, Cancel, KcpSetClose,
       LockedClose
<1>4. QED
  BY <1>2, <1>3 DEF PlaceInv

LEMMA ClashStep == ASSUME TypeOK, MakeInv, PlaceInv, ClashInv, [Next]_vars PROVE ClashInv'
<1>1. made <= made' /\ made \in Nat /\ made' \in Nat
  BY MakeStep, SendersFinite DEF TypeOK
<1>2. transport' = transport
  BY DEF Next, vars, connVars, Call, Sender, TcpCreate, RLock, LockedCreate, Make,
    TestClosed,
       EnterSelect, Enqueue, EnqueuePanic, Timeout, TcpDone, StartWriter, WriterLoop,
       WriterReceive, WriterClosed, WriterDone, WriterEnter, WriterWrite, PeerTurns, Cancel,
       KcpSetClose, LockedClose
<1>3. ASSUME NEW h \in Chans, WriterEnter(h), clash' # "no", clash = "no"
      PROVE  transport = "ws" /\ made > 1
  <2>1. transport = "ws" /\ wpc[h] = "send"
    BY <1>3 DEF WriterEnter
  <2>2. PICK g \in Chans : wpc[g] = "write"
    BY <1>3 DEF WriterEnter, Writing
  <2>3. g # h /\ g \in Nat \ {0} /\ h \in Nat \ {0} /\ g <= made /\ h <= made
    BY <2>1, <2>2, SendersFinite DEF PlaceInv, Chans
  <2>4. QED
    BY <1>1, <2>1, <2>3
<1>4. ASSUME ~\E h \in Chans : WriterEnter(h) PROVE clash' = clash
  BY <1>4 DEF Next, vars, writerVars, Call, Sender, TcpCreate, RLock, LockedCreate, Make,
       TestClosed, EnterSelect, Enqueue, EnqueuePanic, Timeout, TcpDone, StartWriter,
       WriterLoop, WriterReceive, WriterClosed, WriterDone, WriterWrite, PeerTurns, Cancel,
       KcpSetClose, LockedClose
<1>5. QED
  BY <1>1, <1>2, <1>3, <1>4 DEF ClashInv

LEMMA EndStep == ASSUME TypeOK, EndInv, [Next]_vars PROVE EndInv'
<1>1. ASSUME NEW s \in Senders, Call(s) PROVE EndInv'
  BY <1>1 DEF TypeOK, EndInv, Call, Goto, connVars, chanVars
<1>2. ASSUME NEW s \in Senders, Sender(s) PROVE EndInv'
  <2>1. CASE TcpCreate(s) \/ TcpDone(s)
    BY <2>1 DEF EndInv, TcpCreate, TcpDone, connVars
  <2>2. CASE RLock(s)
    BY <2>2 DEF TypeOK, EndInv, RLock, Goto, connVars, chanVars
  <2>3. CASE LockedCreate(s) \/ Make(s) \/ EnterSelect(s)
    BY <2>3 DEF TypeOK, EndInv, LockedCreate, Make, EnterSelect, Goto, connVars, chanVars
  <2>4. CASE TestClosed(s)
    BY <2>4 DEF TypeOK, EndInv, TestClosed, IsClosed, Goto, Return, connVars, chanVars
  <2>5. CASE Enqueue(s) \/ EnqueuePanic(s) \/ Timeout(s)
    <3>1. /\ UNCHANGED <<transport, ctx, closed, fin, shut>>
          /\ \A t \in Senders : t # s => pc'[t] = pc[t] /\ (t \in rlocks => t \in rlocks')
          /\ pc'[s] \in {"idle", "panic"}
      BY <2>5 DEF TypeOK, Enqueue, EnqueuePanic, Timeout, Goto, Return, connVars, chanVars
    <3>2. QED
      BY <3>1 DEF EndInv
  <2>6. QED
    BY <1>2, <2>1, <2>2, <2>3, <2>4, <2>5 DEF Sender
<1>3. CASE UNCHANGED <<transport, ctx, closed, fin, shut, sendVars>>
  BY <1>3 DEF EndInv, sendVars
<1>4. CASE Cancel \/ KcpSetClose
  BY <1>4 DEF EndInv, Cancel, KcpSetClose, chanVars, sendVars
<1>5. CASE LockedClose
  BY <1>5 DEF TypeOK, EndInv, LockedClose, sendVars
<1>6. QED
  BY <1>1, <1>2, <1>3, <1>4, <1>5 DEF Next, vars, connVars, chanVars, StartWriter,
    WriterLoop,
     WriterReceive, WriterClosed, WriterDone, WriterEnter, WriterWrite, PeerTurns
LEMMA FifoStep ==
    ASSUME TypeOK, MakeInv, PlaceInv, ClashInv, FifoInv, TcpFifo, [Next]_vars
    PROVE  FifoInv' /\ TcpFifo'
<1> SUFFICES ASSUME transport' = "tcp" PROVE FifoInv' /\ TcpFifo'
  BY DEF FifoInv, TcpFifo
<1>1. transport = "tcp"
  BY DEF Next, vars, connVars, chanVars, sendVars, writerVars, Call, Sender, TcpCreate,
       RLock, LockedCreate, Make, TestClosed, EnterSelect, Enqueue, EnqueuePanic, Timeout,
       TcpDone, StartWriter, WriterLoop, WriterReceive, WriterClosed, WriterDone,
       WriterEnter, WriterWrite, PeerTurns, Cancel, KcpSetClose, LockedClose
<1> DEFINE Maker(p, m, f) ==
             /\ f = 0 => m = 0
             /\ m <= 1
             /\ \A s \in Senders : p[s] = "make" =>
                   m = 0 /\ f = 1 /\ \A t \in Senders : p[t] = "make" => t = s
           Flow ==
             /\ made' = 0 => accepted' = <<>> /\ \A h \in Chans : buf'[h] = <<>>
             /\ made' = 1 /\ ctx' = "live" /\ peer' # "reset" =>
                   accepted' = Pipe(wire', hand'[1], buf'[1])
             /\ made' = 1 /\ wpc'[1] = "write" /\ peer' # "reset" =>
                   IsPrefix(wire' \o hand'[1], accepted')
             /\ IsPrefix(wire', accepted')
<1>2. Maker(pc', made', startFlag')
  <2>0. Maker(pc, made, startFlag) /\ cur = made
    BY <1>1 DEF FifoInv, MakeInv
  <2>1. ASSUME NEW s \in Senders, TcpCreate(s) PROVE Maker(pc', made', startFlag')
    <3>1. made' = made /\ startFlag' = IF made = 0 THEN 1 ELSE startFlag
      BY <2>0, <2>1 DEF TcpCreate
    <3>2. pc' = [pc EXCEPT ![s] = IF made = 0 /\ startFlag = 0 THEN "make" ELSE "test"]
      BY <2>0, <2>1 DEF TcpCreate, Goto
    <3>3. QED
      BY <2>0, <3>1, <3>2 DEF TypeOK
  <2>2. ASSUME NEW s \in Senders, Make(s) PROVE Maker(pc', made', startFlag')
    <3>1. /\ pc[s] = "make" /\ made' = made + 1 /\ startFlag' = startFlag
          /\ \A t \in Senders : pc'[t] = "make" => pc[t] = "make" /\ t # s
      BY <2>2 DEF Make, Goto, TypeOK
    <3>2. made = 0 /\ startFlag = 1 /\ \A t \in Senders : pc[t] = "make" => t = s
      BY <2>0, <3>1
    <3>3. QED
      BY <3>1, <3>2
  <2>3. ASSUME NEW s \in Senders, Call(s) \/ Sender(s), ~TcpCreate(s), ~Make(s)
        PROVE  Maker(pc', made', startFlag')
    <3>1. /\ made' = made /\ startFlag' = startFlag
          /\ \A t \in Senders : pc'[t] = "make" => pc[t] = "make"
      BY <1>1, <2>3 DEF Call, Sender, RLock, LockedCreate, TestClosed, EnterSelect, Enqueue,
         EnqueuePanic, Timeout, TcpDone, Goto, Return, TypeOK, chanVars
    <3>2. QED
      BY <2>0, <3>1
  <2>4. CASE UNCHANGED <<pc, made, startFlag>>
    BY <2>0, <2>4
  <2>5. QED
    BY <2>1, <2>2, <2>3, <2>4 DEF Next, vars, chanVars, sendVars, StartWriter, WriterLoop,
       WriterReceive, WriterClosed, WriterDone, WriterEnter, WriterWrite, PeerTurns,
       Cancel, KcpSetClose,
       LockedClose
<1>3. /\ made = 0 => accepted = <<>> /\ \A h \in Chans : buf[h] = <<>>
      /\ made = 1 /\ ctx = "live" /\ peer # "reset" => accepted = Pipe(wire, hand[1], buf[1])
      /\ made = 1 /\ wpc[1] = "write" /\ peer # "reset" => IsPrefix(wire \o hand[1], accepted)
      /\ IsPrefix(wire, accepted) /\ made \in Nat /\ made <= 1
  BY <1>1, SendersFinite DEF FifoInv, TcpFifo, TypeOK
<1>4. made >= 1 => 1 \in Chans
  BY SendersFinite DEF TypeOK, Chans
<1>5. ctx' = "live" => ctx = "live"
  BY DEF Next, vars, connVars, chanVars, sendVars, writerVars, Call, Sender, TcpCreate,
       RLock, LockedCreate, Make, TestClosed, EnterSelect, Enqueue, EnqueuePanic, Timeout,
       TcpDone, StartWriter, WriterLoop, WriterReceive, WriterClosed, WriterDone,
       WriterEnter, WriterWrite, PeerTurns, Cancel, KcpSetClose, LockedClose
<1>6. peer' # "reset" => peer # "reset"
  BY DEF Next, vars, connVars, chanVars, sendVars, writerVars, Call, Sender, TcpCreate,
       RLock, LockedCreate, Make, TestClosed, EnterSelect, Enqueue, EnqueuePanic, Timeout,
       TcpDone, StartWriter, WriterLoop, WriterReceive, WriterClosed, WriterDone,
       WriterEnter, WriterWrite, PeerTurns, Cancel, KcpSetClose, LockedClose
<1>7. ASSUME NEW s \in Senders, Enqueue(s) PROVE Flow
  <2>1. sel[s] = 1 /\ made = 1 /\ made' = 1 /\ 1 \in Chans
    BY <1>3, <1>4, <1>7 DEF Enqueue, TypeOK
  <2>2. Message(s) \in Messages
    BY <1>7, MessageType DEF Enqueue
  <2>3. /\ accepted' = Append(accepted, Message(s)) /\ wire' = wire
        /\ hand'[1] = hand[1] /\ buf'[1] = Append(buf[1], Message(s))
    BY <1>7, <2>1 DEF Enqueue, TypeOK, writerVars
  <2>4. buf[1] \in Seq(Messages) /\ hand[1] \in Seq(Messages) /\ wire \in Seq(Messages)
        /\ accepted \in Seq(Messages)
    BY <2>1 DEF TypeOK
  <2>5. IsPrefix(wire', accepted')
    BY <1>3, <2>2, <2>3, <2>4, PrefixOfAppend
  <2>6. Put(Pipe(wire, hand[1], buf[1]), Message(s))
           = Pipe(wire, hand[1], Put(buf[1], Message(s)))
    BY <2>2, <2>4, PipeAppend
  <2>7. accepted' = Put(accepted, Message(s)) /\ buf'[1] = Put(buf[1], Message(s))
    BY <2>3 DEF Put
  <2>8. wpc'[1] = "write" /\ peer' # "reset" => IsPrefix(wire' \o hand'[1], accepted')
    <3>1. wpc' = wpc /\ wire \o hand[1] \in Seq(Messages)
      BY <1>7, <2>4, ConcatProperties DEF Enqueue, writerVars
    <3>2. QED
      BY <1>3, <1>6, <2>1, <2>2, <2>3, <2>4, <3>1, PrefixOfAppend
  <2>9. QED
    BY <1>3, <1>5, <1>6, <2>1, <2>3, <2>5, <2>6, <2>7, <2>8
<1>8. ASSUME NEW h \in Chans, WriterReceive(h) PROVE Flow
  <2>1. h = 1 /\ wsel[h] = 1 /\ made = 1 /\ made' = 1 /\ hand[1] = <<>> /\ 1 \in Chans
    <3>1. h >= 1 /\ h \in Nat
      BY SendersFinite DEF Chans
    <3>2. h <= made /\ wsel[h] \in 1..made /\ hand[h] = <<>> /\ made' = made
      BY <1>8 DEF WriterReceive, PlaceInv
    <3>3. QED
      BY <1>3, <1>4, <3>1, <3>2
  <2>2. buf[1] \in Seq(Messages) /\ buf[1] # <<>> /\ wire \in Seq(Messages)
    BY <1>8, <2>1 DEF TypeOK, WriterReceive
  <2>3. /\ accepted' = accepted /\ wire' = wire
        /\ hand'[1] = <<Head(buf[1])>> /\ buf'[1] = Tail(buf[1])
    BY <1>8, <2>1 DEF WriterReceive, TypeOK
  <2>4. Pipe(wire, <<>>, buf[1]) = Pipe(wire, <<Head(buf[1])>>, Tail(buf[1]))
    BY <2>2, MoveHead DEF Pipe
  <2>5. wpc'[1] # "write"
    BY <1>8, <2>1 DEF WriterReceive, TypeOK
  <2>6. QED
    BY <1>3, <1>5, <1>6, <2>1, <2>3, <2>4, <2>5
<1>9. ASSUME NEW h \in Chans, WriterEnter(h) \/ WriterWrite(h) PROVE Flow
  <2>1. h = 1 /\ made = 1 /\ made' = 1 /\ 1 \in Chans
    <3>1. h >= 1 /\ h \in Nat
      BY SendersFinite DEF Chans
    <3>2. h <= made /\ made' = made
      BY <1>9 DEF WriterEnter, WriterWrite, PlaceInv, chanVars
    <3>3. QED
      BY <1>3, <1>4, <3>1, <3>2
  <2>2. /\ buf[1] \in Seq(Messages) /\ hand[1] \in Seq(Messages) /\ wire \in Seq(Messages)
    BY <2>1 DEF TypeOK
  <2>3. /\ accepted' = accepted /\ buf'[1] = buf[1] /\ ctx' = ctx /\ peer' = peer
    BY <1>9, <2>1 DEF WriterEnter, WriterWrite, chanVars, connVars
  <2>4. clash = "no" /\ Written(h) = {wire \o hand[1]}
    BY <1>1, <2>1 DEF ClashInv, Written
  <2>5. CASE WriterEnter(h)
    <3>1. wire' = wire /\ (ctx = "done" \/ hand'[1] = hand[1])
          /\ (wpc'[1] = "write" => ctx = "live" /\ hand'[1] = hand[1])
      BY <1>1, <2>1, <2>5 DEF WriterEnter, IsClosed, TypeOK
    <3>2. ctx = "live" /\ peer # "reset" => IsPrefix(wire \o hand[1], accepted)
      <4>1. wire \o hand[1] \in Seq(Messages)
        BY <2>2, ConcatProperties
      <4>2. QED
        BY <1>3, <2>1, <2>2, <4>1, PrefixOfConcat DEF Pipe
    <3>3. QED
      BY <1>3, <2>1, <2>3, <3>1, <3>2
  <2>6. CASE WriterWrite(h)
    <3>1. hand'[1] = <<>> /\ wpc[1] = "write" /\ wpc'[1] = "loop"
      BY <2>1, <2>6 DEF WriterWrite, TypeOK
    <3>2. CASE wire' = wire /\ (ctx = "done" \/ peer = "reset")
      BY <1>3, <2>1, <2>3, <3>1, <3>2
    <3>3. CASE wire' = wire \o hand[1] /\ peer = "reads"
      <4>1. IsPrefix(wire', accepted')
        BY <1>3, <2>1, <2>3, <3>1, <3>3
      <4>2. wire' \in Seq(Messages)
        BY <2>2, <3>3, ConcatProperties
      <4>3. Pipe(wire, hand[1], buf[1]) = Pipe(wire', <<>>, buf[1])
        BY <3>3, <4>2, ConcatEmptySeq DEF Pipe
      <4>4. QED
        BY <1>3, <2>1, <2>3, <3>1, <4>1, <4>3
    <3>4. QED
      BY <2>4, <2>6, <3>2, <3>3 DEF WriterWrite, WriteFails
  <2>7. QED
    BY <1>9, <2>5, <2>6
<1>10. ASSUME UNCHANGED <<buf, hand, accepted, wire>>,
              ~\E h \in Chans : WriterEnter(h) \/ WriterWrite(h)
       PROVE  Flow
  <2>0. \A h \in Chans : wpc'[h] = "write" => wpc[h] = "write"
    BY <1>10 DEF TypeOK, Next, vars, writerVars, Call, Sender, TcpCreate, RLock,
      LockedCreate,
       Make, TestClosed, EnterSelect, Enqueue, EnqueuePanic, Timeout, TcpDone, StartWriter,
       WriterLoop, WriterReceive, WriterClosed, WriterDone, PeerTurns, Cancel, KcpSetClose,
       LockedClose
  <2>1. CASE made' = made
    <3>1. buf' = buf /\ hand' = hand /\ accepted' = accepted /\ wire' = wire
      BY <1>10
    <3>2. IsPrefix(wire', accepted')
      BY <1>3, <3>1
    <3>3. made' = 0 => accepted' = <<>> /\ \A h \in Chans : buf'[h] = <<>>
      BY <1>3, <2>1, <3>1
    <3>4. made' = 1 /\ ctx' = "live" /\ peer' # "reset" => accepted' = Pipe(wire', hand'[1], buf'[1])
      BY <1>3, <1>5, <1>6, <2>1, <3>1
    <3>5. made' = 1 /\ wpc'[1] = "write" /\ peer' # "reset"
             => IsPrefix(wire' \o hand'[1], accepted')
      BY <1>3, <1>4, <1>6, <2>0, <2>1, <3>1
    <3>6. QED
      BY <3>2, <3>3, <3>4, <3>5
  <2>2. CASE made' # made
    <3>1. made = 0 /\ made' = 1 /\ accepted = <<>>
      <4>1. made' \in Nat /\ made <= made' /\ made' <= 1
        BY <1>2, MakeStep, SendersFinite
      <4>2. QED
        BY <1>3, <2>2, <4>1
    <3>2. wire = <<>>
      <4>1. Len(wire) <= 0 /\ Len(wire) \in Nat
        BY <1>3, <3>1, EmptySeq, LenProperties DEF IsPrefix, TypeOK
      <4>2. QED
        BY <4>1, EmptySeq DEF TypeOK
    <3>3. hand[1] = <<>> /\ buf[1] = <<>>
      <4>1. 1 \in Chans
        BY <3>1, MakeStep, SendersFinite DEF Chans
      <4>2. QED
        BY <1>3, <3>1, <4>1 DEF PlaceInv
    <3>4. Pipe(<<>>, <<>>, <<>>) = <<>>
      BY EmptySeq, ConcatEmptySeq DEF Pipe
    <3>5. QED
      <4>1. buf' = buf /\ hand' = hand /\ accepted' = accepted /\ wire' = wire
        BY <1>10
      <4>2. IsPrefix(wire', accepted')
        BY <1>3, <4>1
      <4>3. accepted' = Pipe(wire', hand'[1], buf'[1])
        BY <3>1, <3>2, <3>3, <3>4, <4>1
      <4>4. wpc'[1] # "write"
        <5>1. 1 \in Chans
          BY <3>1, MakeStep, SendersFinite DEF Chans
        <5>2. wpc[1] = "off"
          BY <3>1, <5>1 DEF PlaceInv
        <5>3. QED
          BY <2>0, <5>1, <5>2
      <4>5. QED
        BY <3>1, <4>2, <4>3, <4>4
  <2>3. QED
    BY <2>1, <2>2
<1>11. QED
  BY <1>2, <1>7, <1>8, <1>9, <1>10, StepCases DEF Moves, FifoInv, TcpFifo

-----------------------------------------------------------------------------
(* No message is lost or doubled.                                          *)

LEMMA LocatedAccept ==
    ASSUME NEW W, NEW B \in [Chans -> SUBSET Messages], NEW H, NEW A, Located(W, B, H, A),
           NEW h \in Chans, NEW m, m \notin A,
           NEW C, C = [B EXCEPT ![h] = @ \cup {m}], NEW D, D = A \cup {m}
    PROVE  Located(W, C, H, D) /\ (Present(W, B, H, A) => Present(W, C, H, D))
BY DEF Located, Present

LEMMA LocatedSend ==
    ASSUME NEW W, NEW B, NEW H \in [Chans -> SUBSET Messages], NEW A, Located(W, B, H, A),
           NEW h \in Chans, NEW K, K = [H EXCEPT ![h] = {}], NEW V, V = W \cup H[h]
    PROVE  /\ Located(W, B, K, A) /\ Located(V, B, K, A)
           /\ Present(W, B, H, A) => Present(V, B, K, A)
BY DEF Located, Present

LEMMA OnceStep ==
    ASSUME TypeOK, PlaceInv, EndInv, OnceInv, [Next]_vars
    PROVE  OnceInv'
<1> DEFINE Numbers(a, q, p) ==
             \A s \in Senders, k \in Nat : <<s, k>> \in a =>
                 k <= q[s] /\ (p[s] # "idle" => k < q[s])
           Place ==
             /\ Once(wire')
             /\ \A h \in Chans : Once(buf'[h])
             /\ Located(Range(wire'), Ranges(buf'), Ranges(hand'), Range(accepted'))
             /\ ~Lost => Present(Range(wire'), Ranges(buf'), Ranges(hand'), Range(accepted'))
<1>0. clash' = "no" => clash = "no"
  BY DEF Next, vars, writerVars, Call, Sender, TcpCreate, RLock, LockedCreate, Make,
    TestClosed,
       EnterSelect, Enqueue, EnqueuePanic, Timeout, TcpDone, StartWriter, WriterLoop,
       WriterReceive, WriterClosed, WriterDone, WriterEnter, WriterWrite, PeerTurns, Cancel,
       KcpSetClose, LockedClose
<1>1. Lost => Lost'
  BY DEF Lost, Next, vars, connVars, chanVars, sendVars, writerVars, Call, Sender,
    TcpCreate,
       RLock, LockedCreate, Make, TestClosed, EnterSelect, Enqueue, EnqueuePanic, Timeout,
       TcpDone, StartWriter, WriterLoop, WriterReceive, WriterClosed, WriterDone,
       WriterEnter, WriterWrite, PeerTurns, Cancel, KcpSetClose, LockedClose
<1>2. /\ Ranges(buf) \in [Chans -> SUBSET Messages] /\ Ranges(hand) \in [Chans -> SUBSET Messages]
      /\ wire \in Seq(Messages) /\ accepted \in Seq(Messages)
  <2>1. \A x \in Seq(Messages) : Range(x) \subseteq Messages
    BY RangeOfSeq
  <2>2. QED
    BY <2>1 DEF Ranges, TypeOK
<1>3. ASSUME NEW s \in Senders, Enqueue(s) PROVE (clash = "no" => Place) /\ Numbers(Range(accepted'), n', pc')
  <2> DEFINE m == Message(s)
             h == sel[s]
  <2>1. m \in Messages /\ h \in Chans /\ n[s] \in Nat
    BY <1>3, MessageType, SendersFinite, SMTT(60) DEF Enqueue, TypeOK, Chans
  <2>2. m \notin Range(accepted)
    BY <1>3, <2>1 DEF OnceInv, Enqueue, Message
  <2>3. /\ accepted' = Append(accepted, m) /\ wire' = wire /\ hand' = hand
        /\ buf' = [buf EXCEPT ![h] = Append(buf[h], m)]
    BY <1>3 DEF Enqueue, writerVars
  <2>4. /\ pc' = [pc EXCEPT ![s] = "idle"] /\ n' = n
    BY <1>3 DEF Enqueue, Return, Goto
  <2>5. m = <<s, n[s]>>
    BY DEF Message
  <2> HIDE DEF m, h
  <2>6. Range(accepted') = Range(accepted) \cup {m}
    BY <1>2, <2>1, <2>3, AppendRange
  <2>7. buf[h] \in Seq(Messages) /\ buf \in [Chans -> Seq(Messages)]
        /\ (clash = "no" => Once(buf[h]))
    BY <2>1 DEF TypeOK, OnceInv
  <2>8. Range(Append(buf[h], m)) = Range(buf[h]) \cup {m}
    BY <2>1, <2>7, AppendRange
  <2>9. clash = "no" => m \notin Range(buf[h])
    BY <2>1, <2>2 DEF OnceInv, Located, Ranges
  <2>10. clash = "no" => Once(Append(buf[h], m))
    BY <2>1, <2>7, <2>9, AppendOnce
  <2>11. Ranges(buf') = [Ranges(buf) EXCEPT ![h] = @ \cup {m}]
    BY <2>1, <2>3, <2>7, <2>8 DEF Ranges
  <2>12. clash = "no" =>
         /\ Located(Range(wire), Ranges(buf'), Ranges(hand), Range(accepted'))
         /\ ~Lost => Present(Range(wire), Ranges(buf'), Ranges(hand), Range(accepted'))
    BY <1>2, <2>1, <2>2, <2>6, <2>11, LocatedAccept DEF OnceInv
  <2>13. clash = "no" => Place
    BY <2>1, <2>3, <2>7, <2>10, <2>12 DEF OnceInv
  <2>14. Numbers(Range(accepted'), n', pc')
    BY <2>1, <2>4, <2>5, <2>6 DEF OnceInv, TypeOK
  <2>15. QED
    BY <2>13, <2>14
<1>4. ASSUME clash = "no", NEW h \in Chans, WriterReceive(h) PROVE Place
  <2> DEFINE g == wsel[h]
             m == Head(buf[g])
  <2>1. g \in Chans /\ hand[h] = <<>>
    <3>1. wpc[h] = "select" /\ g \in 1..made /\ hand[h] = <<>>
      BY <1>4 DEF WriterReceive, PlaceInv
    <3>2. QED
      BY <3>1, SendersFinite DEF TypeOK, Chans
  <2>2. /\ accepted' = accepted /\ wire' = wire /\ buf[g] # <<>>
        /\ hand' = [hand EXCEPT ![h] = <<m>>] /\ buf' = [buf EXCEPT ![g] = Tail(buf[g])]
    BY <1>4 DEF WriterReceive
  <2>3. buf[g] \in Seq(Messages) /\ Once(buf[g]) /\ buf \in [Chans -> Seq(Messages)]
    BY <1>4, <2>1 DEF TypeOK, OnceInv
  <2> HIDE DEF g
  <2>4. Once(Tail(buf[g])) /\ Range(Tail(buf[g])) = Range(buf[g]) \ {m} /\ m \in Range(buf[g])
    BY <2>2, <2>3, TailOnce
  <2> HIDE DEF m
  <2>5. Range(<<m>>) = {m} /\ Range(hand[h]) = {}
    BY <2>1, EmptyRange DEF Range
  <2>6. Ranges(buf') = [Ranges(buf) EXCEPT ![g] = @ \ {m}]
    BY <2>1, <2>2, <2>3, <2>4 DEF Ranges
  <2>7. Ranges(hand') = [Ranges(hand) EXCEPT ![h] = {m}]
    BY <2>2, <2>5 DEF Ranges, TypeOK
  <2>8. Ranges(hand)[h] = {} /\ m \in Ranges(buf)[g]
    BY <2>1, <2>4, <2>5 DEF Ranges
  <2>9. /\ Located(Range(wire), Ranges(buf'), Ranges(hand'), Range(accepted))
        /\ ~Lost => Present(Range(wire), Ranges(buf'), Ranges(hand'), Range(accepted))
    <3> DEFINE W == Range(wire)
               B == Ranges(buf)
               H == Ranges(hand)
               A == Range(accepted)
               C == Ranges(buf')
               K == Ranges(hand')
    <3>1. /\ Located(W, B, H, A) /\ m \in B[g] /\ H[h] = {} /\ g \in Chans
          /\ C = [B EXCEPT ![g] = @ \ {m}] /\ K = [H EXCEPT ![h] = {m}]
          /\ B \in [Chans -> SUBSET Messages] /\ H \in [Chans -> SUBSET Messages]
          /\ ~Lost => Present(W, B, H, A)
      BY <1>2, <1>4, <2>1, <2>6, <2>7, <2>8 DEF OnceInv
    <3> HIDE DEF W, B, H, A, C, K
    <3>2. Located(W, C, K, A) /\ (Present(W, B, H, A) => Present(W, C, K, A))
      BY <3>1 DEF Located, Present
    <3>3. QED
      BY <3>1, <3>2 DEF W, B, H, A, C, K
  <2>10. QED
    BY <1>4, <2>1, <2>2, <2>3, <2>4, <2>9 DEF OnceInv
<1>5. ASSUME clash = "no", NEW h \in Chans, WriterEnter(h) \/ WriterWrite(h), hand' # hand
      PROVE  Place
  <2>1. PICK m \in Messages : hand[h] = <<m>>
    BY <1>5 DEF WriterEnter, WriterWrite, PlaceInv
  <2>2. /\ accepted' = accepted /\ buf' = buf /\ hand' = [hand EXCEPT ![h] = <<>>]
        /\ (wire' = wire /\ Lost) \/ wire' = wire \o hand[h]
    <3>1. IsClosed => Lost
      BY DEF IsClosed, Lost, EndInv
    <3>2. WriteFails => Lost
      BY DEF WriteFails, Lost
    <3>3. Written(h) = {wire \o hand[h]}
      BY <1>5 DEF Written
    <3>4. QED
      BY <1>5, <3>1, <3>2, <3>3 DEF WriterEnter, WriterWrite, chanVars
  <2>3. Range(<<m>>) = {m} /\ Range(hand[h]) = {m} /\ Ranges(hand)[h] = {m}
    BY <2>1 DEF Range, Ranges
  <2>4. Ranges(hand') = [Ranges(hand) EXCEPT ![h] = {}]
    BY <2>2, EmptyRange DEF Ranges, TypeOK
  <2>5. CASE wire' = wire /\ Lost
    BY <1>2, <1>5, <2>2, <2>4, <2>5, LocatedSend DEF OnceInv
  <2>6. CASE wire' = wire \o hand[h]
    <3>1. wire' = Append(wire, m)
      BY <1>2, <2>1, <2>6, AppendIsConcat
    <3>2. Range(wire') = Range(wire) \cup {m}
      BY <1>2, <3>1, AppendRange
    <3>3. m \notin Range(wire)
      BY <1>5, <2>3 DEF OnceInv, Located
    <3>4. Once(wire')
      BY <1>2, <1>5, <3>1, <3>3, AppendOnce DEF OnceInv
    <3>5. /\ Located(Range(wire'), Ranges(buf), Ranges(hand'), Range(accepted))
          /\ ~Lost => Present(Range(wire'), Ranges(buf), Ranges(hand'), Range(accepted))
      BY <1>2, <1>5, <2>3, <2>4, <3>2, LocatedSend DEF OnceInv
    <3>6. QED
      BY <1>5, <2>2, <3>4, <3>5 DEF OnceInv
  <2>7. QED
    BY <2>2, <2>5, <2>6
<1>6. ASSUME clash = "no", UNCHANGED <<buf, hand, accepted, wire>> PROVE Place
  BY <1>6 DEF OnceInv
<1>7. ASSUME accepted' = accepted PROVE Numbers(Range(accepted'), n', pc')
  <2>1. ASSUME NEW s \in Senders, Call(s) PROVE Numbers(Range(accepted'), n', pc')
    <3>1. n' = [n EXCEPT ![s] = n[s] + 1] /\ pc[s] = "idle"
          /\ \A t \in Senders : t # s => pc'[t] = pc[t]
      BY <2>1 DEF Call, Goto, TypeOK
    <3>2. QED
      BY <1>7, <3>1 DEF OnceInv, TypeOK
  <2>2. ASSUME NEW s \in Senders, Sender(s) PROVE Numbers(Range(accepted'), n', pc')
    <3>1. n' = n /\ \A t \in Senders : pc'[t] # "idle" => pc[t] # "idle"
      BY <2>2 DEF Sender, TcpCreate, RLock, LockedCreate, Make, TestClosed, EnterSelect,
         Enqueue, EnqueuePanic, Timeout, TcpDone, Goto, Return, TypeOK
    <3>2. QED
      BY <1>7, <3>1 DEF OnceInv
  <2>3. CASE UNCHANGED <<n, pc>>
    BY <1>7, <2>3 DEF OnceInv
  <2>4. QED
    BY <2>1, <2>2, <2>3 DEF Next, vars, sendVars, StartWriter, WriterLoop, WriterReceive,
       WriterClosed, WriterDone, WriterEnter, WriterWrite, PeerTurns, Cancel, KcpSetClose,
       LockedClose
<1>8. (clash = "no" => Place) /\ Numbers(Range(accepted'), n', pc')
  <2>1. ASSUME NEW h \in Chans, WriterReceive(h) \/ WriterEnter(h) \/ WriterWrite(h)
        PROVE  accepted' = accepted
    BY <2>1 DEF WriterReceive, WriterEnter, WriterWrite
  <2>2. ASSUME NEW h \in Chans, WriterEnter(h) \/ WriterWrite(h), hand' = hand
        PROVE  UNCHANGED <<buf, hand, accepted, wire>>
    <3>1. wpc[h] \in {"send", "write"} /\ hand[h] # <<>>
      <4>1. PICK m \in Messages : wpc[h] \in {"send", "write"} /\ hand[h] = <<m>>
        BY <2>2 DEF WriterEnter, WriterWrite, PlaceInv
      <4>2. QED
        BY <4>1
    <3>2. ~WriterWrite(h)
      BY <2>2, <3>1 DEF WriterWrite, TypeOK
    <3>3. QED
      BY <2>2, <3>2 DEF WriterEnter, chanVars
  <2>3. QED
    BY <1>3, <1>4, <1>5, <1>6, <1>7, <2>1, <2>2, StepCases DEF Moves
<1>9. QED
  BY <1>0, <1>1, <1>8 DEF OnceInv, Ranges

LEMMA PanicStep ==
    ASSUME TypeOK, EndInv, PanicOnlyWhenOver, [Next]_vars
    PROVE  PanicOnlyWhenOver'
<1>1. transport' = transport /\ (ctx = "done" => ctx' = "done")
  BY DEF Next, vars, connVars, chanVars, sendVars, writerVars, Call, Sender, TcpCreate,
       RLock, LockedCreate, Make, TestClosed, EnterSelect, Enqueue, EnqueuePanic, Timeout,
       TcpDone, StartWriter, WriterLoop, WriterReceive, WriterClosed, WriterDone,
       WriterEnter, WriterWrite, PeerTurns, Cancel, KcpSetClose, LockedClose
<1>2. ASSUME NEW s \in Senders, EnqueuePanic(s) PROVE ctx = "done" /\ transport # "ws"
  BY <1>2 DEF EnqueuePanic, EndInv
<1>3. ASSUME NEW s \in Senders, TcpDone(s) PROVE ctx = "done" /\ transport # "ws"
  BY <1>3 DEF TcpDone
<1>4. ASSUME NEW s \in Senders, NEW t \in Senders, Call(s) \/ Sender(s),
             ~EnqueuePanic(s), ~TcpDone(s), pc'[t] = "panic"
      PROVE  pc[t] = "panic"
  BY <1>4 DEF TypeOK, Call, Sender, TcpCreate, RLock, LockedCreate, Make, TestClosed,
     EnterSelect, Enqueue, Timeout, Goto, Return
<1>5. ASSUME NEW s \in Senders, NEW t \in Senders, EnqueuePanic(s) \/ TcpDone(s),
             pc'[t] = "panic", t # s
      PROVE  pc[t] = "panic"
  BY <1>5 DEF TypeOK, EnqueuePanic, TcpDone, Goto, Return
<1>6. ASSUME ~\E s \in Senders : Call(s) \/ Sender(s) PROVE pc' = pc
  BY <1>6 DEF Next, vars, sendVars, StartWriter, WriterLoop, WriterReceive, WriterClosed,
     WriterDone, WriterEnter, WriterWrite, PeerTurns, Cancel, KcpSetClose, LockedClose
<1>7. SUFFICES ASSUME NEW t \in Senders, pc'[t] = "panic"
               PROVE  ctx = "done" /\ transport # "ws"
  BY <1>1 DEF PanicOnlyWhenOver
<1>8. CASE pc[t] = "panic"
  BY <1>8 DEF PanicOnlyWhenOver
<1>9. CASE pc[t] # "panic"
  BY <1>2, <1>3, <1>4, <1>5, <1>6, <1>7, <1>9 DEF Sender
<1>10. QED
  BY <1>8, <1>9

-----------------------------------------------------------------------------
(* What follows from the invariant.                                        *)

LEMMA Invariance == Spec => []IInv
<1>1. IInv /\ [Next]_vars => IInv'
  BY TypeStep, MakeStep, PlaceStep, ClashStep, EndStep, PanicStep, FifoStep,
    OnceStep DEF IInv
<1>2. QED
  BY InitIInv, <1>1, PTL DEF Spec

LEMMA AtMostOne ==
    ASSUME NEW S, \A x, y \in S : x = y
    PROVE  Cardinality(S) = IF S = {} THEN 0 ELSE 1
<1>1. CASE S = {}
  BY <1>1, FS_EmptySet
<1>2. CASE S # {}
  <2>1. PICK x \in S : TRUE
    BY <1>2
  <2>2. S = {x}
    BY <2>1
  <2>3. QED
    BY <1>2, <2>2, FS_Singleton
<1>3. QED
  BY <1>1, <1>2

LEMMA OnceCopies == ASSUME TypeOK, ClashInv, OnceInv PROVE ExactlyOnce
<1>1. SUFFICES ASSUME clash = "no", NEW m \in Messages
               PROVE  IF m \in Range(accepted) /\ ctx = "live" /\ peer # "reset" THEN Copies(m) = 1
                      ELSE Copies(m) <= (IF m \in Range(accepted) THEN 1 ELSE 0)
  BY DEF ExactlyOnce, ClashInv
<1> DEFINE onWire == {i \in DOMAIN wire : wire[i] = m}
           inBuf == {p \in Chans \X (1..MaxMsgChanLen) :
                       p[2] \in DOMAIN buf[p[1]] /\ buf[p[1]][p[2]] = m}
           inHand == {h \in Chans : m \in Range(hand[h])}
<1>2. /\ Once(wire) /\ \A h \in Chans : Once(buf[h])
      /\ \A g, h \in Chans : g # h => /\ Range(buf[g]) \cap Range(buf[h]) = {}
                                      /\ Range(hand[g]) \cap Range(hand[h]) = {}
      /\ \A g, h \in Chans : Range(buf[g]) \cap Range(hand[h]) = {}
      /\ \A h \in Chans : Range(wire) \cap (Range(buf[h]) \cup Range(hand[h])) = {}
      /\ Range(wire) \subseteq Range(accepted)
      /\ \A h \in Chans : Range(buf[h]) \cup Range(hand[h]) \subseteq Range(accepted)
      /\ ctx = "live" /\ peer # "reset" => \A a \in Range(accepted) :
            a \in Range(wire) \/ \E h \in Chans : a \in Range(buf[h]) \cup Range(hand[h])
  BY <1>1 DEF OnceInv, Located, Present, Ranges, Lost
<1>3. /\ Len(wire) \in Nat /\ DOMAIN wire = 1..Len(wire)
      /\ Range(wire) = {wire[i] : i \in 1..Len(wire)}
  <2>1. wire \in Seq(Messages)
    BY DEF TypeOK
  <2>2. QED
    BY <2>1, LenProperties, RangeEquality
<1>4. ASSUME NEW h \in Chans
      PROVE  /\ Len(buf[h]) \in 0..MaxMsgChanLen /\ DOMAIN buf[h] = 1..Len(buf[h])
             /\ Range(buf[h]) = {buf[h][i] : i \in 1..Len(buf[h])}
  <2>1. buf[h] \in Seq(Messages) /\ Len(buf[h]) <= MaxMsgChanLen
    BY DEF TypeOK
  <2>2. QED
    BY <2>1, LenProperties, RangeEquality, SendQueueAssumption
<1>5. (\A i, j \in onWire : i = j) /\ (onWire # {} <=> m \in Range(wire))
  BY <1>2, <1>3 DEF Once
<1>6. \A p, q \in inBuf : p = q
  <2>1. SUFFICES ASSUME NEW p \in inBuf, NEW q \in inBuf PROVE p = q
    OBVIOUS
  <2>2. /\ p = <<p[1], p[2]>> /\ q = <<q[1], q[2]>> /\ p[1] \in Chans /\ q[1] \in Chans
        /\ p[2] \in DOMAIN buf[p[1]] /\ q[2] \in DOMAIN buf[q[1]]
        /\ buf[p[1]][p[2]] = m /\ buf[q[1]][q[2]] = m
    OBVIOUS
  <2>3. m \in Range(buf[p[1]]) /\ m \in Range(buf[q[1]])
    BY <2>2 DEF Range
  <2>4. p[1] = q[1]
    BY <1>2, <2>2, <2>3
  <2>5. p[2] = q[2]
    BY <1>2, <1>4, <2>2, <2>4 DEF Once
  <2>6. QED
    BY <2>2, <2>4, <2>5
<1>7. inBuf # {} <=> \E h \in Chans : m \in Range(buf[h])
  <2>1. ASSUME NEW p \in inBuf PROVE \E h \in Chans : m \in Range(buf[h])
    BY <2>1 DEF Range
  <2>2. ASSUME NEW h \in Chans, m \in Range(buf[h]) PROVE inBuf # {}
    <3>1. PICK i \in 1..Len(buf[h]) : buf[h][i] = m
      BY <1>4, <2>2
    <3>2. i \in 1..MaxMsgChanLen /\ i \in DOMAIN buf[h]
      BY <1>4, <3>1, SendQueueAssumption
    <3>3. <<h, i>> \in inBuf
      BY <3>1, <3>2
    <3>4. QED
      BY <3>3
  <2>3. QED
    BY <2>1, <2>2
<1>8. \A g, h \in inHand : g = h
  BY <1>2
<1>9. Copies(m) = Cardinality(onWire) + Cardinality(inBuf) + Cardinality(inHand)
  BY DEF Copies
<1>10. inHand # {} <=> \E h \in Chans : m \in Range(hand[h])
  OBVIOUS
<1> HIDE DEF onWire, inBuf, inHand
<1>11. /\ Cardinality(onWire) = IF m \in Range(wire) THEN 1 ELSE 0
       /\ Cardinality(inBuf) = IF \E h \in Chans : m \in Range(buf[h]) THEN 1 ELSE 0
       /\ Cardinality(inHand) = IF \E h \in Chans : m \in Range(hand[h]) THEN 1 ELSE 0
  BY <1>5, <1>6, <1>7, <1>8, <1>10, AtMostOne
<1>12. QED
  BY <1>2, <1>9, <1>11 DEF TypeOK

\* The variables of the send path keep their types: no channel outgrows its capacity,
\* and racing senders make at most one channel each (setStartWriterFlag, SendToQueue).
THEOREM TypeCorrect == Spec => []TypeOK
BY Invariance, PTL DEF IInv

\* A message whose call returned nil is in exactly one place until the connection is
\* cancelled or reset, and one whose call failed is in none, unless two writers of a
\* websocket have met in WriteMessage, which takes two channels; for any number of senders,
\* channels and writers, of all three transports (SendToQueue, SendBuffMsg, StartWriter).
THEOREM AcceptedOnce == Spec => []ExactlyOnce
<1>1. IInv => ExactlyOnce
  BY OnceCopies DEF IInv
<1>2. QED
  BY <1>1, Invariance, PTL

\* On TCP the socket carries what was accepted in the order in which it was accepted:
\* the atomic flag makes one channel and one writer (setStartWriterFlag).
THEOREM TcpInOrder == Spec => []TcpFifo
BY Invariance, PTL DEF IInv

\* Nobody sends on a closed channel, or closes one twice, before the connection is over,
\* and on a websocket connection never: there the sender holds msgLock for reading from
\* the test of isClosed to the end of the select, and finalizer closes under the lock.
THEOREM PanicAtEnd == Spec => []PanicOnlyWhenOver
BY Invariance, PTL DEF IInv
=============================================================================
