-------------------------- MODULE HeartbeatProofs ---------------------------
(***************************************************************************)
(* Proofs about modules Heartbeat and Callbacks, for every transport,      *)
(* heartbeat limit, set of users and number of calls: the checker stops    *)
(* before its socket is closed, msgLock excludes its write, and the list   *)
(* of close callbacks is called in order.                                  *)
(***************************************************************************)
EXTENDS Callbacks, FiniteSetTheorems, WellFoundedInduction, TLAPS

\* The rendezvous on quitChan orders the two goroutines: the finalizer is past it
\* exactly when the checker has returned.
OrderInv ==
    /\ fpc = "new" <=> hpc = "off"
    /\ fpc \in {"close", "done"} <=> hpc = "quit"
    /\ ~open <=> fpc = "done"

\* msgLock excludes the checker's write from the finalizer's critical section.
LockInv ==
    /\ rlock <=> (transport # "tcp" /\ hpc = "write")
    /\ wlock = "wait" => fpc = "lock"
    /\ wlock = "held" => transport # "tcp" /\ ~rlock
    /\ transport = "tcp" => fpc # "lock" /\ hpc # "rlock"

IInv == TypeOK /\ OrderInv /\ LockInv

LEMMA InitIInv == Init => IInv
<1> SUFFICES ASSUME Init PROVE IInv
  OBVIOUS
<1>1. TypeOK
  <2>1. age \in 0..HBMax
    BY HeartbeatAssumption DEF Init
  <2>2. /\ closed \in BOOLEAN /\ open \in BOOLEAN /\ rlock \in BOOLEAN
        /\ tick \in BOOLEAN /\ silent \in BOOLEAN /\ stalled \in BOOLEAN
    BY Zenon DEF Init
  <2> QED BY <2>1, <2>2 DEF Init, TypeOK
<1>2. OrderInv
  BY DEF Init, OrderInv
<1>3. LockInv
  BY DEF Init, LockInv
<1> QED BY <1>1, <1>2, <1>3 DEF IInv

LEMMA NextIInv == IInv /\ [Next]_vars => IInv'
<1> SUFFICES ASSUME IInv, [Next]_vars PROVE IInv'
  OBVIOUS
<1> USE HeartbeatAssumption
<1> USE DEF IInv, TypeOK, OrderInv, LockInv, connVars, checkVars, peerVars
<1>1. CASE StartChecker \/ updateActivity
  BY <1>1 DEF StartChecker, updateActivity
<1>2. CASE Cancel \/ ReadData \/ PeerSilent \/ PeerStalls
  <2>1. TypeOK'
    <3>1. ctx' \in {"live", "done"} /\ age' \in 0..HBMax
      BY <1>2 DEF Cancel, ReadData, PeerSilent, PeerStalls
    <3>2. silent' \in BOOLEAN /\ stalled' \in BOOLEAN
      BY <1>2, Zenon DEF Cancel, ReadData, PeerSilent, PeerStalls
    <3> QED BY <1>2, <3>1, <3>2 DEF Cancel, ReadData, PeerSilent, PeerStalls
  <2>2. OrderInv'
    BY <1>2 DEF Cancel, ReadData, PeerSilent, PeerStalls
  <2>3. LockInv'
    BY <1>2 DEF Cancel, ReadData, PeerSilent, PeerStalls
  <2> QED BY <2>1, <2>2, <2>3
<1>3. CASE Interval
  BY <1>3 DEF Interval
<1>4. CASE TcpFinalize \/ KcpFinalize \/ WsFinalize
  <2>1. TypeOK'
    BY <1>4 DEF TcpFinalize, KcpFinalize, WsFinalize
  <2>2. OrderInv'
    BY <1>4 DEF TcpFinalize, KcpFinalize, WsFinalize
  <2>3. LockInv'
    BY <1>4 DEF TcpFinalize, KcpFinalize, WsFinalize
  <2> QED BY <2>1, <2>2, <2>3
<1>5. CASE LockWait \/ LockHeld
  BY <1>5 DEF LockWait, LockHeld
<1>6. CASE StopChecker
  BY <1>6 DEF StopChecker
<1>7. CASE CloseConn
  BY <1>7 DEF CloseConn
<1>8. CASE TakeTick \/ PeerAlive
  <2>1. TypeOK'
    BY <1>8 DEF TakeTick, PeerAlive, CheckerAt
  <2>2. OrderInv'
    BY <1>8 DEF TakeTick, PeerAlive, CheckerAt
  <2>3. LockInv'
    BY <1>8 DEF TakeTick, PeerAlive, CheckerAt
  <2> QED BY <2>1, <2>2, <2>3
<1>9. CASE RemoteNotAlive \/ notAliveDefaultFunc
  BY <1>9 DEF RemoteNotAlive, notAliveDefaultFunc
<1>10. CASE TcpSendMsg \/ KcpSendMsg \/ WsSendMsg
  BY <1>10 DEF TcpSendMsg, KcpSendMsg, WsSendMsg, CheckerAt
<1>11. CASE RLock
  BY <1>11 DEF RLock, CheckerAt
<1>12. CASE WriteReturns
  BY <1>12 DEF WriteReturns, CheckerAt
<1>13. CASE UNCHANGED vars
  BY <1>13 DEF vars
<1> QED
  BY <1>1, <1>2, <1>3, <1>4, <1>5, <1>6, <1>7, <1>8, <1>9, <1>10, <1>11, <1>12,
     <1>13 DEF Next, Finalizer, Checker

\* Every reachable state satisfies the inductive invariant.
THEOREM Invariance == Spec => []IInv
  BY InitIInv, NextIInv, PTL DEF Spec

\* The state of the connection, the checker and the lock keeps its type.
THEOREM TypeCorrect == Spec => []TypeOK
<1>1. IInv => TypeOK
  BY DEF IInv
<1> QED BY Invariance, <1>1, PTL

\* No heartbeat is ever written to a closed socket, and the checker never
\* outlives its connection.
THEOREM CheckerOrder == Spec => []CheckerStopsFirst
<1>1. IInv => CheckerStopsFirst
  BY DEF IInv, OrderInv, CheckerStopsFirst
<1> QED BY Invariance, <1>1, PTL

\* No heartbeat is being written while the finalizer holds the lock.
THEOREM LockExclusion == Spec => []NoWriteUnderLock
<1>1. IInv => NoWriteUnderLock
  BY DEF IInv, LockInv, TypeOK, NoWriteUnderLock
<1> QED BY Invariance, <1>1, PTL

-----------------------------------------------------------------------------
(* Recursion on the natural numbers, for the walk along the list.          *)

\* A nonempty set of natural numbers has a least element.
LEMMA Least ==
    ASSUME NEW S, S \subseteq Nat, S # {}
    PROVE  \E m \in S : \A k \in S : m <= k
<1> DEFINE R == OpToRel(<, Nat)
<1>1. IsWellFoundedOn(R, Nat)
  BY NatLessThanWellFounded, Zenon
<1>2. \A x, y \in Nat : y < x => <<y, x>> \in R
  BY Zenon DEF OpToRel
<1> HIDE DEF R
<1>3. PICK m \in S : \A k \in S : ~(<<k, m>> \in R)
  BY <1>1, WFMin
<1>4. ASSUME NEW k \in S PROVE m <= k
  <2>1. m \in Nat /\ k \in Nat
    OBVIOUS
  <2>2. ~(k < m)
    BY <1>2, <1>3, <2>1
  <2> QED
    BY <2>1, <2>2
<1> QED
  BY <1>4

\* Induction, for a set of numbers.
LEMMA Induction ==
    ASSUME NEW S, 0 \in S, \A n \in Nat : n \in S => n + 1 \in S
    PROVE  Nat \subseteq S
<1> DEFINE T == Nat \ S
<1>1. SUFFICES ASSUME T # {} PROVE FALSE
  OBVIOUS
<1>2. PICK m \in T : \A k \in T : m <= k
  BY <1>1, Least
<1>3. m # 0 /\ m \in Nat
  BY <1>2
<1>4. m - 1 \in Nat /\ ~(m <= m - 1)
  BY <1>3
<1>5. m - 1 \in S
  BY <1>2, <1>4
<1> QED
  BY <1>3, <1>5

\* f takes the values a, g[a], g[g[a]], ... up to n.
Iterates(f, n, S, a, g) ==
    f \in [0..n -> S] /\ f[0] = a /\ \A k \in 1..n : f[k] = g[f[k - 1]]

\* A function is defined by its first value and by the step from each value to the next.
LEMMA Recursion ==
    ASSUME NEW S, NEW a \in S, NEW g \in [S -> S]
    PROVE  \A n \in Nat : \E f : Iterates(f, n, S, a, g)
<1> DEFINE F(n, f) == Iterates(f, n, S, a, g)
           T == {n \in Nat : \E f : F(n, f)}
<1>1. 0 \in T
  <2>1. F(0, [k \in 0..0 |-> a])
    BY DEF Iterates
  <2> QED
    BY <2>1
<1>2. ASSUME NEW n \in Nat, n \in T PROVE n + 1 \in T
  <2>1. PICK f : f \in [0..n -> S] /\ f[0] = a /\ \A k \in 1..n : f[k] = g[f[k - 1]]
    BY <1>2 DEF Iterates
  <2> DEFINE h == [k \in 0..(n + 1) |-> IF k <= n THEN f[k] ELSE g[f[n]]]
  <2>2. n \in 0..n /\ f[n] \in S /\ g[f[n]] \in S
    BY <2>1
  <2>3. h \in [0..(n + 1) -> S] /\ h[0] = a
    BY <2>1, <2>2
  <2>4. ASSUME NEW k \in 1..(n + 1) PROVE h[k] = g[h[k - 1]]
    <3>1. CASE k <= n
      <4>1. k \in 1..n /\ h[k] = f[k] /\ h[k - 1] = f[k - 1]
        BY <3>1
      <4> QED
        BY <2>1, <4>1
    <3>2. CASE k = n + 1
      <4>1. h[k] = g[f[n]] /\ h[k - 1] = f[n]
        BY <3>2
      <4> QED
        BY <4>1
    <3> QED
      BY <3>1, <3>2
  <2> HIDE DEF h
  <2>5. F(n + 1, h)
    BY <2>3, <2>4 DEF Iterates
  <2> QED
    BY <2>5
<1> HIDE DEF F
<1>3. Nat \subseteq T
  <2> HIDE DEF T
  <2> QED
    BY <1>1, <1>2, Induction
<1> QED
  BY <1>3 DEF F

\* The types of the list.
ListTypes ==
    /\ first \in Items \cup {nil} /\ last \in Items \cup {nil}
    /\ next \in [Items -> Items \cup {nil}]

\* Walk does walk: it starts with the first item and follows the links.
LEMMA WalkSteps ==
    ASSUME ListTypes
    PROVE  /\ Walk[0] = first
           /\ \A n \in 1..MaxCalls :
                 Walk[n] = IF Walk[n - 1] = nil THEN nil ELSE next[Walk[n - 1]]
<1> DEFINE S == Items \cup {nil}
           g == [x \in S |-> IF x = nil THEN nil ELSE next[x]]
           W(f) == f = [n \in 0..MaxCalls |->
                           IF n = 0 THEN first ELSE IF f[n - 1] = nil THEN nil ELSE next[f[n - 1]]]
<1>1. g \in [S -> S] /\ first \in S /\ MaxCalls \in Nat
  BY MaxCallsAssumption DEF ListTypes
<1>2. PICK f : Iterates(f, MaxCalls, S, first, g)
  <2> HIDE DEF g, S
  <2> QED
    BY <1>1, Recursion
<1>3. f \in [0..MaxCalls -> S] /\ f[0] = first /\ \A k \in 1..MaxCalls : f[k] = g[f[k - 1]]
  BY <1>2 DEF Iterates
<1>4. W(f)
  <2>1. ASSUME NEW n \in 0..MaxCalls
        PROVE  f[n] = IF n = 0 THEN first ELSE IF f[n - 1] = nil THEN nil ELSE next[f[n - 1]]
    <3>1. CASE n = 0
      BY <1>3, <3>1
    <3>2. CASE n # 0
      <4>1. n \in 1..MaxCalls /\ n - 1 \in 0..MaxCalls
        BY <1>1, <3>2
      <4>2. f[n] = g[f[n - 1]] /\ f[n - 1] \in S
        BY <1>3, <4>1
      <4> HIDE DEF S
      <4> QED
        BY <3>2, <4>2
    <3> QED
      BY <3>1, <3>2
  <2>2. f = [n \in 0..MaxCalls |-> f[n]]
    BY <1>3
  <2> QED
    BY <2>1, <2>2
<1>5. Walk = CHOOSE f_1 : W(f_1)
  BY Zenon DEF Walk
<1>6. W(Walk)
  <2> HIDE DEF W
  <2> QED
    BY <1>4, <1>5
<1>7. 0 \in 0..MaxCalls /\ \A n \in 1..MaxCalls : n \in 0..MaxCalls /\ n # 0
  BY <1>1
<1> QED
  BY <1>6, <1>7


-----------------------------------------------------------------------------
(* The list, its users and the invoker.                                    *)

Adding == {u \in Users : upc[u] = "add"}

\* There is an item for every call of AddCloseCallback under way.
SupplyInv ==
    /\ made \in Nat /\ used \in Nat /\ used <= MaxCalls
    /\ upc \in [Users -> {"idle", "add", "remove"}]
    /\ IsFiniteSet(Adding) /\ made + Cardinality(Adding) <= used

\* The list links the items added and not removed, in the order of their numbers.
ListInv ==
    /\ ListTypes
    /\ members \subseteq 1..made
    /\ \A i \in Items : i > made => next[i] = nil
    /\ first = nil <=> members = {}
    /\ last = nil <=> members = {}
    /\ members # {} => /\ first \in members /\ last \in members
                       /\ \A m \in members : first <= m /\ m <= last
    /\ \A i \in members :
          \/ next[i] = nil /\ i = last
          \/ /\ next[i] \in members /\ i < next[i]
             /\ \A m \in members : m <= i \/ next[i] <= m

\* What has been called of the list that is due: the items before the one the invoker
\* is at.
InvokeInv ==
    /\ called \in Seq(Items) /\ due \subseteq Items
    /\ \A i, j \in 1..Len(called) : i < j => called[i] < called[j]
    /\ Called \subseteq due
    /\ \A i \in Called, m \in due \ Called : i < m
    /\ ipc = "off" => called = <<>> /\ ~panicked
    /\ ipc = "run" => /\ due = members /\ ~panicked
                      /\ icur # nil => icur \in members /\ \A m \in members : m \in Called <=> m < icur
                      /\ icur = nil => Called = members
    /\ ipc = "done" /\ ~panicked => Called = due

CloseInv == SupplyInv /\ ListInv /\ InvokeInv

LEMMA CloseInitInv == CloseInit => CloseInv
<1> SUFFICES ASSUME CloseInit PROVE CloseInv
  OBVIOUS
<1>1. MaxCalls \in Nat
  BY MaxCallsAssumption
<1>2. SupplyInv
  <2>1. Adding = {}
    BY DEF CloseInit, Adding
  <2>2. IsFiniteSet(Adding) /\ Cardinality(Adding) = 0
    BY <2>1, FS_EmptySet
  <2> QED
    BY <1>1, <2>2 DEF CloseInit, SupplyInv
<1>3. ListInv
  BY <1>1 DEF CloseInit, ListInv, ListTypes, Items
<1>4. InvokeInv
  <2>1. called = <<>> /\ due = {} /\ ipc = "off" /\ Called = {} /\ ~panicked
    BY DEF CloseInit, Called
  <2> QED
    BY <2>1 DEF InvokeInv
<1> QED
  BY <1>2, <1>3, <1>4 DEF CloseInv

\* Every item the walk finds is a member, the first one or that behind the one before.
LEMMA WalkMembers ==
    ASSUME ListInv, NEW n \in 0..MaxCalls, Walk[n] # nil
    PROVE  /\ Walk[n] \in members
           /\ n = 0 => Walk[n] = first
           /\ n # 0 => Walk[n - 1] \in members /\ next[Walk[n - 1]] = Walk[n]
<1>1. MaxCalls \in Nat
  BY MaxCallsAssumption
<1>2. /\ Walk[0] = first
      /\ \A k \in 1..MaxCalls : Walk[k] = IF Walk[k - 1] = nil THEN nil ELSE next[Walk[k - 1]]
  BY WalkSteps DEF ListInv
<1> DEFINE T == {k \in Nat : k <= MaxCalls => Walk[k] \in members \cup {nil}}
<1>3. 0 \in T
  BY <1>2 DEF ListInv
<1>4. ASSUME NEW k \in Nat, k \in T PROVE k + 1 \in T
  <2> SUFFICES ASSUME k + 1 <= MaxCalls PROVE Walk[k + 1] \in members \cup {nil}
    OBVIOUS
  <2>1. k + 1 \in 1..MaxCalls /\ k + 1 - 1 = k
    BY <1>1
  <2>2. Walk[k + 1] = IF Walk[k] = nil THEN nil ELSE next[Walk[k]]
    BY <1>2, <2>1
  <2>3. Walk[k] \in members \cup {nil}
    BY <1>1, <1>4, <2>1
  <2> QED
    BY <2>2, <2>3 DEF ListInv
<1>5. Nat \subseteq T
  <2> HIDE DEF T
  <2> QED
    BY <1>3, <1>4, Induction
<1>6. Walk[n] \in members
  BY <1>1, <1>5
<1>7. CASE n = 0
  BY <1>2, <1>6, <1>7
<1>8. CASE n # 0
  <2>1. n \in 1..MaxCalls /\ n - 1 \in Nat /\ n - 1 <= MaxCalls
    BY <1>1, <1>8
  <2>2. Walk[n - 1] # nil /\ Walk[n] = next[Walk[n - 1]]
    BY <1>2, <2>1
  <2>3. Walk[n - 1] \in members
    BY <1>5, <2>1, <2>2
  <2> QED
    BY <1>6, <1>8, <2>2, <2>3
<1> QED
  BY <1>7, <1>8


\* AddCloseCallback and RemoveCloseCallback, up to the lock.
LEMMA CallInv ==
    ASSUME CloseInv, NEW u \in Users, NEW k \in Keys, AddCloseCallback(u, k) \/ RemoveCloseCallback(u, k)
    PROVE  CloseInv'
<1>1. /\ used < MaxCalls /\ used' = used + 1 /\ upc[u] = "idle"
      /\ UNCHANGED listVars /\ UNCHANGED invokeVars
      /\ \/ upc' = [upc EXCEPT ![u] = "add"]
         \/ upc' = [upc EXCEPT ![u] = "remove"]
  BY DEF AddCloseCallback, RemoveCloseCallback, Call
<1>2. upc \in [Users -> {"idle", "add", "remove"}] /\ IsFiniteSet(Adding)
  BY DEF CloseInv, SupplyInv
<1>3. Adding' = Adding \cup {u} \/ Adding' = Adding
  BY <1>1, <1>2 DEF Adding
<1>4. IsFiniteSet(Adding') /\ Cardinality(Adding') <= Cardinality(Adding) + 1 /\ Cardinality(Adding') \in Nat
      /\ Cardinality(Adding) \in Nat
  BY <1>2, <1>3, FS_AddElement, FS_CardinalityType
<1>5. upc' \in [Users -> {"idle", "add", "remove"}]
  BY <1>1, <1>2
<1>6. SupplyInv'
  BY <1>1, <1>4, <1>5, MaxCallsAssumption DEF CloseInv, SupplyInv, listVars
<1>7. ListInv'
  BY <1>1 DEF CloseInv, ListInv, ListTypes, listVars
<1>8. InvokeInv'
  BY <1>1 DEF CloseInv, InvokeInv, Called, listVars, invokeVars
<1> QED
  BY <1>6, <1>7, <1>8 DEF CloseInv

\* What Add and Remove leave alone while the invoker does not run.
LEMMA InvokeUnchanged ==
    ASSUME InvokeInv, Unlocked, UNCHANGED invokeVars
    PROVE  InvokeInv'
BY DEF InvokeInv, Unlocked, invokeVars, Called

\* callbacks.Add appends the new item.
LEMMA AddInv ==
    ASSUME CloseInv, NEW u \in Users, Add(u)
    PROVE  CloseInv'
<1>1. /\ upc[u] = "add" /\ Unlocked /\ UNCHANGED invokeVars /\ used' = used
      /\ made' = made + 1 /\ last' = made + 1 /\ members' = members \cup {made + 1}
      /\ upc' = [upc EXCEPT ![u] = "idle"]
  BY DEF Add, Leave
<1>2. /\ upc \in [Users -> {"idle", "add", "remove"}] /\ IsFiniteSet(Adding)
      /\ made \in Nat /\ used \in Nat /\ used <= MaxCalls /\ MaxCalls \in Nat
      /\ made + Cardinality(Adding) <= used
  BY MaxCallsAssumption DEF CloseInv, SupplyInv
<1>3. Adding' = Adding \ {u} /\ u \in Adding
  BY <1>1, <1>2 DEF Adding
<1>4. /\ IsFiniteSet(Adding') /\ Cardinality(Adding') = Cardinality(Adding) - 1
      /\ Cardinality(Adding) \in Nat /\ Cardinality(Adding') \in Nat
  BY <1>2, <1>3, FS_RemoveElement, FS_CardinalityType
<1>5. made + 1 <= MaxCalls /\ made + 1 \in Items /\ made + 1 # nil
  BY <1>2, <1>4 DEF Items, nil
<1>6. SupplyInv'
  <2>1. upc' \in [Users -> {"idle", "add", "remove"}]
    BY <1>1, <1>2
  <2> QED
    BY <1>1, <1>2, <1>4, <2>1 DEF SupplyInv
<1>7. ListInv'
  <2> USE DEF ListInv, ListTypes
  <2>0. ListInv /\ members \subseteq 1..made /\ \A m \in members : m \in Nat /\ m < made + 1 /\ m \in Items
    BY <1>2, <1>5 DEF CloseInv, Items
  <2>1. CASE first = nil
    <3>1. first' = made + 1 /\ next' = next /\ members' = {made + 1}
      BY <1>1, <2>0, <2>1 DEF Add
    <3>2. next[made + 1] = nil
      BY <1>2, <1>5, <2>0
    <3>3. ListTypes' /\ \A i \in Items : i > made' => next'[i] = nil
      <4>1. ListTypes'
        BY <1>1, <1>5, <2>0, <3>1
      <4>2. \A i \in Items : i \in Nat /\ (i > made + 1 => i > made)
        BY <1>2 DEF Items
      <4> QED
        BY <1>1, <2>0, <3>1, <4>1, <4>2
    <3>4. last' = made + 1 /\ made' = made + 1 /\ members' \subseteq 1..made'
      BY <1>1, <1>2, <3>1
    <3> QED
      BY <1>2, <1>5, <3>1, <3>2, <3>3, <3>4
  <2>2. CASE first # nil
    <3>1. first' = first /\ next' = [next EXCEPT ![last] = made + 1]
      BY <2>2 DEF Add
    <3>3. next \in [Items -> Items \cup {nil}] /\ last \in members /\ last \in Items /\ members # {}
      BY <2>0, <2>2
    <3>4. next'[last] = made + 1 /\ \A i \in Items : i # last => next'[i] = next[i]
      BY <3>1, <3>3
    <3>5. ListTypes' /\ members' \subseteq 1..made'
      BY <1>1, <1>2, <1>5, <2>0, <3>1, <3>3
    <3>6. (\A i \in Items : i > made => next[i] = nil)'
      <4>1. \A i \in Items : i > made + 1 => i > made /\ i # last
        BY <1>2, <2>0, <3>3 DEF Items
      <4> QED
        BY <1>1, <2>0, <3>4, <4>1
    <3>7. /\ first' # nil /\ members' # {} /\ last' # nil
          /\ first' \in members' /\ last' \in members'
          /\ \A m \in members' : first' <= m /\ m <= last'
      BY <1>1, <1>2, <1>5, <2>0, <2>2, <3>1, <3>3
    <3>8. ASSUME NEW i \in members'
          PROVE  \/ next'[i] = nil /\ i = last'
                 \/ /\ next'[i] \in members' /\ i < next'[i]
                    /\ \A m \in members' : m <= i \/ next'[i] <= m
      <4>1. CASE i = made + 1
        <5>1. next'[i] = nil
          BY <1>2, <1>5, <2>0, <3>3, <3>4, <4>1
        <5> QED
          BY <1>1, <4>1, <5>1
      <4>2. CASE i = last
        <5>1. next'[i] = made + 1 /\ i < made + 1 /\ \A m \in members : m <= i
          BY <2>0, <3>3, <3>4, <4>2
        <5> QED
          BY <1>1, <1>2, <5>1
      <4>3. CASE i \in members /\ i # last
        <5>1. next'[i] = next[i] /\ i \in Nat
          BY <2>0, <3>4, <4>3
        <5>2. next[i] \in members /\ i < next[i] /\ \A m \in members : m <= i \/ next[i] <= m
          BY <2>0, <4>3
        <5>3. i <= made + 1 /\ next[i] <= made + 1
          <6>1. \A m \in members : m \in Nat /\ m < made + 1
            BY <2>0
          <6> QED
            BY <1>2, <4>3, <5>2, <6>1
        <5> QED
          BY <1>1, <5>1, <5>2, <5>3
      <4> QED
        BY <1>1, <4>1, <4>2, <4>3
    <3> QED
      BY <3>5, <3>6, <3>7, <3>8
  <2> QED
    BY <2>1, <2>2
<1>8. InvokeInv'
  BY <1>1, InvokeUnchanged DEF CloseInv
<1> QED
  BY <1>6, <1>7, <1>8 DEF CloseInv

\* callbacks.Remove unlinks one item.
LEMMA UnlinkInv ==
    ASSUME ListInv, made \in Nat, made <= MaxCalls, NEW i \in members, NEW prev,
           \/ prev = nil /\ i = first
           \/ prev \in members /\ next[prev] = i,
           Unlink(i, prev), members' = members \ {i}, made' = made
    PROVE  ListInv'
<1>1. /\ \A m \in members : m \in Nat /\ m # nil /\ m \in Items /\ m <= made
      /\ members \subseteq 1..made /\ next \in [Items -> Items \cup {nil}]
      /\ first \in members /\ last \in members /\ \A m \in members : first <= m /\ m <= last
      /\ \A j \in Items : j > made => next[j] = nil
  BY MaxCallsAssumption DEF Items, nil, ListInv, ListTypes
<1>2. \A j \in members :
         \/ next[j] = nil /\ j = last
         \/ next[j] # nil /\ next[j] \in members /\ j < next[j] /\ \A m \in members : m <= j \/ next[j] <= m
  BY <1>1 DEF ListInv
<1>3. CASE first = i
  <2>1. prev = nil
    <3>1. SUFFICES ASSUME prev \in members, next[prev] = i PROVE FALSE
      OBVIOUS
    <3>2. prev < i
      BY <1>1, <1>2, <3>1
    <3> QED
      BY <1>1, <1>3, <3>1, <3>2
  <2>2. first' = next[i] /\ next' = next /\ last' = IF last = i THEN nil ELSE last
    BY <1>3, <2>1 DEF Unlink
  <2>3. CASE next[i] = nil
    <3>1. i = last
      BY <1>2, <2>3
    <3>2. members = {i}
      <4>1. \A m \in members : m <= i /\ i <= m
        BY <1>1, <1>3, <3>1
      <4>2. \A m \in members : m = i
        BY <1>1, <4>1
      <4> QED
        BY <4>2
    <3> QED
      BY <1>1, <2>2, <2>3, <3>1, <3>2 DEF ListInv, ListTypes
  <2>4. CASE next[i] # nil
    <3>1. next[i] \in members /\ i < next[i] /\ \A m \in members : m <= i \/ next[i] <= m
      BY <1>2, <2>4
    <3>2. last # i
      <4>1. next[i] <= last /\ next[i] \in Nat /\ i \in Nat
        BY <1>1, <3>1
      <4> QED
        BY <3>1, <4>1
    <3>3. ASSUME NEW m \in members' PROVE first' <= m /\ m <= last'
      <4>1. m \in members /\ m # i /\ i <= m
        BY <1>1, <1>3
      <4>2. ~(m <= i)
        BY <1>1, <4>1
      <4> QED
        BY <1>1, <2>2, <3>1, <3>2, <4>1, <4>2
    <3>4. first' \in members' /\ last' \in members' /\ first' # nil /\ last' # nil
      BY <1>1, <2>2, <2>4, <3>1, <3>2
    <3>5. ASSUME NEW j \in members' PROVE next[j] # i
      <4>1. j \in members /\ i <= j
        BY <1>1, <1>3
      <4> QED
        BY <1>1, <1>2, <4>1
    <3>6. ListTypes' /\ members' \subseteq 1..made' /\ \A j \in Items : j > made' => next'[j] = nil
      BY <1>1, <2>2, <3>1, <3>2 DEF ListInv, ListTypes
    <3>7. ASSUME NEW j \in members'
          PROVE  \/ next'[j] = nil /\ j = last'
                 \/ /\ next'[j] \in members' /\ j < next'[j]
                    /\ \A m \in members' : m <= j \/ next'[j] <= m
      <4>1. j \in members /\ next'[j] = next[j] /\ next[j] # i /\ last' = last
        BY <2>2, <3>2, <3>5
      <4> QED
        BY <1>2, <4>1
    <3> QED
      BY <3>3, <3>4, <3>6, <3>7 DEF ListInv
  <2> QED
    BY <2>3, <2>4
<1>4. CASE first # i
  <2>1. /\ prev \in members /\ next[prev] = i /\ prev # nil /\ prev < i
        /\ \A m \in members : m <= prev \/ i <= m
    BY <1>1, <1>2, <1>4
  <2>2. /\ first' = first /\ next' = [next EXCEPT ![prev] = next[i]]
        /\ last' = IF last = i THEN prev ELSE last
    BY <1>4, <2>1 DEF Unlink
  <2>3. prev \in Items /\ prev # i /\ next'[prev] = next[i] /\ \A j \in Items : j # prev => next'[j] = next[j]
    BY <1>1, <2>1, <2>2
  <2>4. next[i] = nil <=> last = i
    <3>1. next[i] # nil => next[i] \in members /\ i < next[i] /\ next[i] <= last
      BY <1>1, <1>2
    <3>2. i \in Nat /\ (next[i] \in members => next[i] \in Nat) /\ (next[i] = nil => i = last)
      BY <1>1, <1>2
    <3> QED
      BY <3>1, <3>2
  <2>5. ListTypes' /\ members' \subseteq 1..made'
    <3>1. next[i] \in Items \cup {nil} /\ last' \in Items \cup {nil} /\ first' \in Items \cup {nil}
      BY <1>1, <2>1, <2>2
    <3>2. next' \in [Items -> Items \cup {nil}]
      BY <1>1, <2>2, <2>3, <3>1
    <3> QED
      BY <1>1, <3>1, <3>2 DEF ListTypes
  <2>6. \A j \in Items : j > made' => next'[j] = nil
    BY <1>1, <2>1, <2>3
  <2>7. prev \in members' /\ first' \in members' /\ last' \in members' /\ last' # nil /\ first' # nil
    BY <1>1, <1>4, <2>1, <2>2
  <2>8. ASSUME NEW m \in members' PROVE first' <= m /\ m <= last'
    <3>1. CASE last = i
      <4>1. m \in members /\ m # i /\ m <= i
        BY <1>1, <3>1
      <4>2. m <= prev
        BY <1>1, <2>1, <4>1
      <4> QED
        BY <1>1, <2>2, <3>1, <4>1, <4>2
    <3>2. CASE last # i
      BY <1>1, <2>2, <3>2
    <3> QED
      BY <3>1, <3>2
  <2>9. ASSUME NEW j \in members'
        PROVE  \/ next'[j] = nil /\ j = last'
               \/ /\ next'[j] \in members' /\ j < next'[j]
                  /\ \A m \in members' : m <= j \/ next'[j] <= m
    <3>1. CASE j = prev /\ next[i] = nil
      BY <2>2, <2>3, <2>4, <3>1
    <3>2. CASE j = prev /\ next[i] # nil
      <4>1. next[i] \in members /\ i < next[i] /\ \A m \in members : m <= i \/ next[i] <= m
        BY <1>2, <3>2
      <4>2. next'[j] = next[i] /\ next[i] # i /\ j < next[i]
        <5>1. next[i] \in Nat /\ i \in Nat /\ j \in Nat /\ j < i
          BY <1>1, <2>1, <3>2, <4>1
        <5> QED
          BY <2>3, <3>2, <4>1, <5>1
      <4>3. ASSUME NEW m \in members' PROVE m <= j \/ next[i] <= m
        <5>1. m \in members /\ m # i
          OBVIOUS
        <5>2. m <= prev \/ ~(m <= i)
          BY <1>1, <2>1, <5>1
        <5> QED
          BY <3>2, <4>1, <5>1, <5>2
      <4> QED
        BY <4>1, <4>2, <4>3
    <3>3. CASE j # prev
      <4>1. next'[j] = next[j] /\ j \in members /\ j # i
        BY <1>1, <2>3, <3>3
      <4>2. next[j] # i
        <5>1. SUFFICES ASSUME next[j] = i PROVE FALSE
          OBVIOUS
        <5>2. j < i /\ \A m \in members : m <= j \/ i <= m
          BY <1>1, <1>2, <4>1, <5>1
        <5>3. j <= prev /\ prev <= j
          BY <1>1, <2>1, <4>1, <5>2
        <5> QED
          BY <1>1, <2>1, <3>3, <4>1, <5>3
      <4>3. CASE next[j] = nil
        <5>1. j = last /\ last # i
          BY <1>2, <4>1, <4>3
        <5> QED
          BY <2>2, <4>1, <4>3, <5>1
      <4>4. CASE next[j] # nil
        <5>1. next[j] \in members /\ j < next[j] /\ \A m \in members : m <= j \/ next[j] <= m
          BY <1>2, <4>1, <4>4
        <5> QED
          BY <4>1, <4>2, <5>1
      <4> QED
        BY <4>3, <4>4
    <3> QED
      BY <3>1, <3>2, <3>3
  <2> QED
    BY <2>5, <2>6, <2>7, <2>8, <2>9 DEF ListInv
<1> QED
  BY <1>3, <1>4


LEMMA RemoveInv ==
    ASSUME CloseInv, NEW u \in Users, Remove(u)
    PROVE  CloseInv'
<1>1. /\ upc[u] = "remove" /\ Unlocked /\ UNCHANGED <<key, made, used, invokeVars>>
      /\ upc' = [upc EXCEPT ![u] = "idle"]
      /\ \/ UNCHANGED <<first, last, next, members>>
         \/ \E n \in 0..MaxCalls :
               /\ Walk[n] # nil
               /\ Unlink(Walk[n], IF n = 0 THEN nil ELSE Walk[n - 1])
               /\ members' = members \ {Walk[n]}
  BY Zenon DEF Remove, Leave
<1>2. /\ upc \in [Users -> {"idle", "add", "remove"}] /\ made \in Nat /\ ListInv
  BY DEF CloseInv, SupplyInv
<1>3. made <= MaxCalls
  <2>1. Cardinality(Adding) \in Nat /\ MaxCalls \in Nat
    BY FS_CardinalityType, MaxCallsAssumption DEF CloseInv, SupplyInv
  <2> QED
    BY <2>1 DEF CloseInv, SupplyInv
<1>4. SupplyInv'
  <2>1. Adding' = Adding
    BY <1>1, <1>2 DEF Adding
  <2>2. upc' \in [Users -> {"idle", "add", "remove"}]
    BY <1>1, <1>2
  <2> QED
    BY <1>1, <2>1, <2>2 DEF CloseInv, SupplyInv
<1>5. ListInv'
  <2>1. CASE UNCHANGED <<first, last, next, members>>
    BY <1>1, <1>2, <2>1 DEF ListInv, ListTypes
  <2>2. ASSUME NEW n \in 0..MaxCalls, Walk[n] # nil,
               Unlink(Walk[n], IF n = 0 THEN nil ELSE Walk[n - 1]),
               members' = members \ {Walk[n]}
        PROVE  ListInv'
    <3> DEFINE prev == IF n = 0 THEN nil ELSE Walk[n - 1]
    <3>1. Walk[n] \in members
      BY <1>2, <2>2, WalkMembers
    <3>2. (prev = nil /\ Walk[n] = first) \/ (prev \in members /\ next[prev] = Walk[n])
      BY <1>2, <2>2, WalkMembers
    <3> HIDE DEF prev
    <3>3. Unlink(Walk[n], prev)
      BY <2>2 DEF prev
    <3> QED
      BY <1>1, <1>2, <1>3, <2>2, <3>1, <3>2, <3>3, UnlinkInv
  <2> QED
    BY <1>1, <2>1, <2>2
<1>6. InvokeInv'
  BY <1>1, InvokeUnchanged DEF CloseInv
<1> QED
  BY <1>4, <1>5, <1>6 DEF CloseInv

\* The invoker calls the item it is at, and goes on to the next.
LEMMA CallNextInv ==
    ASSUME ListInv, InvokeInv, CallNext
    PROVE  InvokeInv'
<1>1. /\ ipc = "run" /\ icur # nil /\ called' = Append(called, icur)
      /\ due' = due /\ members' = members /\ next' = next
      /\ ipc' # "off" /\ (ipc' = "done" => panicked')
      /\ ipc' = "run" => icur' = next[icur] /\ ~panicked'
  BY DEF CallNext, listVars
<1>2. /\ due = members /\ icur \in members /\ (\A m \in members : m \in Called <=> m < icur)
      /\ called \in Seq(Items) /\ due \subseteq Items /\ \A m \in members : m \in Nat /\ m # nil
  <2>1. /\ due = members /\ icur \in members /\ (\A m \in members : m \in Called <=> m < icur)
        /\ called \in Seq(Items) /\ due \subseteq Items
    BY <1>1, Zenon DEF InvokeInv
  <2>2. \A m \in Items : m \in Nat /\ m # nil
    BY MaxCallsAssumption DEF Items, nil
  <2> QED
    BY <2>1, <2>2
<1>3. /\ Called \subseteq due /\ \A i \in Called, m \in due \ Called : i < m
      /\ \A i, j \in 1..Len(called) : i < j => called[i] < called[j]
  BY DEF InvokeInv
<1>4. Len(called') = Len(called) + 1 /\ called' \in Seq(Items) /\ called'[Len(called) + 1] = icur
      /\ \A i \in 1..Len(called) : called'[i] = called[i]
  BY <1>1, <1>2
<1>5. Called' = Called \cup {icur}
  <2>1. \A i \in 1..Len(called') : i \in 1..Len(called) \/ i = Len(called) + 1
    BY <1>2, <1>4
  <2>2. \A i \in 1..Len(called) : i \in 1..Len(called')
    BY <1>2, <1>4
  <2>3. Len(called) + 1 \in 1..Len(called')
    BY <1>2, <1>4
  <2>4. \A x : x \in Called' <=> x \in Called \cup {icur}
    BY <1>4, <2>1, <2>2, <2>3 DEF Called
  <2> QED
    BY <2>4
<1>6. ASSUME NEW i \in 1..Len(called'), NEW j \in 1..Len(called'), i < j
      PROVE  called'[i] < called'[j]
  <2>1. i \in 1..Len(called) /\ called'[i] = called[i]
    BY <1>2, <1>4, <1>6
  <2>2. CASE j = Len(called) + 1
    <3>1. called[i] \in Called
      BY <2>1 DEF Called
    <3> QED
      BY <1>2, <1>3, <1>4, <2>1, <2>2, <3>1
  <2>3. CASE j # Len(called) + 1
    <3>1. j \in 1..Len(called)
      BY <1>2, <1>4, <2>3
    <3> QED
      BY <1>3, <1>4, <1>6, <2>1, <3>1
  <2> QED
    BY <2>2, <2>3
<1>7. ASSUME NEW i \in Called', NEW m \in due' \ Called' PROVE i < m
  <2>1. m \in members /\ m \notin Called /\ m # icur /\ ~(m < icur)
    BY <1>1, <1>2, <1>5
  <2>2. i \in members /\ (i = icur \/ i < icur)
    BY <1>2, <1>3, <1>5
  <2> QED
    BY <1>2, <2>1, <2>2
<1>8. CASE ipc' = "run"
  <2>1. CASE next[icur] = nil
    <3>1. icur = last /\ \A m \in members : m <= last
      BY <1>2, <2>1 DEF ListInv
    <3>2. \A m \in members : m \in Called'
      BY <1>2, <1>5, <3>1
    <3>3. Called' = members
      BY <1>2, <1>3, <1>5, <3>2
    <3> QED
      BY <1>1, <1>2, <1>3, <1>4, <1>5, <1>6, <1>7, <1>8, <2>1, <3>3 DEF InvokeInv
  <2>2. CASE next[icur] # nil
    <3>1. next[icur] \in members /\ icur < next[icur] /\ \A m \in members : m <= icur \/ next[icur] <= m
      BY <1>2, <2>2 DEF ListInv
    <3>2. ASSUME NEW m \in members PROVE m \in Called' <=> m < next[icur]
      <4>1. m \in Called' <=> m = icur \/ m < icur
        BY <1>2, <1>5
      <4>2. m \in Nat /\ icur \in Nat /\ next[icur] \in Nat
        BY <1>2, <3>1
      <4> QED
        BY <3>1, <4>1, <4>2
    <3> QED
      BY <1>1, <1>2, <1>3, <1>4, <1>5, <1>6, <1>7, <1>8, <3>1, <3>2 DEF InvokeInv
  <2> QED
    BY <2>1, <2>2
<1>9. CASE ipc' # "run"
  BY <1>1, <1>2, <1>3, <1>4, <1>5, <1>6, <1>7, <1>9 DEF InvokeInv
<1> QED
  BY <1>8, <1>9

LEMMA InvokerInv == ASSUME CloseInv, Invoker PROVE CloseInv'
<1>1. UNCHANGED <<listVars, userVars>>
  BY DEF Invoker, Invoke, CallNext, InvokeReturns
<1>2. SupplyInv' /\ ListInv'
  BY <1>1 DEF CloseInv, SupplyInv, ListInv, ListTypes, Adding, listVars, userVars
<1>3. InvokeInv'
  <2>1. CASE Invoke
    <3>1. /\ ipc = "off" /\ ipc' = "run" /\ icur' = first /\ due' = members /\ members' = members
          /\ called' = called /\ panicked' = panicked
      BY <1>1, <2>1 DEF Invoke, listVars
    <3>2. InvokeInv /\ called = <<>> /\ ~panicked /\ Called = {} /\ members \subseteq Items
      <4>1. InvokeInv /\ called = <<>> /\ ~panicked
        BY <3>1 DEF CloseInv, InvokeInv
      <4>2. Called = {}
        BY <4>1 DEF Called
      <4>3. made \in Nat /\ used \in Nat /\ made <= used /\ used <= MaxCalls
        BY FS_CardinalityType DEF CloseInv, SupplyInv
      <4>4. 1..made \subseteq Items
        BY <4>3, MaxCallsAssumption DEF Items
      <4> QED
        BY <4>1, <4>2, <4>4 DEF CloseInv, ListInv
    <3>3. Called' = {} /\ Len(called') = 0
      BY <3>1, <3>2 DEF Called
    <3>4. /\ icur' # nil => icur' \in members /\ \A m \in members : ~(m < icur')
          /\ icur' = nil => members = {}
      <4>1. ListInv /\ \A m \in members : m \in Nat
        BY <3>2, MaxCallsAssumption DEF CloseInv, Items
      <4> QED
        <5>1. first = nil <=> members = {}
          BY <4>1 DEF ListInv
        <5>2. ASSUME NEW m \in members PROVE first \in members /\ ~(m < first)
          <6>1. first \in members /\ first <= m
            BY <4>1 DEF ListInv
          <6> QED
            BY <4>1, <6>1
        <5> QED
          BY <3>1, <5>1, <5>2
    <3> QED
      BY <3>1, <3>2, <3>3, <3>4 DEF InvokeInv
  <2>2. CASE CallNext
    BY <2>2, CallNextInv DEF CloseInv
  <2>3. CASE InvokeReturns
    <3>1. /\ ipc = "run" /\ ipc' = "done" /\ icur = nil /\ UNCHANGED <<called, panicked, due, members>>
      BY <2>3 DEF InvokeReturns, listVars
    <3> QED
      BY <3>1 DEF CloseInv, InvokeInv, Called
  <2> QED
    BY <2>1, <2>2, <2>3 DEF Invoker
<1> QED
  BY <1>2, <1>3 DEF CloseInv

LEMMA CloseStep == CloseInv /\ [CloseNext]_closeVars => CloseInv'
<1> SUFFICES ASSUME CloseInv, [CloseNext]_closeVars PROVE CloseInv'
  OBVIOUS
<1>1. CASE UNCHANGED <<listVars, userVars, invokeVars>>
  BY <1>1 DEF CloseInv, SupplyInv, ListInv, ListTypes, InvokeInv, Adding, Called, listVars,
              userVars, invokeVars
<1>2. ASSUME NEW u \in Users, NEW k \in Keys, AddCloseCallback(u, k) \/ RemoveCloseCallback(u, k)
      PROVE  CloseInv'
  BY <1>2, CallInv
<1>3. ASSUME NEW u \in Users, Add(u) \/ Remove(u) PROVE CloseInv'
  BY <1>3, AddInv, RemoveInv
<1>4. CASE Invoker
  BY <1>4, InvokerInv
<1> QED
  BY <1>1, <1>2, <1>3, <1>4 DEF CloseNext, closeVars

LEMMA CloseInvariance == CloseSpec => []CloseInv
BY CloseInitInv, CloseStep, PTL DEF CloseSpec

\* Whatever goroutines add and remove close callbacks, and however their calls overlap
\* with the closing of the connection, the callbacks of the list are called in the order
\* of their additions, each once and none skipped.
THEOREM CallbacksInOrder == CloseSpec => []CallbackOrder
<1>1. CloseInv => CallbackOrder
  BY DEF CloseInv, InvokeInv, CallbackOrder
<1> QED
  BY CloseInvariance, <1>1, PTL

-----------------------------------------------------------------------------
(* The list beside the connection.                                         *)

\* Users of the list and the invoker do nothing to the connection that Heartbeat does
\* not allow, so what holds of it there holds here.
THEOREM CloseImplementsHeartbeat == CloseSpec => Spec
<1>1. CloseInit => Init
  BY DEF CloseInit
<1>2. [CloseNext]_closeVars => [Next]_vars
  BY DEF CloseNext, closeVars, AddCloseCallback, RemoveCloseCallback, Call, Add, Remove,
         Invoker, Invoke, CallNext, InvokeReturns
<1> QED
  BY <1>1, <1>2, PTL DEF CloseSpec, Spec

\* The checker returns before the socket is closed, also while callbacks are added,
\* removed and invoked.
THEOREM CloseCheckerOrder == CloseSpec => []CheckerStopsFirst
BY CloseImplementsHeartbeat, CheckerOrder, PTL
=============================================================================
