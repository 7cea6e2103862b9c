---------------------------- MODULE RouterProofs -----------------------------
(***************************************************************************)
(* Proofs about Router, for every width of the index, every length of the  *)
(* chains and every bound: no handler of a chain runs twice or out of      *)
(* order, an undisturbed request runs all of them, the index of a short    *)
(* chain does not wrap, Abort stops, and Goto decides the step after it.   *)
(***************************************************************************)
EXTENDS Router, SequenceTheorems, TLAPS

\* The int8 conversion stays within an int8, and never makes a length greater.
LEMMA Int8Range ==
    ASSUME NEW k \in Nat
    PROVE  Int8(k) \in (-MaxInt8 - 1)..MaxInt8 /\ Int8(k) <= k
<1> DEFINE w == 2 * (MaxInt8 + 1)
<1>1. w \in Nat /\ w > 0 /\ MaxInt8 \in Nat /\ MaxInt8 > 0
  BY RouterAssumption
<1>2. (k + MaxInt8 + 1) % w \in 0..(w - 1)
  <2> DEFINE x == k + MaxInt8 + 1
  <2>1. x \in Int
    BY <1>1
  <2> HIDE DEF x, w
  <2>2. x % w \in 0..(w - 1)
    BY <1>1, <2>1
  <2>3. QED
    BY <2>2 DEF x
<1>3. (k + MaxInt8 + 1) % w <= k + MaxInt8 + 1
  <2> DEFINE y == k + MaxInt8 + 1
  <2>1. y \in Nat
    BY <1>1
  <2> HIDE DEF y, w
  <2>2. y % w <= y
    BY <1>1, <2>1
  <2>3. QED
    BY <2>2 DEF y
<1>4. QED
  BY <1>1, <1>2, <1>3 DEF Int8

\* The successor of an int8 is an int8.
LEMMA IncRange ==
    ASSUME NEW i \in (-MaxInt8 - 1)..MaxInt8
    PROVE  Inc(i) \in (-MaxInt8 - 1)..MaxInt8
BY RouterAssumption DEF Inc

\* The parts of TypeOK that the steps below need, without the histories.
Types ==
    /\ mode \in {"slices", "steps"}
    /\ handlers \in ChainLengths \cup {0}
    /\ recovery \in BOOLEAN
    /\ index \in (-MaxInt8 - 1)..MaxInt8
    /\ steps \in Nat
    /\ stack \in Seq(Nat) /\ ran \in Seq(Nat)

LEMMA HandlersNat == ASSUME Types PROVE handlers \in Nat
BY RouterAssumption DEF Types

\* What a turn of the loop leaves of the types.
LEMMA TurnTypes ==
    ASSUME Types, NEW callers \in Seq(Nat), Turn(callers)
    PROVE  /\ index' \in (-MaxInt8 - 1)..MaxInt8
           /\ stack' \in Seq(Nat) /\ ran' \in Seq(Nat)
           /\ pc' \in {"returned", "panic", "handler"}
<1>1. Inc(index) \in (-MaxInt8 - 1)..MaxInt8
  BY IncRange DEF Types
<1>2. index' \in (-MaxInt8 - 1)..MaxInt8
  BY <1>1 DEF Turn
<1>3. stack' \in Seq(Nat) /\ ran' \in Seq(Nat)
  BY <1>1, HandlersNat DEF Turn, Types
<1>4. pc' \in {"returned", "panic", "handler"}
  BY DEF Turn
<1>5. QED
  BY <1>2, <1>3, <1>4

-----------------------------------------------------------------------------
(* Type correctness.                                                       *)

LEMMA TypeInit == Init => TypeOK
<1> SUFFICES ASSUME Init PROVE TypeOK
  OBVIOUS
<1>1. index \in (-MaxInt8 - 1)..MaxInt8
  BY RouterAssumption DEF Init
<1>2. gotos \in 0..MaxGoto
  BY RouterAssumption DEF Init
<1>3. steps \in Nat /\ served \in Nat /\ target \in Steps \cup {HANDLE_OVER, -1}
  BY DEF Init, PRE_HANDLE
<1>4. handlers \in ChainLengths \cup {0} /\ recovery \in BOOLEAN /\ needNext \in BOOLEAN
  BY DEF Init
<1>5. /\ mode \in {"slices", "steps"} /\ pc \in {"next", "loop"}
      /\ aborted \in BOOLEAN /\ panicked \in BOOLEAN /\ raced \in BOOLEAN
      /\ helper = "none"
  BY DEF Init
<1>6. stack \in Seq(Nat) /\ ran \in Seq(Nat)
  BY DEF Init
<1>7. QED
  BY <1>1, <1>2, <1>3, <1>4, <1>5, <1>6 DEF TypeOK

LEMMA TypeStep == TypeOK /\ [Next]_vars => TypeOK'
<1> SUFFICES ASSUME TypeOK, [Next]_vars PROVE TypeOK'
  OBVIOUS
<1>0. Types
  BY DEF TypeOK, Types
<1> USE DEF TypeOK, conf, field
<1>1. CASE FirstNext
  <2>1. Turn(<<>>) /\ <<>> \in Seq(Nat)
    BY <1>1 DEF FirstNext
  <2>2. QED
    BY <1>0, <1>1, <2>1, TurnTypes DEF FirstNext
<1>2. CASE RouterSlicesNext
  BY <1>0, <1>2, TurnTypes DEF RouterSlicesNext
<1>3. CASE HandlerReturns
  <2>1. Below \in Seq(Nat)
    BY DEF Below
  <2>2. QED
    BY <1>0, <1>3, <2>1, TurnTypes DEF HandlerReturns
<1>4. CASE Unwind
  <2>1. CASE recovery /\ stack # <<>> /\ stack[1] = 0
    <3>1. Turn(<<>>) /\ <<>> \in Seq(Nat)
      BY <1>4, <2>1 DEF Unwind
    <3>2. QED
      BY <1>0, <1>4, <3>1, TurnTypes DEF Unwind
  <2>2. CASE ~(recovery /\ stack # <<>> /\ stack[1] = 0)
    <3>1. pc' = "died" /\ stack' = <<>> /\ index' = index /\ ran' = ran
      BY <1>4, <2>2 DEF Unwind
    <3>2. stack' \in Seq(Nat)
      BY <3>1
    <3>3. UNCHANGED <<conf, steps, needNext, helper, served, gotos, target, aborted,
                      panicked, raced>>
      BY <1>4 DEF Unwind
    <3>4. QED
      BY <3>1, <3>2, <3>3
  <2>3. QED
    BY <2>1, <2>2
<1>5. CASE Loop
  BY <1>5 DEF Loop, history, PRE_HANDLE
<1>6. CASE Switch
  <2>1. CASE steps \in Steps
    <3>1. stack' = <<steps>> /\ ran' = Append(ran, steps) /\ target' = -1 /\ pc' = "handler"
      BY <1>6, <2>1 DEF Switch
    <3>2. stack' \in Seq(Nat) /\ ran' \in Seq(Nat)
      BY <3>1
    <3>3. UNCHANGED <<conf, field, helper, served, gotos, aborted, panicked, raced>>
      BY <1>6 DEF Switch
    <3>4. QED
      BY <3>1, <3>2, <3>3
  <2>2. CASE steps \notin Steps
    BY <1>6, <2>2 DEF Switch
  <2>3. QED
    BY <2>1, <2>2
<1>7. CASE StepReturns
  BY <1>7 DEF StepReturns, history
<1>8. CASE TestNeedNext
  BY <1>8 DEF TestNeedNext, history
<1>9. CASE next
  BY <1>9 DEF next, history
<1>10. ASSUME NEW step \in Steps \cup {HANDLE_OVER}, HandlerGoto(step) \/ HelperGoto(step)
       PROVE  TypeOK'
  <2>1. Goto(step)
    BY <1>10 DEF HandlerGoto, HelperGoto
  <2>2. step \in Nat /\ gotos' \in 0..MaxGoto
    BY <2>1, RouterAssumption DEF Goto, Steps, PRE_HANDLE, HANDLE, POST_HANDLE, HANDLE_OVER
  <2>3. helper' \in {"none", "runs", "over"} /\ raced' \in BOOLEAN
    BY <1>10 DEF HandlerGoto, HelperGoto
  <2>4. QED
    BY <2>1, <2>2, <2>3 DEF Goto
<1>11. CASE HandlerAbort \/ HelperAbort
  <2>1. Abort
    BY <1>11 DEF HandlerAbort, HelperAbort
  <2>2. helper' \in {"none", "runs", "over"} /\ raced' \in BOOLEAN
    BY <1>11 DEF HandlerAbort, HelperAbort
  <2>3. index' \in (-MaxInt8 - 1)..MaxInt8 /\ steps' \in Nat
    BY <1>0, <2>1, HandlersNat, Int8Range, SMTT(60) DEF Abort, HANDLE_OVER
  <2>4. QED
    BY <2>1, <2>2, <2>3 DEF Abort
<1>12. CASE StartHelper
  BY <1>12 DEF StartHelper, history
<1>13. CASE HandlerPanic
  BY <1>13 DEF HandlerPanic
<1>14. CASE Recycle
  <2>1. -1 \in (-MaxInt8 - 1)..MaxInt8 /\ 0 \in 0..MaxGoto
    BY RouterAssumption
  <2>2. /\ index' = -1 /\ steps' \in Nat /\ needNext' = TRUE /\ gotos' = 0
        /\ served' \in Nat /\ ran' = <<>> /\ stack' = stack /\ mode' = mode
    BY <1>14 DEF Recycle, Reset, PRE_HANDLE
  <2>3. /\ target' = -1 /\ aborted' = FALSE /\ panicked' = FALSE /\ raced' = FALSE
        /\ helper' = "none" /\ pc' \in {"next", "loop"}
    BY <1>14 DEF Recycle
  <2>4. handlers' \in ChainLengths \cup {0} /\ recovery' \in BOOLEAN
    BY <1>14 DEF Recycle
  <2>5. ran' \in Seq(Nat)
    BY <2>2
  <2>6. QED
    BY <2>1, <2>2, <2>3, <2>4, <2>5
<1>15. CASE UNCHANGED vars
  BY <1>15 DEF vars, history
<1>16. QED
  BY <1>1, <1>2, <1>3, <1>4, <1>5, <1>6, <1>7, <1>8, <1>9, <1>10, <1>11, <1>12, <1>13,
     <1>14, <1>15 DEF Next

\* The request keeps its type, and its index stays an int8, for every constant.
THEOREM TypeCorrect == Spec => []TypeOK
<1>1. QED
  BY TypeInit, TypeStep, PTL DEF Spec
-----------------------------------------------------------------------------
(* The chain.                                                              *)

\* The position agrees with the handlers begun: the next handler to begin, if any,
\* is the one after the last, and after Abort there is none.
InStep ==
    /\ index >= 0 /\ Int8(handlers) > 0
    /\ index + 1 < Int8(handlers) => Len(ran) = index + 1 /\ ~aborted

\* The index has wrapped: Go panics, and at most RouterRecovery goes on.
Wrapped == index = -MaxInt8 - 1 \/ (index = -MaxInt8 /\ stack = <<>>)

\* Where a request is in each mode, and what the position is there.
ChainInv ==
    mode = "slices" =>
        /\ pc \in {"next", "handler", "panic", "returned", "died"}
        /\ pc = "next" => index = -1 /\ ran = <<>> /\ stack = <<>> /\ ~aborted
        /\ pc = "handler" => InStep
        /\ pc = "panic" => InStep \/ Wrapped
        /\ pc = "returned" => stack = <<>>
        /\ helper = "none"

\* Once aborted, steps is over until Goto; the index is left alone.
StepsInv ==
    mode = "steps" =>
        /\ index = -1
        /\ pc \in {"loop", "switch", "handler", "needNext", "add", "returned", "died"}
        /\ aborted /\ pc # "returned" => steps >= HANDLE_OVER

IInv == TypeOK /\ InOrder /\ ChainInv /\ StepsInv

\* What a turn of the loop does to the position.
LEMMA TurnInv ==
    ASSUME TypeOK, InOrder, mode = "slices", NEW callers \in Seq(Nat), Turn(callers),
           UNCHANGED <<mode, handlers, aborted>>,
           \/ index = -1 /\ ran = <<>> /\ callers = <<>> /\ ~aborted
           \/ InStep
           \/ index = -MaxInt8 - 1 /\ callers = <<>>
    PROVE  /\ InOrder'
           /\ pc' = "handler" => InStep'
           /\ pc' = "panic" => Wrapped'
           /\ pc' \in {"handler", "panic", "returned"}
           /\ pc' = "returned" => stack' = <<>>
           /\ aborted => ran' = ran
<1> DEFINE i == Inc(index)
           n == Int8(handlers)
<1>1. /\ MaxInt8 \in Nat /\ MaxInt8 > 0 /\ handlers \in Nat
      /\ index \in (-MaxInt8 - 1)..MaxInt8 /\ ran \in Seq(Nat)
      /\ n \in (-MaxInt8 - 1)..MaxInt8 /\ n <= handlers
  BY RouterAssumption, Int8Range DEF TypeOK
<1>2. n' = n /\ index' = i
  BY DEF Turn, Int8
<1>3. pc' \in {"handler", "panic", "returned"}
  BY DEF Turn
<1>4. CASE i >= n
  <2>1. /\ ran' = ran /\ stack' = callers /\ pc' # "panic"
        /\ pc' = "returned" => callers = <<>>
    BY <1>4 DEF Turn
  <2>2. pc' = "handler" => InStep
    BY <1>4 DEF Turn
  <2>3. InStep => i >= 0
    BY <1>1, <1>4 DEF InStep, Inc
  <2>4. pc' = "handler" => InStep'
    <3> HIDE DEF n, i
    <3>1. InStep => n > 0
      BY DEF InStep, n
    <3>2. Int8(handlers)' = n
      BY <1>2 DEF n
    <3>3. i \in Int /\ n \in Int
      BY <1>1, IncRange DEF i
    <3>4. QED
      BY <1>2, <1>4, <2>2, <2>3, <3>1, <3>2, <3>3 DEF InStep
  <2>5. InOrder'
    BY <2>1 DEF InOrder
  <2>6. QED
    BY <1>3, <2>1, <2>4, <2>5
<1>5. CASE i < n /\ i < 0
  <2>1. i \notin 0..(handlers - 1)
    BY <1>5
  <2>2. ran' = ran /\ stack' = callers /\ pc' = "panic"
    BY <1>5, <1>1, <2>1, IncRange DEF Turn
  <2>3. index = -MaxInt8 - 1 \/ index # -1
    BY <1>1, <1>5 DEF Inc
  <2>4. Wrapped'
    BY <1>1, <1>2, <1>5, <2>2 DEF Wrapped, Inc, InStep
  <2>5. InOrder'
    BY <2>2 DEF InOrder
  <2>6. QED
    BY <2>2, <2>4, <2>5
<1>6. CASE i < n /\ i >= 0
  <2>1. i = index + 1 /\ index >= -1
    BY <1>1, <1>6 DEF Inc
  <2>2. Len(ran) = i /\ ~aborted
    BY <1>1, <1>6, <2>1 DEF InStep
  <2>3. i \in 0..(handlers - 1)
    BY <1>1, <1>6, <2>1
  <2>4. ran' = Append(ran, i) /\ stack' = Append(callers, i) /\ pc' = "handler"
    <3>1. ~(i >= n)
      BY <1>1, <1>6, <2>1
    <3>2. QED
      BY <2>3, <3>1 DEF Turn
  <2>5. Len(ran') = i + 1
    BY <1>1, <2>2, <2>3, <2>4
  <2>6. InOrder'
    <3> SUFFICES ASSUME NEW j \in 1..Len(ran') PROVE ran'[j] = j - 1
      BY DEF InOrder
    <3>1. CASE j = i + 1
      <4>1. Append(ran, i)[Len(ran) + 1] = i
        BY <1>1
      <4> HIDE DEF i
      <4> QED
        BY <2>2, <2>3, <2>4, <3>1, <4>1
    <3>2. CASE j # i + 1
      <4>1. j \in 1..Len(ran)
        BY <2>2, <2>3, <2>5, <3>2
      <4>2. ran[j] = j - 1
        BY <4>1 DEF InOrder
      <4>3. QED
        BY <1>1, <2>4, <4>1, <4>2
    <3>3. QED
      BY <3>1, <3>2
  <2>7. InStep'
    <3>1. Int8(handlers)' = n
      BY <1>2
    <3>2. n > 0 /\ index' = i
      BY <1>1, <1>2, <1>6, <2>1
    <3>3. QED
      BY <1>6, <2>2, <2>5, <3>1, <3>2 DEF InStep
  <2>8. QED
    BY <2>2, <2>4, <2>6, <2>7
<1>7. (i >= n) \/ (i < n /\ i < 0) \/ (i < n /\ i >= 0)
  <2>1. i \in Int /\ n \in Int
    BY <1>1, IncRange
  <2> HIDE DEF i, n
  <2>2. QED
    BY <2>1
<1>8. QED
  BY <1>4, <1>5, <1>6, <1>7

LEMMA IInvInit == Init => IInv
<1> SUFFICES ASSUME Init PROVE IInv
  OBVIOUS
<1>1. InOrder
  BY DEF Init, InOrder
<1>2. ChainInv
  BY DEF Init, ChainInv
<1>3. StepsInv
  BY DEF Init, StepsInv
<1>4. QED
  BY <1>1, <1>2, <1>3, TypeInit DEF IInv

\* The chain of handlers, one case for each action that touches it.
LEMMA ChainStep ==
    ASSUME TypeOK, InOrder, ChainInv, mode = "slices", [Next]_vars
    PROVE  InOrder' /\ ChainInv' /\ (aborted /\ aborted' => ran' = ran)
<1>0. pc \in {"next", "handler", "panic", "returned", "died"}
  BY DEF ChainInv
<1> USE DEF conf, field
<1>1. CASE FirstNext
  <2>1. Turn(<<>>) /\ UNCHANGED <<mode, handlers, aborted, helper>> /\ <<>> \in Seq(Nat)
    BY <1>1 DEF FirstNext
  <2>2. index = -1 /\ ran = <<>> /\ ~aborted
    BY <1>1 DEF FirstNext, ChainInv
  <2>3. QED
    BY <2>1, <2>2, TurnInv DEF ChainInv
<1>2. CASE RouterSlicesNext
  <2>1. Turn(stack) /\ UNCHANGED <<mode, handlers, aborted, helper>> /\ stack \in Seq(Nat)
    BY <1>2 DEF RouterSlicesNext, TypeOK
  <2>2. InStep
    BY <1>2 DEF RouterSlicesNext, ChainInv
  <2>3. QED
    BY <2>1, <2>2, TurnInv DEF ChainInv
<1>3. CASE HandlerReturns
  <2>1. Turn(Below) /\ UNCHANGED <<mode, handlers, aborted, helper>> /\ Below \in Seq(Nat)
    BY <1>3 DEF HandlerReturns, TypeOK, Below
  <2>2. InStep
    BY <1>3 DEF HandlerReturns, ChainInv
  <2>3. QED
    BY <2>1, <2>2, TurnInv DEF ChainInv
<1>4. CASE Unwind
  <2>1. CASE recovery /\ stack # <<>> /\ stack[1] = 0
    <3>1. Turn(<<>>) /\ UNCHANGED <<mode, handlers, aborted, helper>> /\ <<>> \in Seq(Nat)
      BY <1>4, <2>1 DEF Unwind
    <3>2. InStep \/ index = -MaxInt8 - 1
      BY <1>4, <2>1 DEF Unwind, ChainInv, Wrapped
    <3>3. QED
      BY <3>1, <3>2, TurnInv DEF ChainInv
  <2>2. CASE ~(recovery /\ stack # <<>> /\ stack[1] = 0)
    <3>1. pc' = "died" /\ ran' = ran /\ mode' = mode /\ helper' = helper
      BY <1>4, <2>2 DEF Unwind
    <3>2. QED
      BY <3>1 DEF ChainInv, InOrder
  <2>3. QED
    BY <2>1, <2>2
<1>5. CASE HandlerAbort
  <2>1. /\ index' = Int8(handlers) /\ UNCHANGED <<mode, handlers, pc, ran, helper>>
        /\ pc = "handler"
    BY <1>5 DEF HandlerAbort, Abort
  <2>2. InStep
    BY <2>1 DEF ChainInv
  <2>3. Int8(handlers) \in Int
    BY RouterAssumption, Int8Range DEF TypeOK
  <2>4. Int8(handlers)' = Int8(handlers)
    BY <2>1
  <2>5. InStep'
    BY <2>1, <2>2, <2>3, <2>4 DEF InStep
  <2>6. QED
    BY <2>1, <2>5 DEF ChainInv, InOrder
<1>6. ~HelperAbort /\ ~StartHelper /\ \A step : ~HandlerGoto(step) /\ ~HelperGoto(step)
  BY DEF ChainInv, HelperAbort, StartHelper, HandlerGoto, HelperGoto, Goto
<1>7. CASE HandlerPanic
  <2>1. /\ pc' = "panic" /\ UNCHANGED <<mode, handlers, index, ran, aborted, helper>>
        /\ pc = "handler"
    BY <1>7 DEF HandlerPanic
  <2>2. InStep'
    BY <2>1 DEF ChainInv, InStep, Int8
  <2>3. QED
    BY <2>1, <2>2 DEF ChainInv, InOrder
<1>8. CASE Recycle
  <2>1. /\ mode' = mode /\ pc' = "next" /\ index' = -1 /\ ran' = <<>> /\ aborted' = FALSE
        /\ stack' = stack /\ pc = "returned" /\ helper' = "none"
    BY <1>8 DEF Recycle, Reset
  <2>2. QED
    BY <2>1 DEF ChainInv, InOrder
<1>9. ~(Loop \/ Switch \/ StepReturns \/ TestNeedNext \/ next)
  BY <1>0 DEF Loop, Switch, StepReturns, TestNeedNext, next
<1>10. CASE UNCHANGED vars
  BY <1>10 DEF vars, history, ChainInv, InOrder, InStep, Wrapped, Int8
<1>11. QED
  BY <1>1, <1>2, <1>3, <1>4, <1>5, <1>6, <1>7, <1>8, <1>9, <1>10 DEF Next

\* The steps of an IRouter: nothing that happens while a request is aborted lowers
\* steps below HANDLE_OVER, so that no step begins.
LEMMA StepsStep ==
    ASSUME TypeOK, StepsInv, mode = "steps", [Next]_vars
    PROVE  mode' = mode /\ StepsInv' /\ (aborted /\ aborted' => ran' = ran)
<1>0. pc \in {"loop", "switch", "handler", "needNext", "add", "returned", "died"}
  BY DEF StepsInv
<1>1. steps \in Nat
  BY DEF TypeOK
<1> USE DEF conf, field, HANDLE_OVER
<1>2. CASE Loop
  BY <1>2 DEF Loop, history, StepsInv
<1>3. CASE Switch
  BY <1>1, <1>3 DEF Switch, StepsInv, Steps, PRE_HANDLE, HANDLE, POST_HANDLE
<1>4. CASE StepReturns \/ TestNeedNext
  BY <1>4 DEF StepReturns, TestNeedNext, history, StepsInv
<1>5. CASE next
  BY <1>1, <1>5 DEF next, history, StepsInv
<1>6. ASSUME NEW step \in Steps \cup {HANDLE_OVER}, HandlerGoto(step) \/ HelperGoto(step)
      PROVE  mode' = mode /\ StepsInv' /\ (aborted /\ aborted' => ran' = ran)
  BY <1>6 DEF HandlerGoto, HelperGoto, Goto, StepsInv
<1>7. CASE HandlerAbort \/ HelperAbort
  BY <1>7 DEF HandlerAbort, HelperAbort, Abort, StepsInv
<1>8. CASE StartHelper
  BY <1>8 DEF StartHelper, history, StepsInv
<1>9. CASE HandlerPanic
  BY <1>9 DEF HandlerPanic, StepsInv
<1>10. CASE Recycle
  BY <1>10 DEF Recycle, Reset, StepsInv
<1>11. ~(FirstNext \/ RouterSlicesNext \/ HandlerReturns \/ Unwind)
  BY <1>0 DEF FirstNext, RouterSlicesNext, HandlerReturns, Unwind
<1>12. CASE UNCHANGED vars
  BY <1>12 DEF vars, history, StepsInv
<1>13. QED
  BY <1>2, <1>3, <1>4, <1>5, <1>6, <1>7, <1>8, <1>9, <1>10, <1>11, <1>12 DEF Next

LEMMA IInvStep == IInv /\ [Next]_vars => IInv' /\ (aborted /\ aborted' => ran' = ran)
<1> SUFFICES ASSUME IInv, [Next]_vars
             PROVE  IInv' /\ (aborted /\ aborted' => ran' = ran)
  OBVIOUS
<1>1. TypeOK'
  BY TypeStep DEF IInv
<1>2. CASE mode = "slices"
  <2>1. InOrder' /\ ChainInv' /\ (aborted /\ aborted' => ran' = ran)
    BY <1>2, ChainStep DEF IInv
  <2>2. mode' = mode
    BY DEF Next, vars, conf, field, history, FirstNext, RouterSlicesNext, HandlerReturns,
           Unwind, Loop, Switch, StepReturns, TestNeedNext, next, HandlerGoto, HelperGoto,
           Goto, HandlerAbort, HelperAbort, Abort, StartHelper, HandlerPanic, Recycle
  <2>3. QED
    BY <1>1, <1>2, <2>1, <2>2 DEF IInv, StepsInv
<1>3. CASE mode = "steps"
  <2>1. mode' = mode /\ StepsInv' /\ (aborted /\ aborted' => ran' = ran)
    BY <1>3, StepsStep DEF IInv
  <2>2. QED
    BY <1>1, <1>3, <2>1 DEF IInv, InOrder, ChainInv
<1>4. QED
  BY <1>2, <1>3 DEF IInv, TypeOK

LEMMA Invariance == Spec => []IInv
BY IInvInit, IInvStep, PTL DEF Spec

\* Handlers of a chain begin in order and at most once, for every chain and index width.
THEOREM ChainInOrder == Spec => []InOrder
<1>1. IInv => InOrder
  BY DEF IInv
<1>2. QED
  BY <1>1, Invariance, PTL

\* After Abort no handler and no step begins, in both modes.
THEOREM AbortIsFinal == Spec => AbortStops
<1>1. IInv /\ [Next]_vars => [aborted /\ aborted' => ran' = ran]_vars
  BY IInvStep
<1>2. QED
  BY <1>1, Invariance, PTL DEF Spec, AbortStops

-----------------------------------------------------------------------------
(* The order of the steps of an IRouter, and that it runs all of them.     *)

LastStep == ran[Len(ran)]

\* The step that should begin next.
Expected ==
    CASE target # -1 -> target
      [] ran = <<>>  -> PRE_HANDLE
      [] OTHER       -> LastStep + 1

\* Before the first step begins nothing has touched the request.
FirstInv ==
    mode = "steps" /\ ran = <<>> =>
        pc \in {"loop", "switch"} /\ helper = "none" /\ steps = PRE_HANDLE /\ target = -1

\* What steps is, at each place of Call and next(), unless another goroutine has
\* called Goto: the step expected next, that of the last Goto, or the one being run.
OrderInv ==
    mode = "steps" /\ ~raced =>
        /\ pc \in {"loop", "switch"} => needNext /\ (steps < HANDLE_OVER => steps = Expected)
        /\ pc = "switch" /\ steps >= HANDLE_OVER => target = -1
        /\ pc \in {"handler", "needNext"} =>
              /\ needNext => target = -1 /\ (steps >= HANDLE_OVER \/ steps = LastStep)
              /\ ~needNext => steps >= HANDLE_OVER \/ (target # -1 /\ steps = target)
        /\ pc = "add" => target = -1 /\ needNext /\ (steps >= HANDLE_OVER \/ steps = LastStep)

\* Without Goto and Abort, steps counts the steps begun.
CountInv ==
    mode = "steps" /\ ~aborted /\ gotos = 0 =>
        /\ pc \notin {"returned", "died"} => needNext
        /\ pc = "loop" => Len(ran) = steps /\ steps <= HANDLE_OVER
        /\ pc = "switch" => Len(ran) = steps /\ steps < HANDLE_OVER
        /\ pc \in {"handler", "needNext", "add"} =>
              Len(ran) = steps + 1 /\ steps < HANDLE_OVER
        /\ pc = "returned" => Len(ran) = HANDLE_OVER

\* What begins is what is expected.
Begins == mode = "steps" /\ ~raced /\ ran' # ran /\ ran' # <<>>
              => ran'[Len(ran')] = Expected

LEMMA OrderInit == Init => FirstInv /\ OrderInv /\ CountInv
<1> SUFFICES ASSUME Init PROVE FirstInv /\ OrderInv /\ CountInv
  OBVIOUS
<1>1. /\ ran = <<>> /\ Len(ran) = 0 /\ target = -1 /\ steps = 0 /\ needNext = TRUE
      /\ helper = "none" /\ pc \in {"loop", "next"}
  BY DEF Init, PRE_HANDLE
<1>2. mode = "steps" => pc = "loop"
  BY DEF Init
<1>3. Expected = 0
  BY <1>1 DEF Expected, PRE_HANDLE
<1> QED
  BY <1>1, <1>2, <1>3 DEF FirstInv, OrderInv, CountInv, PRE_HANDLE, HANDLE_OVER

\* One case for each action of the IRouter.
LEMMA OrderStep ==
    ASSUME TypeOK, StepsInv, mode = "steps", FirstInv, OrderInv, CountInv, [Next]_vars
    PROVE  FirstInv' /\ OrderInv' /\ CountInv' /\ Begins
<1>0. /\ pc \in {"loop", "switch", "handler", "needNext", "add", "returned", "died"}
      /\ steps \in Nat /\ ran \in Seq(Nat) /\ gotos \in Nat /\ Len(ran) \in Nat
      /\ needNext \in BOOLEAN /\ aborted \in BOOLEAN /\ raced \in BOOLEAN
  BY DEF StepsInv, TypeOK
<1> USE DEF conf, field, history, HANDLE_OVER, PRE_HANDLE
<1>1. CASE Loop
  <2>1. /\ UNCHANGED <<mode, needNext, helper, ran, gotos, target, aborted, raced>>
        /\ pc = "loop"
        /\ \/ steps < 3 /\ pc' = "switch" /\ steps' = steps
           \/ steps >= 3 /\ pc' = "returned"
    BY <1>0, <1>1 DEF Loop
  <2>2. Expected' = Expected
    BY <2>1 DEF Expected, LastStep
  <2>3. FirstInv' /\ Begins
    BY <2>1 DEF FirstInv, Begins
  <2>4. OrderInv'
    BY <1>0, <2>1, <2>2 DEF OrderInv
  <2>5. CountInv'
    BY <1>0, <2>1 DEF CountInv
  <2> QED
    BY <2>3, <2>4, <2>5
<1>2. CASE Switch
  <2>1. CASE steps \in Steps
    <3>1. /\ UNCHANGED <<mode, steps, needNext, helper, gotos, aborted, raced>>
          /\ pc = "switch" /\ pc' = "handler" /\ target' = -1
          /\ ran' = Append(ran, steps) /\ steps < 3
      BY <1>2, <2>1 DEF Switch, Steps, HANDLE, POST_HANDLE
    <3>2. /\ Len(ran') = Len(ran) + 1 /\ ran'[Len(ran')] = steps
          /\ ran' # <<>>
      BY <1>0, <3>1
    <3>3. ~raced => steps = Expected /\ needNext
      BY <3>1 DEF OrderInv
    <3> QED
      BY <1>0, <3>1, <3>2, <3>3 DEF FirstInv, OrderInv, CountInv, Begins, LastStep
  <2>2. CASE steps \notin Steps
    <3>1. /\ UNCHANGED <<mode, steps, needNext, helper, ran, target, gotos, aborted, raced>>
          /\ pc = "switch" /\ pc' = "needNext" /\ steps >= 3
      BY <1>0, <1>2, <2>2 DEF Switch, Steps, HANDLE, POST_HANDLE
    <3> QED
      BY <1>0, <3>1 DEF FirstInv, OrderInv, CountInv, Begins
  <2> QED
    BY <2>1, <2>2
<1>3. CASE StepReturns
  BY <1>0, <1>3 DEF StepReturns, FirstInv, OrderInv, CountInv, Begins, LastStep
<1>4. CASE TestNeedNext
  <2>1. /\ UNCHANGED <<mode, steps, helper, ran, gotos, target, aborted, raced>>
        /\ pc = "needNext" /\ needNext' = TRUE
        /\ pc' = IF needNext THEN "add" ELSE "loop"
    BY <1>4 DEF TestNeedNext
  <2>2. Expected' = Expected /\ LastStep' = LastStep
    BY <2>1 DEF Expected, LastStep
  <2>3. target # -1 => Expected = target
    <3>1. ran # <<>>
      BY <2>1 DEF FirstInv
    <3> QED
      BY <3>1 DEF Expected
  <2> QED
    BY <1>0, <2>1, <2>2, <2>3 DEF FirstInv, OrderInv, CountInv, Begins
<1>5. CASE next
  <2>1. /\ UNCHANGED <<mode, needNext, helper, ran, gotos, target, aborted, raced>>
        /\ pc = "add" /\ pc' = "loop" /\ steps' = steps + 1 /\ ran # <<>>
    BY <1>5 DEF next, FirstInv
  <2>2. target = -1 => Expected' = LastStep + 1
    BY <2>1 DEF Expected, LastStep
  <2> QED
    BY <1>0, <2>1, <2>2 DEF FirstInv, OrderInv, CountInv, Begins
<1>6. ASSUME NEW step \in Steps \cup {HANDLE_OVER}, HandlerGoto(step) \/ HelperGoto(step)
      PROVE  FirstInv' /\ OrderInv' /\ CountInv' /\ Begins
  <2>1. /\ UNCHANGED <<mode, pc, ran>> /\ steps' = step /\ needNext' = FALSE
        /\ gotos' = gotos + 1 /\ target' = step
        /\ pc = "handler" \/ helper = "runs"
        /\ raced' = TRUE \/ (pc = "handler" /\ raced' = raced)
    BY <1>6 DEF HandlerGoto, HelperGoto, Goto
  <2>2. step # -1 /\ gotos' # 0
    BY <1>0, <2>1 DEF Steps, HANDLE, POST_HANDLE
  <2> QED
    BY <1>0, <2>1, <2>2 DEF FirstInv, OrderInv, CountInv, Begins
<1>7. CASE HandlerAbort \/ HelperAbort
  <2>1. /\ UNCHANGED <<mode, pc, ran, needNext, raced>> /\ steps' = 3 /\ target' = -1
        /\ aborted' = TRUE
        /\ pc = "handler" \/ helper = "runs"
    BY <1>7 DEF HandlerAbort, HelperAbort, Abort
  <2> QED
    BY <1>0, <2>1 DEF FirstInv, OrderInv, CountInv, Begins
<1>8. CASE StartHelper
  BY <1>0, <1>8 DEF StartHelper, FirstInv, OrderInv, CountInv, Begins, LastStep, Expected
<1>9. CASE HandlerPanic
  <2>1. /\ UNCHANGED <<mode, ran, target>> /\ pc' = "died" /\ ran # <<>>
    BY <1>9 DEF HandlerPanic, FirstInv
  <2> QED
    BY <1>0, <2>1 DEF FirstInv, OrderInv, CountInv, Begins
<1>10. CASE Recycle
  <2>1. /\ mode' = mode /\ pc' = "loop" /\ ran' = <<>> /\ target' = -1 /\ helper' = "none"
        /\ steps' = 0 /\ needNext' = TRUE /\ Len(ran') = 0
    BY <1>10 DEF Recycle, Reset
  <2> QED
    BY <2>1 DEF FirstInv, OrderInv, CountInv, Begins, Expected
<1>11. ~(FirstNext \/ RouterSlicesNext \/ HandlerReturns \/ Unwind)
  BY <1>0 DEF FirstNext, RouterSlicesNext, HandlerReturns, Unwind
<1>12. CASE UNCHANGED vars
  BY <1>12 DEF vars, FirstInv, OrderInv, CountInv, Begins, LastStep, Expected
<1> QED
  BY <1>1, <1>2, <1>3, <1>4, <1>5, <1>6, <1>7, <1>8, <1>9, <1>10, <1>11, <1>12 DEF Next

-----------------------------------------------------------------------------
(* A chain runs all its handlers.                                          *)

\* int8(k) is k when k fits.
LEMMA Int8Fits == ASSUME NEW k \in 0..MaxInt8 PROVE Int8(k) = k
<1> DEFINE w == 2 * (MaxInt8 + 1)
           x == k + MaxInt8 + 1
<1>1. MaxInt8 \in Nat /\ MaxInt8 > 0
  BY RouterAssumption
<1>2. w \in Nat /\ w > 0 /\ x \in Nat /\ x < w
  BY <1>1
<1>3. x % w = x
  <2> HIDE DEF x, w
  <2> QED
    BY <1>2
<1> QED
  BY <1>1, <1>3 DEF Int8

\* Unless aborted or unwound, a chain ends its loops after its last handler only.
RanAllInv ==
    mode = "slices" /\ ~panicked =>
        /\ pc = "panic" => Wrapped
        /\ handlers <= MaxInt8 /\ ~aborted =>
              /\ pc = "handler" /\ index + 1 >= handlers => Len(ran) = handlers
              /\ pc = "returned" => Len(ran) = handlers

LEMMA RanAllInit == Init => RanAllInv
BY DEF Init, RanAllInv

\* What a turn of the loop adds to it.
LEMMA TurnRanAll ==
    ASSUME TypeOK, InOrder, mode = "slices", NEW callers \in Seq(Nat), Turn(callers),
           UNCHANGED <<mode, handlers, aborted, panicked>>,
           \/ index = -1 /\ ran = <<>> /\ callers = <<>> /\ ~aborted
           \/ InStep /\ (panicked \/ (pc = "handler" /\ RanAllInv))
           \/ index = -MaxInt8 - 1 /\ callers = <<>>
    PROVE  RanAllInv'
<1>1. pc' = "panic" => Wrapped'
  BY TurnInv
<1> SUFFICES ASSUME ~panicked, handlers <= MaxInt8, ~aborted, pc' \in {"handler", "returned"}
             PROVE  /\ pc' = "handler" /\ index' + 1 >= handlers => Len(ran') = handlers
                    /\ pc' = "returned" => Len(ran') = handlers
  BY <1>1 DEF RanAllInv
<1> DEFINE i == Inc(index)
<1>2. /\ MaxInt8 \in Nat /\ MaxInt8 > 0 /\ handlers \in Nat
      /\ index \in (-MaxInt8 - 1)..MaxInt8 /\ ran \in Seq(Nat) /\ i \in Int
  BY RouterAssumption, IncRange DEF TypeOK
<1>3. Int8(handlers) = handlers
  BY <1>2, Int8Fits
<1>4. index' = i
  BY DEF Turn
<1>5. CASE i >= handlers
  <2>1. ran' = ran
    BY <1>3, <1>5 DEF Turn
  <2>2. index # MaxInt8 /\ i = index + 1
    BY <1>2, <1>5 DEF Inc
  <2>3. CASE index = -1 /\ ran = <<>>
    <3>1. handlers = 0 /\ Len(ran) = 0
      BY <1>2, <1>5, <2>2, <2>3
    <3> QED
      BY <2>1, <3>1
  <2>4. CASE InStep /\ pc = "handler" /\ RanAllInv
    <3>1. Len(ran) = handlers
      BY <1>5, <2>2, <2>4 DEF RanAllInv
    <3> QED
      BY <2>1, <3>1
  <2>5. CASE index = -MaxInt8 - 1
    BY <1>2, <1>5, <2>2, <2>5
  <2> QED
    BY <2>3, <2>4, <2>5
<1>6. CASE i < handlers /\ i < 0
  <2>1. i \notin 0..(handlers - 1) /\ ~(i >= handlers)
    BY <1>2, <1>6
  <2>2. pc' = "panic"
    BY <1>3, <2>1 DEF Turn
  <2> QED
    BY <2>2
<1>7. CASE i < handlers /\ i >= 0
  <2>1. i = index + 1 /\ ~(i >= handlers) /\ i \in 0..(handlers - 1)
    BY <1>2, <1>7 DEF Inc
  <2>2. Len(ran) = i
    BY <1>2, <1>3, <1>7, <2>1 DEF InStep
  <2>3. ran' = Append(ran, i) /\ pc' = "handler"
    BY <1>3, <2>1 DEF Turn
  <2>4. Len(ran') = i + 1
    BY <1>2, <2>1, <2>2, <2>3
  <2> QED
    BY <1>2, <1>4, <1>7, <2>3, <2>4
<1>8. i >= handlers \/ (i < handlers /\ i < 0) \/ (i < handlers /\ i >= 0)
  BY <1>2
<1> QED
  BY <1>5, <1>6, <1>7, <1>8

LEMMA RanAllStep ==
    ASSUME TypeOK, InOrder, ChainInv, mode = "slices", RanAllInv, [Next]_vars
    PROVE  RanAllInv'
<1>0. pc \in {"next", "handler", "panic", "returned", "died"}
  BY DEF ChainInv
<1> USE DEF conf, field
<1>1. CASE FirstNext
  <2>1. /\ Turn(<<>>) /\ UNCHANGED <<mode, handlers, aborted, panicked>>
        /\ <<>> \in Seq(Nat) /\ index = -1 /\ ran = <<>> /\ ~aborted
    BY <1>1 DEF FirstNext, ChainInv
  <2> QED
    BY <2>1, TurnRanAll
<1>2. CASE RouterSlicesNext
  <2>1. /\ Turn(stack) /\ UNCHANGED <<mode, handlers, aborted, panicked>>
        /\ stack \in Seq(Nat) /\ InStep /\ pc = "handler"
    BY <1>2 DEF RouterSlicesNext, TypeOK, ChainInv
  <2> QED
    BY <2>1, TurnRanAll
<1>3. CASE HandlerReturns
  <2>1. /\ Turn(Below) /\ UNCHANGED <<mode, handlers, aborted, panicked>>
        /\ Below \in Seq(Nat) /\ InStep /\ pc = "handler"
    BY <1>3 DEF HandlerReturns, TypeOK, Below, ChainInv
  <2> QED
    BY <2>1, TurnRanAll
<1>4. CASE Unwind
  <2>1. CASE recovery /\ stack # <<>> /\ stack[1] = 0
    <3>1. /\ Turn(<<>>) /\ UNCHANGED <<mode, handlers, aborted, panicked>>
          /\ <<>> \in Seq(Nat) /\ pc = "panic"
      BY <1>4, <2>1 DEF Unwind
    <3>2. (InStep /\ panicked) \/ index = -MaxInt8 - 1
      BY <2>1, <3>1 DEF ChainInv, RanAllInv, Wrapped, TypeOK
    <3> QED
      BY <3>1, <3>2, TurnRanAll
  <2>2. CASE ~(recovery /\ stack # <<>> /\ stack[1] = 0)
    <3>1. pc' = "died"
      BY <1>4, <2>2 DEF Unwind
    <3> QED
      BY <3>1 DEF RanAllInv
  <2> QED
    BY <2>1, <2>2
<1>5. CASE HandlerAbort
  <2>1. aborted' = TRUE /\ pc' = "handler"
    BY <1>5 DEF HandlerAbort, Abort
  <2> QED
    BY <2>1 DEF RanAllInv
<1>6. ~HelperAbort /\ ~StartHelper /\ \A step : ~HandlerGoto(step) /\ ~HelperGoto(step)
  BY DEF ChainInv, HelperAbort, StartHelper, HandlerGoto, HelperGoto, Goto
<1>7. CASE HandlerPanic
  BY <1>7 DEF HandlerPanic, RanAllInv
<1>8. CASE Recycle
  <2>1. pc' = "next"
    BY <1>8 DEF Recycle
  <2> QED
    BY <2>1 DEF RanAllInv
<1>9. ~(Loop \/ Switch \/ StepReturns \/ TestNeedNext \/ next)
  BY <1>0 DEF Loop, Switch, StepReturns, TestNeedNext, next
<1>10. CASE UNCHANGED vars
  BY <1>10 DEF vars, history, RanAllInv, Wrapped
<1> QED
  BY <1>1, <1>2, <1>3, <1>4, <1>5, <1>6, <1>7, <1>8, <1>9, <1>10 DEF Next

-----------------------------------------------------------------------------
(* The index of a short chain does not wrap.  Each handler under execution *)
(* may still take some turns of a loop: as many as the calls it has left,  *)
(* and one for its return.  What the index has reached and what they may   *)
(* still add stays within the bound.                                       *)

\* The chains IndexFits is about.
Short ==
    mode = "slices" /\ handlers * (MaxNext + 1) < MaxInt8 /\ (recovery => MaxNext > 0)

\* p[i]: the turns that the handlers s[1], ..., s[i] may still take, after c[h] calls of h.
Rest(s, c, p) ==
    /\ p \in [0..Len(s) -> Nat] /\ p[0] = 0
    /\ \A i \in 1..Len(s) : p[i] = p[i - 1] + (MaxNext - c[s[i]]) + 1 /\ i <= p[i]

\* The handlers of s are different ones of the chain and have begun.
Begun(s) ==
    /\ \A i \in 1..Len(s) : s[i] \in 0..(handlers - 1) /\ i <= s[i] + 1 /\ s[i] < Len(ran)
    /\ \A i, j \in 1..Len(s) : i < j => s[i] < s[j]

\* The calls counted for a chain of which n handlers have begun.
Counts(c, n) ==
    c \in [0..(handlers - 1) -> 0..MaxNext] /\ \A h \in 0..(handlers - 1) : h >= n => c[h] = 0

\* The index may still grow by r.
Room(r) ==
    index + r <= IF aborted THEN handlers * (MaxNext + 1) + 1 ELSE Len(ran) * (MaxNext + 1)

\* The handlers of the stack but the innermost have called RouterSlicesNext.
Balance(p) ==
    /\ Rest(stack, calls, p)
    /\ \A i \in 1..(Len(stack) - 1) : p[i] <= i * MaxNext
    /\ p[Len(stack)] <= Len(stack) * MaxNext + 1
    /\ Room(p[Len(stack)])

IndexInv ==
    Short =>
        /\ index >= -1
        /\ pc \notin {"returned", "died"} =>
              /\ Begun(stack) /\ Counts(calls, Len(ran)) /\ Len(ran) <= handlers
              /\ \E p : Balance(p)
        /\ pc \in {"handler", "panic"} => stack # <<>>

\* Products are monotonic and distribute over a successor.
LEMMA Products ==
    ASSUME NEW a \in Nat, NEW b \in Nat, NEW m \in Nat
    PROVE  /\ a * m \in Nat
           /\ a <= b => a * m <= b * m
           /\ (a + 1) * m = a * m + m
           /\ a * (m + 1) = a * m + a
OBVIOUS

\* What a short chain bounds.
LEMMA ShortBounds ==
    ASSUME TypeOK, Short
    PROVE  /\ handlers \in 0..MaxInt8 /\ Int8(handlers) = handlers
           /\ handlers * (MaxNext + 1) \in Nat /\ handlers <= handlers * (MaxNext + 1)
<1>1. MaxInt8 \in Nat /\ MaxNext \in Nat /\ handlers \in Nat
  BY RouterAssumption DEF TypeOK
<1>2. /\ handlers * MaxNext \in Nat
      /\ handlers * (MaxNext + 1) = handlers * MaxNext + handlers
  BY <1>1, Products
<1>3. handlers * (MaxNext + 1) < MaxInt8
  BY DEF Short
<1>4. handlers \in 0..MaxInt8
  BY <1>1, <1>2, <1>3
<1> QED
  BY <1>1, <1>2, <1>4, Int8Fits

\* A turn of the loop keeps the balance, if its callers have made room for it.
LEMMA TurnIndex ==
    ASSUME TypeOK, Short, NEW callers \in Seq(Nat), Turn(callers),
           UNCHANGED <<mode, handlers, recovery, aborted>>,
           NEW q, Rest(callers, calls', q), Begun(callers), Counts(calls', Len(ran)),
           \A i \in 1..Len(callers) : q[i] <= i * MaxNext,
           Room(q[Len(callers)] + 1), Len(ran) <= handlers, index >= -1,
           (index = -1 /\ ran = <<>> /\ ~aborted) \/ InStep
    PROVE  IndexInv'
<1> DEFINE L == Len(callers)
           n == Len(ran)
           i == index + 1
           top == handlers * (MaxNext + 1)
<1>1. /\ MaxInt8 \in Nat /\ MaxNext \in Nat /\ handlers \in Nat /\ L \in Nat /\ n \in Nat
      /\ index \in Int /\ ran \in Seq(Nat) /\ aborted \in BOOLEAN
  BY RouterAssumption DEF TypeOK
<1>2. /\ top < MaxInt8 /\ top \in Nat /\ Int8(handlers) = handlers
  BY ShortBounds DEF Short
<1>3. q \in [0..L -> Nat] /\ q[L] \in Nat /\ q[0] = 0
  <2>1. q \in [0..L -> Nat] /\ q[0] = 0 /\ L \in 0..L
    BY <1>1 DEF Rest
  <2> QED
    BY <2>1
<1>4. n * (MaxNext + 1) \in Nat /\ n * (MaxNext + 1) <= top
  <2>1. MaxNext + 1 \in Nat /\ n <= handlers
    BY <1>1
  <2> HIDE DEF n
  <2> QED
    BY <1>1, <2>1, Products
<1>5. i + q[L] <= IF aborted THEN top + 1 ELSE n * (MaxNext + 1)
  BY <1>1, <1>3 DEF Room
<1>6. Inc(index) = i /\ i \in Nat
  <2>1. index < MaxInt8
    BY <1>1, <1>2, <1>3, <1>4, <1>5
  <2> QED
    BY <1>1, <2>1 DEF Inc
<1>7. index' = i
  BY <1>6 DEF Turn
<1>8. L <= n
  <2>1. CASE L = 0
    BY <1>1, <2>1
  <2>2. CASE L # 0
    <3>1. L \in 1..Len(callers)
      BY <1>1, <2>2
    <3>2. L <= callers[L] + 1 /\ callers[L] < n /\ callers[L] \in 0..(handlers - 1)
      BY <3>1 DEF Begun
    <3> QED
      BY <1>1, <3>2
  <2> QED
    BY <2>1, <2>2
<1>9. q[L] <= L * MaxNext /\ L * MaxNext \in Nat
  <2>1. L * MaxNext \in Nat
    BY <1>1, Products
  <2>2. CASE L = 0
    BY <1>3, <2>1, <2>2
  <2>3. CASE L # 0
    BY <1>1, <2>1, <2>3
  <2> QED
    BY <2>2, <2>3
<1>10. CASE i >= handlers
  <2>1. stack' = callers /\ ran' = ran /\ pc' # "panic" /\ (pc' = "handler" => callers # <<>>)
    BY <1>2, <1>6, <1>10 DEF Turn
  <2>2. Begun(stack)' /\ Counts(calls, Len(ran))' /\ (Len(ran) <= handlers)'
    BY <2>1 DEF Begun, Counts
  <2>3. Room(q[L])'
    BY <1>5, <1>7, <2>1 DEF Room
  <2>4. Balance(q)'
    <3>1. Rest(callers, calls', q) /\ q[L] <= L * MaxNext + 1
      BY <1>1, <1>3, <1>9
    <3>2. \A j \in 1..(L - 1) : q[j] <= j * MaxNext
      BY <1>1
    <3> QED
      BY <2>1, <2>3, <3>1, <3>2 DEF Balance, Rest
  <2> QED
    BY <1>6, <1>7, <2>1, <2>2, <2>4 DEF IndexInv
<1>11. CASE i < handlers
  <2> DEFINE s == Append(callers, i)
             p == [j \in 0..(L + 1) |-> IF j <= L THEN q[j] ELSE q[L] + MaxNext + 1]
  <2>1. stack' = s /\ ran' = Append(ran, i) /\ pc' = "handler"
    <3>1. ~(i >= handlers) /\ i \in 0..(handlers - 1)
      BY <1>1, <1>6, <1>11
    <3> QED
      BY <1>2, <1>6, <3>1 DEF Turn
  <2>2. n = i /\ ~aborted
    BY <1>1, <1>2, <1>11 DEF InStep
  <2>3. /\ s \in Seq(Nat) /\ Len(s) = L + 1 /\ s[L + 1] = i
        /\ \A j \in 1..L : s[j] = callers[j]
        /\ Len(ran') = n + 1
    BY <1>1, <1>6, <2>1
  <2>4. \A j \in 1..(L + 1) : j \in 1..L \/ j = L + 1
    BY <1>1
  <2>5. Begun(stack)'
    <3>1. \A j \in 1..L : s[j] \in 0..(handlers - 1) /\ j <= s[j] + 1 /\ s[j] < i
      BY <1>1, <2>2, <2>3 DEF Begun
    <3>2. s[L + 1] \in 0..(handlers - 1) /\ L + 1 <= s[L + 1] + 1 /\ s[L + 1] < n + 1
      BY <1>1, <1>6, <1>8, <1>11, <2>2, <2>3
    <3>3. ASSUME NEW j \in 1..Len(s)
          PROVE  s[j] \in 0..(handlers - 1) /\ j <= s[j] + 1 /\ s[j] < n + 1
      <4>1. CASE j \in 1..L
        <5>1. s[j] \in 0..(handlers - 1) /\ j <= s[j] + 1 /\ s[j] < i
          BY <3>1, <4>1
        <5> HIDE DEF s, i
        <5> QED
          BY <1>1, <2>2, <5>1
      <4>2. CASE j = L + 1
        BY <3>2, <4>2
      <4> HIDE DEF s
      <4> QED
        BY <2>3, <2>4, <4>1, <4>2
    <3>4. ASSUME NEW j \in 1..Len(s), NEW k \in 1..Len(s), j < k PROVE s[j] < s[k]
      <4>1. CASE k \in 1..L
        <5>1. j \in 1..L
          BY <1>1, <3>4, <4>1
        <5> QED
          BY <2>3, <3>4, <4>1, <5>1 DEF Begun
      <4>2. CASE k = L + 1
        <5>1. j \in 1..L
          BY <1>1, <2>3, <3>4, <4>2
        <5> QED
          BY <2>3, <3>1, <4>2, <5>1
      <4> QED
        BY <2>3, <2>4, <4>1, <4>2
    <3> HIDE DEF s, i
    <3> QED
      BY <2>1, <2>3, <3>3, <3>4 DEF Begun
  <2>6. Counts(calls, Len(ran))' /\ (Len(ran) <= handlers)'
    BY <1>1, <1>11, <2>2, <2>3 DEF Counts
  <2>7. calls'[i] = 0
    BY <1>1, <1>6, <1>11, <2>2 DEF Counts
  <2>8. Rest(s, calls', p)
    <3>1. p \in [0..(L + 1) -> Nat] /\ p[0] = 0
      BY <1>1, <1>3
    <3>2. ASSUME NEW j \in 1..(L + 1)
          PROVE  p[j] = p[j - 1] + (MaxNext - calls'[s[j]]) + 1 /\ j <= p[j]
      <4>1. CASE j \in 1..L
        <5>1. p[j] = q[j] /\ p[j - 1] = q[j - 1] /\ s[j] = callers[j]
          BY <1>1, <2>3, <4>1
        <5> QED
          BY <4>1, <5>1 DEF Rest
      <4>2. CASE j = L + 1
        <5>1. p[j] = q[L] + MaxNext + 1 /\ p[j - 1] = q[L]
          BY <1>1, <4>2
        <5>2. L <= q[L]
          <6>1. CASE L = 0
            BY <1>3, <6>1
          <6>2. CASE L # 0
            BY <1>1, <6>2 DEF Rest
          <6> QED
            BY <6>1, <6>2
        <5> QED
          BY <1>1, <1>3, <2>3, <2>7, <4>2, <5>1, <5>2
      <4> QED
        BY <2>4, <4>1, <4>2
    <3> HIDE DEF p, s
    <3> QED
      BY <2>3, <3>1, <3>2 DEF Rest
  <2>9. Balance(p)'
    <3>1. \A j \in 1..L : p[j] <= j * MaxNext
      BY <1>1
    <3>3. p[L + 1] = q[L] + MaxNext + 1
      BY <1>1
    <3>4. /\ L * MaxNext \in Nat
          /\ (L + 1) * MaxNext = L * MaxNext + MaxNext
      BY <1>1, Products
    <3>5. p[L + 1] <= (L + 1) * MaxNext + 1
      BY <1>1, <1>3, <1>9, <3>3, <3>4
    <3>6. (n + 1) * (MaxNext + 1) = n * (MaxNext + 1) + (MaxNext + 1)
      BY <1>1, Products
    <3>7. i + p[L + 1] <= (n + 1) * (MaxNext + 1)
      BY <1>1, <1>3, <1>4, <1>5, <1>6, <2>2, <3>3, <3>6
    <3> HIDE DEF p, s, i
    <3>8. Room(p[L + 1])'
      BY <1>7, <2>2, <2>3, <3>7 DEF Room
    <3> QED
      BY <1>1, <2>1, <2>3, <2>8, <3>1, <3>5, <3>8 DEF Balance
  <2>10. stack' # <<>>
    <3>1. Len(stack') # 0
      BY <1>1, <2>1, <2>3
    <3> QED
      BY <3>1
  <2> HIDE DEF p
  <2> QED
    BY <1>6, <1>7, <2>1, <2>5, <2>6, <2>9, <2>10 DEF IndexInv
<1> QED
  BY <1>1, <1>10, <1>11

LEMMA IndexInit == Init => IndexInv
<1> SUFFICES ASSUME Init, Short PROVE IndexInv
  BY DEF IndexInv
<1>1. /\ index = -1 /\ stack = <<>> /\ ran = <<>> /\ ~aborted /\ pc = "next"
      /\ calls = [h \in 0..(handlers - 1) |-> 0] /\ Len(stack) = 0 /\ Len(ran) = 0
  BY DEF Init, NoCalls, Short
<1>2. MaxNext \in Nat /\ handlers \in Nat
  <2>1. TypeOK
    BY TypeInit
  <2> QED
    BY <2>1, RouterAssumption DEF TypeOK
<1>3. Begun(stack) /\ Counts(calls, Len(ran)) /\ Len(ran) <= handlers
  BY <1>1, <1>2 DEF Begun, Counts
<1> DEFINE p == [j \in 0..0 |-> 0]
<1>4. p \in [0..0 -> Nat] /\ p[0] = 0
  OBVIOUS
<1>5. 0 * MaxNext = 0 /\ 0 * (MaxNext + 1) = 0
  BY <1>2
<1> HIDE DEF p
<1>6. Balance(p)
  BY <1>1, <1>4, <1>5 DEF Balance, Rest, Room
<1> QED
  BY <1>1, <1>3, <1>6 DEF IndexInv

\* While handlers are executed, their turns leave room for one more.
LEMMA RestPositive ==
    ASSUME TypeOK, stack # <<>>, NEW p, Balance(p)
    PROVE  /\ Len(stack) \in Nat /\ Len(stack) > 0
           /\ p[Len(stack)] \in Nat /\ p[Len(stack) - 1] \in Nat
           /\ p[Len(stack)] = p[Len(stack) - 1] + (MaxNext - calls[Top]) + 1
           /\ p[Len(stack)] >= 1
<1>1. Len(stack) \in Nat /\ Len(stack) > 0
  BY DEF TypeOK
<1>2. Len(stack) \in 1..Len(stack) /\ Len(stack) \in 0..Len(stack) /\ Len(stack) - 1 \in 0..Len(stack)
  BY <1>1
<1> QED
  BY <1>1, <1>2 DEF Balance, Rest, Top

\* Each turn of a loop, from the handler that takes it.
LEMMA IndexTurns ==
    ASSUME TypeOK, ChainInv, Short, IndexInv, FirstNext \/ RouterSlicesNext \/ HandlerReturns
    PROVE  IndexInv'
<1>1. MaxNext \in Nat /\ handlers \in Nat /\ stack \in Seq(Nat) /\ index \in Int /\ ran \in Seq(Nat)
  BY RouterAssumption DEF TypeOK
<1> USE DEF conf
<1>2. CASE FirstNext
  <2>1. /\ Turn(<<>>) /\ UNCHANGED <<mode, handlers, recovery, aborted, calls>>
        /\ <<>> \in Seq(Nat) /\ index = -1 /\ ran = <<>> /\ ~aborted /\ pc = "next"
        /\ Len(ran) = 0
    BY <1>2 DEF FirstNext, ChainInv, Short
  <2> DEFINE q == [j \in 0..0 |-> 0]
  <2>2. q \in [0..0 -> Nat] /\ q[0] = 0 /\ Len(<<>>) = 0
    OBVIOUS
  <2> HIDE DEF q
  <2>3. Rest(<<>>, calls', q) /\ Begun(<<>>)
    BY <2>2 DEF Rest, Begun
  <2>4. Counts(calls', Len(ran)) /\ Len(ran) <= handlers /\ index >= -1
    BY <2>1 DEF IndexInv, Counts
  <2>5. Room(q[0] + 1)
    BY <1>1, <2>1, <2>2 DEF Room
  <2>6. \A j \in 1..Len(<<>>) : q[j] <= j * MaxNext
    OBVIOUS
  <2> QED
    BY <2>1, <2>2, <2>3, <2>4, <2>5, <2>6, TurnIndex
<1>3. ASSUME RouterSlicesNext \/ HandlerReturns PROVE IndexInv'
  <2> DEFINE L == Len(stack)
             c == calls[Top]
  <2>1. /\ UNCHANGED <<mode, handlers, recovery, aborted>> /\ pc = "handler"
        /\ InStep /\ stack # <<>>
    BY <1>3 DEF RouterSlicesNext, HandlerReturns, ChainInv, Short, IndexInv
  <2>2. /\ Begun(stack) /\ Counts(calls, Len(ran)) /\ Len(ran) <= handlers /\ index >= -1
    BY <2>1 DEF IndexInv
  <2>3. PICK p : Balance(p)
    BY <2>1 DEF IndexInv
  <2>4. /\ L \in Nat /\ L > 0 /\ p[L] \in Nat /\ p[L - 1] \in Nat
        /\ p[L] = p[L - 1] + (MaxNext - c) + 1
    BY <2>1, <2>3, RestPositive
  <2>5. Top \in 0..(handlers - 1) /\ Top < Len(ran) /\ c \in 0..MaxNext
    BY <2>2, <2>4 DEF Begun, Counts, Top
  <2>6. Room(p[L]) /\ p[L] <= L * MaxNext + 1
    BY <2>3 DEF Balance
  <2>7. \A j \in 1..(L - 1) : p[j] <= j * MaxNext /\ stack[j] # Top /\ stack[j] \in 0..(handlers - 1)
    <3>1. \A j \in 1..(L - 1) : stack[j] < Top
      BY <2>2, <2>4 DEF Begun, Top
    <3>2. \A j \in 1..(L - 1) : stack[j] \in 0..(handlers - 1)
      BY <2>2, <2>4 DEF Begun
    <3> QED
      BY <2>3, <2>5, <3>1, <3>2 DEF Balance
  <2>8. /\ p \in [0..L -> Nat] /\ p[0] = 0
        /\ \A j \in 1..L : p[j] = p[j - 1] + (MaxNext - calls[stack[j]]) + 1 /\ j <= p[j]
    BY <2>3 DEF Balance, Rest
  <2>9. L * MaxNext \in Nat
    BY <1>1, <2>4, Products
  <2>10. CASE RouterSlicesNext
    <3> DEFINE q == [p EXCEPT ![L] = @ - 1]
    <3>1. Turn(stack) /\ calls' = [calls EXCEPT ![Top] = @ + 1] /\ c < MaxNext
      <4>1. c < IF InRecovery THEN 1 ELSE MaxNext
        BY <2>10 DEF RouterSlicesNext
      <4>2. InRecovery => MaxNext > 0
        BY DEF InRecovery, Short
      <4> QED
        BY <1>1, <2>5, <2>10, <4>1, <4>2 DEF RouterSlicesNext
    <3>2. q[L] = p[L] - 1 /\ q[L] \in Nat /\ \A j \in 0..(L - 1) : q[j] = p[j]
      <4>1. p \in [0..L -> Nat] /\ L \in 0..L /\ \A j \in 0..(L - 1) : j \in 0..L /\ j # L
        BY <2>4, <2>8
      <4>2. q[L] = p[L] - 1 /\ \A j \in 0..(L - 1) : q[j] = p[j]
        BY <4>1
      <4> HIDE DEF q, c, L
      <4> QED
        BY <1>1, <2>4, <2>5, <3>1, <4>2
    <3>3. q \in [0..L -> Nat] /\ q[0] = 0
      BY <2>4, <2>8, <3>2
    <3>4. Counts(calls', Len(ran))
      <4>1. calls \in [0..(handlers - 1) -> 0..MaxNext]
        BY <2>2 DEF Counts
      <4>2. c + 1 \in 0..MaxNext
        BY <1>1, <2>5, <3>1
      <4>3. calls' \in [0..(handlers - 1) -> 0..MaxNext]
        BY <2>5, <3>1, <4>1, <4>2
      <4>4. ASSUME NEW h \in 0..(handlers - 1), h >= Len(ran) PROVE calls'[h] = 0
        <5>1. h # Top
          BY <1>1, <2>5, <4>4
        <5> QED
          BY <2>2, <3>1, <4>1, <4>4, <5>1 DEF Counts
      <4> QED
        BY <4>3, <4>4 DEF Counts
    <3>5. calls'[Top] = c + 1 /\ \A j \in 1..(L - 1) : calls'[stack[j]] = calls[stack[j]]
      BY <2>2, <2>5, <2>7, <3>1 DEF Counts
    <3>6. ASSUME NEW j \in 1..L
          PROVE  /\ q[j] = q[j - 1] + (MaxNext - calls'[stack[j]]) + 1
                 /\ j <= q[j] /\ q[j] <= j * MaxNext
      <4>1. CASE j \in 1..(L - 1)
        <5>1. q[j] = p[j] /\ q[j - 1] = p[j - 1] /\ j \in 1..L
          BY <2>4, <3>2, <4>1
        <5> HIDE DEF q
        <5> QED
          BY <2>7, <2>8, <3>5, <4>1, <5>1
      <4>2. CASE j = L
        <5>1. q[j] = p[L] - 1 /\ q[j - 1] = p[L - 1] /\ stack[j] = Top
          BY <2>4, <3>2, <4>2 DEF Top
        <5>2. L - 1 <= p[L - 1]
          <6>1. CASE L = 1
            BY <2>8, <6>1
          <6>2. CASE L # 1
            BY <2>4, <2>8, <6>2
          <6> QED
            BY <6>1, <6>2
        <5>3. calls'[stack[j]] = c + 1 /\ c \in Nat
          BY <2>5, <3>5, <5>1
        <5> HIDE DEF q, c, L
        <5>4. q[j] = q[j - 1] + (MaxNext - calls'[stack[j]]) + 1
          <6>1. p[L] - 1 = p[L - 1] + (MaxNext - (c + 1)) + 1
            <7> DEFINE a == p[L]
                       b == p[L - 1]
            <7>1. a \in Nat /\ b \in Nat /\ a = b + (MaxNext - c) + 1
              BY <2>4
            <7> HIDE DEF a, b
            <7>2. a - 1 = b + (MaxNext - (c + 1)) + 1
              BY <1>1, <5>3, <7>1
            <7> QED
              BY <7>2 DEF a, b
          <6> QED
            BY <5>1, <5>3, <6>1
        <5>5. j <= q[j]
          BY <1>1, <2>4, <3>1, <4>2, <5>1, <5>2, <5>3
        <5>6. q[j] <= L * MaxNext
          BY <2>4, <2>6, <2>9, <5>1
        <5> QED
          BY <4>2, <5>4, <5>5, <5>6
      <4> QED
        BY <2>4, <4>1, <4>2
    <3> HIDE DEF q
    <3>7. Rest(stack, calls', q)
      BY <3>3, <3>6 DEF Rest
    <3>8. Room(q[L] + 1)
      BY <2>4, <2>6, <3>2
    <3> QED
      BY <1>1, <2>1, <2>2, <3>1, <3>4, <3>6, <3>7, <3>8, TurnIndex
  <2>11. CASE HandlerReturns
    <3> DEFINE q == [j \in 0..(L - 1) |-> p[j]]
    <3>1. Turn(Below) /\ calls' = calls
      BY <2>11 DEF HandlerReturns
    <3>2. /\ Below \in Seq(Nat) /\ Len(Below) = L - 1
          /\ \A j \in 1..(L - 1) : Below[j] = stack[j]
      <4>1. \A j \in 1..(L - 1) : stack[j] \in Nat
        BY <1>1, <2>4
      <4>2. Below = SubSeq(stack, 1, L - 1)
        BY DEF Below
      <4> HIDE DEF L
      <4>3. /\ Below \in Seq(Nat)
            /\ Len(Below) = IF 1 <= L - 1 THEN (L - 1) - 1 + 1 ELSE 0
            /\ \A j \in 1..((L - 1) - 1 + 1) : Below[j] = stack[1 + j - 1]
        <5>1. L - 1 \in Int /\ 1 \in Int
          BY <2>4
        <5> QED
          BY <4>1, <4>2, <5>1, SubSeqProperties
      <4>4. (L - 1) - 1 + 1 = L - 1 /\ \A j \in 1..(L - 1) : 1 + j - 1 = j
        BY <2>4
      <4> QED
        BY <2>4, <4>3, <4>4
    <3>3. q \in [0..(L - 1) -> Nat] /\ q[0] = 0 /\ \A j \in 0..(L - 1) : q[j] = p[j]
      BY <2>4, <2>8
    <3> HIDE DEF q
    <3>4. Rest(Below, calls', q)
      BY <2>4, <2>8, <3>1, <3>2, <3>3 DEF Rest
    <3>5. Begun(Below)
      <4>1. \A j \in 1..(L - 1) : j \in 1..L
        BY <2>4
      <4> HIDE DEF L
      <4>2. \A j \in 1..(L - 1) :
              Below[j] \in 0..(handlers - 1) /\ j <= Below[j] + 1 /\ Below[j] < Len(ran)
        BY <2>2, <3>2, <4>1 DEF Begun, L
      <4>3. \A j, k \in 1..(L - 1) : j < k => Below[j] < Below[k]
        BY <2>2, <3>2, <4>1 DEF Begun, L
      <4> QED
        BY <3>2, <4>2, <4>3 DEF Begun
    <3>6. Room(q[L - 1] + 1)
      <4>1. q[L - 1] + 1 <= p[L] /\ q[L - 1] \in Nat
        <5>1. q[L - 1] = p[L - 1]
          BY <2>4, <3>3
        <5> HIDE DEF L, c
        <5> QED
          BY <1>1, <2>4, <2>5, <5>1
      <4>2. index + p[L] <= IF aborted THEN handlers * (MaxNext + 1) + 1 ELSE Len(ran) * (MaxNext + 1)
        BY <2>6 DEF Room
      <4>3. handlers * (MaxNext + 1) \in Nat /\ Len(ran) * (MaxNext + 1) \in Nat
        <5>1. MaxNext + 1 \in Nat /\ Len(ran) \in Nat
          BY <1>1
        <5> QED
          BY <1>1, <5>1, Products
      <4> DEFINE limit == IF aborted THEN handlers * (MaxNext + 1) + 1 ELSE Len(ran) * (MaxNext + 1)
                 a == q[L - 1]
                 b == p[L]
      <4>4. limit \in Nat /\ index + b <= limit /\ a + 1 <= b /\ a \in Nat /\ b \in Nat
        BY <2>4, <4>1, <4>2, <4>3
      <4> HIDE DEF limit, a, b
      <4>5. index + (a + 1) <= limit
        BY <1>1, <4>4
      <4> QED
        BY <4>5 DEF Room, limit, a
    <3>7. ASSUME NEW j \in 1..Len(Below) PROVE q[j] <= j * MaxNext
      <4>1. j \in 1..(L - 1) /\ q[j] = p[j]
        BY <2>4, <3>2, <3>3
      <4>2. p[j] <= j * MaxNext
        BY <2>7, <4>1
      <4> QED
        BY <4>1, <4>2
    <3>8. Counts(calls', Len(ran))
      BY <2>2, <3>1
    <3> QED
      BY <2>1, <2>2, <3>1, <3>2, <3>4, <3>5, <3>6, <3>7, <3>8, TurnIndex
  <2> QED
    BY <1>3, <2>10, <2>11
<1> QED
  BY <1>2, <1>3

LEMMA IndexStep ==
    ASSUME TypeOK, TypeOK', ChainInv, mode = "slices", IndexInv, [Next]_vars
    PROVE  IndexInv'
<1>0. pc \in {"next", "handler", "panic", "returned", "died"}
  BY DEF ChainInv
<1>1. /\ MaxNext \in Nat /\ handlers \in Nat /\ handlers' \in Nat /\ index \in Int
      /\ aborted \in BOOLEAN
  BY RouterAssumption DEF TypeOK
<1> USE DEF conf, field
<1> SUFFICES ASSUME Short' PROVE IndexInv'
  BY DEF IndexInv
<1>2. CASE FirstNext \/ RouterSlicesNext \/ HandlerReturns
  <2>1. Short
    BY <1>2 DEF Short, FirstNext, RouterSlicesNext, HandlerReturns
  <2> QED
    BY <1>2, <2>1, IndexTurns
<1>3. CASE Unwind
  <2>1. /\ UNCHANGED <<mode, handlers, recovery, aborted, calls>> /\ pc = "panic"
    BY <1>3 DEF Unwind
  <2>2. Short
    BY <2>1 DEF Short
  <2>3. /\ stack # <<>> /\ index >= -1 /\ Counts(calls, Len(ran)) /\ Len(ran) <= handlers
    BY <2>1, <2>2 DEF IndexInv
  <2>4. CASE recovery /\ stack # <<>> /\ stack[1] = 0
    <3>1. Turn(<<>>) /\ <<>> \in Seq(Nat)
      BY <1>3, <2>4 DEF Unwind
    <3>2. PICK p : Balance(p)
      BY <2>1, <2>2 DEF IndexInv
    <3>3. p[Len(stack)] \in Nat /\ p[Len(stack)] >= 1 /\ Room(p[Len(stack)])
      BY <2>3, <3>2, RestPositive DEF Balance
    <3>4. handlers * (MaxNext + 1) \in Nat /\ Len(ran) * (MaxNext + 1) \in Nat
      <4>1. MaxNext + 1 \in Nat /\ Len(ran) \in Nat
        BY <1>1 DEF TypeOK
      <4> QED
        BY <1>1, <4>1, Products
    <3>5. Room(1)
      BY <1>1, <3>3, <3>4 DEF Room
    <3> DEFINE q == [j \in 0..0 |-> 0]
    <3>6. q \in [0..0 -> Nat] /\ q[0] = 0 /\ Len(<<>>) = 0 /\ q[0] + 1 = 1
      OBVIOUS
    <3> HIDE DEF q
    <3>7. Rest(<<>>, calls', q) /\ Begun(<<>>)
      BY <3>6 DEF Rest, Begun
    <3>8. \A j \in 1..Len(<<>>) : q[j] <= j * MaxNext
      OBVIOUS
    <3>9. InStep
      <4>1. ~Wrapped
        BY <1>1, <2>2, <2>3, ShortBounds, RouterAssumption DEF Wrapped, Short
      <4> QED
        BY <2>1, <4>1 DEF ChainInv
    <3> QED
      BY <2>1, <2>2, <2>3, <3>1, <3>5, <3>6, <3>7, <3>8, <3>9, TurnIndex
  <2>5. CASE ~(recovery /\ stack # <<>> /\ stack[1] = 0)
    <3>1. pc' = "died" /\ index' = index
      BY <1>3, <2>5 DEF Unwind
    <3> QED
      BY <2>3, <3>1 DEF IndexInv
  <2> QED
    BY <2>4, <2>5
<1>4. CASE HandlerAbort
  <2>1. /\ index' = Int8(handlers) /\ aborted' = TRUE /\ pc = "handler"
        /\ UNCHANGED <<mode, handlers, recovery, pc, stack, ran, calls>>
    BY <1>4 DEF HandlerAbort, Abort
  <2>2. Short
    BY <2>1 DEF Short
  <2>3. index' = handlers
    BY <2>1, <2>2, ShortBounds
  <2>4. Begun(stack) /\ Counts(calls, Len(ran)) /\ Len(ran) <= handlers /\ stack # <<>>
    BY <2>1, <2>2 DEF IndexInv
  <2>5. PICK p : Balance(p)
    BY <2>1, <2>2 DEF IndexInv
  <2> DEFINE L == Len(stack)
  <2>6. L \in Nat /\ L > 0 /\ p[L] \in Nat /\ p[L] <= L * MaxNext + 1
    BY <2>4, <2>5, RestPositive DEF Balance
  <2>7. L <= handlers
    <3>1. L <= stack[L] + 1 /\ stack[L] \in 0..(handlers - 1)
      BY <2>4, <2>6 DEF Begun
    <3> QED
      BY <1>1, <2>6, <3>1
  <2>8. /\ L * MaxNext \in Nat /\ handlers * MaxNext \in Nat
        /\ L * MaxNext <= handlers * MaxNext
        /\ handlers * (MaxNext + 1) = handlers * MaxNext + handlers
    BY <1>1, <2>6, <2>7, Products
  <2>9. Room(p[L])'
    <3>1. handlers + p[L] <= handlers * (MaxNext + 1) + 1
      BY <1>1, <2>6, <2>8
    <3> QED
      BY <2>1, <2>3, <3>1 DEF Room
  <2>10. Balance(p)'
    BY <2>1, <2>5, <2>9 DEF Balance, Rest
  <2>11. Begun(stack)' /\ Counts(calls, Len(ran))' /\ (Len(ran) <= handlers)'
    BY <2>1, <2>4 DEF Begun, Counts
  <2> QED
    BY <1>1, <2>1, <2>3, <2>4, <2>10, <2>11 DEF IndexInv
<1>5. CASE HandlerPanic
  <2>1. /\ pc' = "panic" /\ pc = "handler"
        /\ UNCHANGED <<mode, handlers, recovery, index, stack, ran, calls, aborted>>
    BY <1>5 DEF HandlerPanic
  <2>2. Short
    BY <2>1 DEF Short
  <2>3. \A p : Balance(p) => Balance(p)'
    BY <2>1 DEF Balance, Rest, Room
  <2>4. \E p : Balance(p)'
    BY <2>1, <2>2, <2>3 DEF IndexInv
  <2>5. Begun(stack)' /\ Counts(calls, Len(ran))'
    BY <2>1, <2>2 DEF IndexInv, Begun, Counts
  <2> QED
    BY <2>1, <2>2, <2>4, <2>5 DEF IndexInv
<1>6. CASE Recycle
  <2>1. /\ pc' = "next" /\ index' = -1 /\ ran' = <<>> /\ aborted' = FALSE
        /\ calls' = [h \in 0..(handlers' - 1) |-> 0] /\ stack' = <<>>
        /\ Len(stack') = 0 /\ Len(ran') = 0
    BY <1>6 DEF Recycle, Reset, ChainInv, NoCalls
  <2>2. Begun(stack)' /\ Counts(calls, Len(ran))' /\ (Len(ran) <= handlers)'
    <3>1. Begun(stack)'
      BY <2>1 DEF Begun
    <3>2. calls' \in [0..(handlers' - 1) -> 0..MaxNext]
      <4>1. 0 \in 0..MaxNext
        BY <1>1
      <4> QED
        BY <2>1, <4>1
    <3>3. \A h \in 0..(handlers' - 1) : calls'[h] = 0
      BY <2>1
    <3>4. Counts(calls, Len(ran))'
      BY <3>2, <3>3 DEF Counts
    <3>5. (Len(ran) <= handlers)'
      BY <1>1, <2>1
    <3> QED
      BY <3>1, <3>4, <3>5
  <2> DEFINE p == [j \in 0..0 |-> 0]
  <2>3. p \in [0..0 -> Nat] /\ p[0] = 0 /\ 0 * MaxNext = 0 /\ 0 * (MaxNext + 1) = 0
    BY <1>1
  <2> HIDE DEF p
  <2>4. Balance(p)'
    BY <2>1, <2>3 DEF Balance, Rest, Room
  <2> QED
    BY <2>1, <2>2, <2>4 DEF IndexInv
<1>7. ~HelperAbort /\ ~StartHelper /\ \A step : ~HandlerGoto(step) /\ ~HelperGoto(step)
  BY DEF ChainInv, HelperAbort, StartHelper, HandlerGoto, HelperGoto, Goto
<1>8. ~(Loop \/ Switch \/ StepReturns \/ TestNeedNext \/ next)
  BY <1>0 DEF Loop, Switch, StepReturns, TestNeedNext, next
<1>9. CASE UNCHANGED vars
  <2>1. UNCHANGED <<mode, handlers, recovery, index, stack, ran, calls, aborted, pc>>
    BY <1>9 DEF vars, history
  <2>2. Short
    BY <2>1 DEF Short
  <2>3. \A p : Balance(p) => Balance(p)'
    BY <2>1 DEF Balance, Rest, Room
  <2>4. (\E p : Balance(p)) => \E p : Balance(p)'
    BY <2>3
  <2>5. /\ Begun(stack) => Begun(stack)'
        /\ Counts(calls, Len(ran)) => Counts(calls, Len(ran))'
    BY <2>1 DEF Begun, Counts
  <2> QED
    BY <2>1, <2>2, <2>4, <2>5 DEF IndexInv
<1> QED
  BY <1>2, <1>3, <1>4, <1>5, <1>6, <1>7, <1>8, <1>9 DEF Next

-----------------------------------------------------------------------------
(* The three together, in both modes.                                      *)

FullInv == IInv /\ FirstInv /\ OrderInv /\ CountInv /\ RanAllInv /\ IndexInv

LEMMA FullInit == Init => FullInv
BY IInvInit, OrderInit, RanAllInit, IndexInit DEF FullInv

LEMMA FullStep == FullInv /\ [Next]_vars => FullInv' /\ Begins
<1> SUFFICES ASSUME FullInv, [Next]_vars PROVE FullInv' /\ Begins
  OBVIOUS
<1>1. IInv' /\ TypeOK' /\ TypeOK
  BY IInvStep DEF FullInv, IInv
<1>2. mode' = mode
  BY DEF Next, vars, conf, field, history, FirstNext, RouterSlicesNext, HandlerReturns,
         Unwind, Loop, Switch, StepReturns, TestNeedNext, next, HandlerGoto, HelperGoto,
         Goto, HandlerAbort, HelperAbort, Abort, StartHelper, HandlerPanic, Recycle
<1>3. CASE mode = "slices"
  <2>1. RanAllInv' /\ IndexInv'
    BY <1>1, <1>3, RanAllStep, IndexStep DEF FullInv, IInv
  <2> QED
    BY <1>1, <1>2, <1>3, <2>1 DEF FullInv, FirstInv, OrderInv, CountInv, Begins
<1>4. CASE mode = "steps"
  <2>1. FirstInv' /\ OrderInv' /\ CountInv' /\ Begins
    BY <1>4, OrderStep DEF FullInv, IInv
  <2> QED
    BY <1>1, <1>2, <1>4, <2>1 DEF FullInv, RanAllInv, IndexInv, Short
<1> QED
  BY <1>1, <1>3, <1>4 DEF TypeOK

LEMMA FullInvariance == Spec => []FullInv
BY FullInit, FullStep, PTL DEF Spec

\* A request that ends undisturbed has run its whole chain, or its three steps, also on
\* an object served before.
THEOREM AllRun == Spec => []Complete
<1>1. FullInv => Complete
  <2> SUFFICES ASSUME FullInv, pc = "returned", ~aborted, ~panicked, gotos = 0,
                      handlers <= MaxInt8
               PROVE  Len(ran) = IF mode = "slices" THEN handlers ELSE 3
    BY DEF Complete
  <2>1. mode = "slices" => Len(ran) = handlers
    BY DEF FullInv, RanAllInv
  <2>2. mode = "steps" => Len(ran) = 3
    BY DEF FullInv, CountInv, HANDLE_OVER
  <2> QED
    BY <2>1, <2>2 DEF FullInv, IInv, TypeOK
<1>2. QED
  BY <1>1, FullInvariance, PTL

\* The index of a chain short enough never wraps, whatever its handlers call: the loop
\* never indexes the handlers with a negative number.
THEOREM IndexInRange == Spec => []IndexFits
<1>1. FullInv => IndexFits
  <2> SUFFICES ASSUME FullInv, handlers * (MaxNext + 1) < MaxInt8, recovery => MaxNext > 0
               PROVE  index >= -1
    BY DEF IndexFits
  <2>1. mode = "slices" => index >= -1
    BY DEF FullInv, IndexInv, Short
  <2>2. mode = "steps" => index >= -1
    BY DEF FullInv, IInv, StepsInv
  <2> QED
    BY <2>1, <2>2 DEF FullInv, IInv, TypeOK
<1>2. QED
  BY <1>1, FullInvariance, PTL

\* Steps begin in the order that Goto and next determine, with a goroutine of the request
\* setting the fields between any two steps of Call.
THEOREM StepsInOrder == Spec => StepOrder
<1>1. FullInv /\ [Next]_vars =>
          [mode = "steps" /\ ~raced /\ ran' # ran /\ ran' # <<>> =>
               ran'[Len(ran')] = CASE target # -1 -> target
                                   [] ran = <<>> -> PRE_HANDLE
                                   [] OTHER -> ran[Len(ran)] + 1]_vars
  BY FullStep DEF Begins, Expected, LastStep
<1>2. QED
  BY <1>1, FullInvariance, PTL DEF Spec, StepOrder
=============================================================================
