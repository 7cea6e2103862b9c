------------------------------- MODULE Router --------------------------------
(***************************************************************************)
(* How one request object of gray runs its handlers, in the two modes of   *)
(* GlobalObject.RouterSlicesMode:                                          *)
(*   slices  RouterSlicesNext runs a chain of handlers, each of which may  *)
(*           call RouterSlicesNext itself; the position is an int8;        *)
(*   steps   Call runs PreHandle, Handle and PostHandle of an IRouter; Goto  *)
(*           and Abort move between them, also from a goroutine that a      *)
(*           handler has started (they take stepLock).                     *)
(* With RequestPool the object then serves another request.                *)
(***************************************************************************)
EXTENDS Integers, Sequences

CONSTANTS
    MaxInt8,       \* the largest index: 127
    ChainLengths,  \* numbers of handlers in a chain, to consider
    MaxNext,       \* bound: calls of RouterSlicesNext by one handler
    MaxGoto,       \* bound: calls of Goto during one request
    MaxRequests    \* bound: requests served by the object

ASSUME RouterAssumption ==
    /\ MaxInt8 \in Nat \ {0}
    /\ ChainLengths \subseteq Nat
    /\ MaxNext \in Nat /\ MaxGoto \in Nat /\ MaxRequests \in Nat

PRE_HANDLE == 0
HANDLE == 1
POST_HANDLE == 2
HANDLE_OVER == 3
Steps == {PRE_HANDLE, HANDLE, POST_HANDLE}

\* int8(k).
Int8(k) == ((k + MaxInt8 + 1) % (2 * (MaxInt8 + 1))) - MaxInt8 - 1

VARIABLES
    mode,      \* "slices" or "steps"
    handlers,  \* number of handlers of the chain: len(r.handlers)
    recovery,  \* is the first of them RouterRecovery?
    index,     \* Request.index
    steps,     \* Request.steps
    needNext,  \* Request.needNext
    pc,        \* where Call or RouterSlicesNext is
    stack,     \* the handlers being executed, the innermost last
    helper,    \* the goroutine a step has started: "none", "runs" or "over"
    served,    \* requests served before this one
    ran,       \* history: the handlers or steps begun, in order
    calls,     \* history: calls[h], those of RouterSlicesNext by handler h
    gotos,     \* history: calls of Goto
    target,    \* history: the step Goto was last called for and not yet begun, or -1
    aborted,   \* history: Abort was called, and Goto not since
    panicked,  \* history: a handler has panicked
    raced      \* history: the helper has called Goto

field == <<index, steps, needNext>>
conf == <<mode, handlers, recovery>>
history == <<ran, calls, gotos, target, aborted, panicked, raced>>
vars == <<conf, field, pc, stack, helper, served, history>>

NoCalls(n) == [h \in 0..(n - 1) |-> 0]

\* A new request object, bound to its handlers; allocateRequest.
Init ==
    /\ mode \in {"slices", "steps"}
    /\ handlers \in ChainLengths
    /\ recovery \in BOOLEAN
    /\ mode = "steps" => handlers = 0 /\ ~recovery
    /\ recovery => handlers > 0
    /\ index = -1 /\ steps = PRE_HANDLE /\ needNext = TRUE
    /\ pc = IF mode = "slices" THEN "next" ELSE "loop"
    /\ stack = <<>>
    /\ helper = "none"
    /\ served = 0
    /\ ran = <<>> /\ calls = NoCalls(handlers) /\ gotos = 0
    /\ target = -1 /\ aborted = FALSE /\ panicked = FALSE /\ raced = FALSE

-----------------------------------------------------------------------------
(* The chain of handlers.                                                  *)

Top == stack[Len(stack)]
Below == SubSeq(stack, 1, Len(stack) - 1)

\* r.index++ on an int8.
Inc(i) == IF i = MaxInt8 THEN -MaxInt8 - 1 ELSE i + 1

\* Mutant of Turn: the position is local to each loop.
Turn_local(callers) ==
    LET i == IF Len(callers) < Len(stack) THEN Top + 1 ELSE Inc(index)
        done == i >= Int8(handlers)
        valid == i \in 0..(handlers - 1)
    IN  /\ index' = i
        /\ stack' = IF ~done /\ valid THEN Append(callers, i) ELSE callers
        /\ ran' = IF ~done /\ valid THEN Append(ran, i) ELSE ran
        /\ pc' = CASE done /\ callers = <<>> -> "returned"
                   [] ~done /\ ~valid -> "panic"
                   [] OTHER -> "handler"

\* A turn of the loop of RouterSlicesNext, called by the last of callers: the next
\* handler begins, the loop is over, or the index is negative and Go panics.
Turn(callers) ==
    LET i == Inc(index)
        done == i >= Int8(handlers)
        valid == i \in 0..(handlers - 1)
    IN  /\ index' = i
        /\ stack' = IF ~done /\ valid THEN Append(callers, i) ELSE callers
        /\ ran' = IF ~done /\ valid THEN Append(ran, i) ELSE ran
        /\ pc' = CASE done /\ callers = <<>> -> "returned"
                   [] ~done /\ ~valid -> "panic"
                   [] OTHER -> "handler"

\* doMsgHandlerSlices calls RouterSlicesNext.
FirstNext ==
    /\ pc = "next"
    /\ Turn(<<>>)
    /\ UNCHANGED <<conf, steps, needNext, helper, served, calls, gotos, target, aborted,
                   panicked, raced>>

\* Is the innermost handler RouterRecovery?
InRecovery == recovery /\ Top = 0

\* A handler calls RouterSlicesNext, RouterRecovery once.
RouterSlicesNext ==
    /\ mode = "slices" /\ pc = "handler"
    /\ calls[Top] < (IF InRecovery THEN 1 ELSE MaxNext)
    /\ calls' = [calls EXCEPT ![Top] = @ + 1]
    /\ Turn(stack)
    /\ UNCHANGED <<conf, steps, needNext, helper, served, gotos, target, aborted, panicked,
                   raced>>

\* A handler returns; RouterRecovery does so after it has called RouterSlicesNext.
HandlerReturns ==
    /\ mode = "slices" /\ pc = "handler"
    /\ InRecovery => calls[0] = 1
    /\ Turn(Below)
    /\ UNCHANGED <<conf, steps, needNext, helper, served, calls, gotos, target, aborted,
                   panicked, raced>>

\* The handlers of a panic are unwound, up to RouterRecovery, which returns, or all.
Unwind ==
    /\ pc = "panic"
    /\ IF recovery /\ stack # <<>> /\ stack[1] = 0
         THEN Turn(<<>>)
         ELSE pc' = "died" /\ stack' = <<>> /\ UNCHANGED <<index, ran>>
    /\ UNCHANGED <<conf, steps, needNext, helper, served, calls, gotos, target, aborted,
                   panicked, raced>>

-----------------------------------------------------------------------------
(* The steps of an IRouter.                                                *)

\* The loop condition of Call; at the end steps is set back.
Loop ==
    /\ pc = "loop"
    /\ IF steps < HANDLE_OVER
         THEN pc' = "switch" /\ UNCHANGED steps
         ELSE pc' = "returned" /\ steps' = PRE_HANDLE
    /\ UNCHANGED <<conf, index, needNext, stack, helper, served, history>>

\* The switch reads steps again: the step may be over by now.
Switch ==
    /\ pc = "switch"
    /\ IF steps \in Steps
         THEN /\ pc' = "handler" /\ stack' = <<steps>>
              /\ ran' = Append(ran, steps) /\ target' = -1
         ELSE pc' = "needNext" /\ UNCHANGED <<stack, ran, target>>
    /\ UNCHANGED <<conf, field, helper, served, calls, gotos, aborted, panicked, raced>>

StepReturns ==
    /\ mode = "steps" /\ pc = "handler"
    /\ pc' = "needNext" /\ stack' = <<>>
    /\ UNCHANGED <<conf, field, helper, served, history>>

\* Mutant of TestNeedNext: the test is under stepLock, which the early return leaves
\* locked.
TestNeedNext_locked ==
    /\ pc = "needNext" /\ needNext
    /\ pc' = "add"
    /\ UNCHANGED <<conf, field, stack, helper, served, history>>

\* next() tests needNext without stepLock.
TestNeedNext ==
    /\ pc = "needNext"
    /\ pc' = IF needNext THEN "add" ELSE "loop"
    /\ needNext' = TRUE
    /\ UNCHANGED <<conf, index, steps, stack, helper, served, history>>

\* The end of next(), under stepLock.
next ==
    /\ pc = "add"
    /\ steps' = steps + 1
    /\ pc' = "loop"
    /\ UNCHANGED <<conf, index, needNext, stack, helper, served, history>>

\* Mutant of Goto: needNext is not set.
Goto_next(step) ==
    /\ mode = "steps" /\ gotos < MaxGoto
    /\ steps' = step
    /\ gotos' = gotos + 1
    /\ target' = step
    /\ aborted' = FALSE
    /\ UNCHANGED <<conf, index, needNext, pc, stack, served, ran, calls, panicked>>

\* A step, or Call's end, is chosen as the next one.
Goto(step) ==
    /\ mode = "steps" /\ gotos < MaxGoto
    /\ steps' = step /\ needNext' = FALSE
    /\ gotos' = gotos + 1
    /\ target' = step
    /\ aborted' = FALSE
    /\ UNCHANGED <<conf, index, pc, stack, served, ran, calls, panicked>>

\* Mutant of Abort: the index is set as Copy sets it.
Abort_max ==
    /\ IF mode = "slices"
         THEN index' = MaxInt8 /\ steps' = steps
         ELSE steps' = HANDLE_OVER /\ index' = index
    /\ aborted' = TRUE /\ target' = -1
    /\ UNCHANGED <<conf, needNext, pc, stack, served, ran, calls, gotos, panicked>>

\* Mutant of Abort: in steps mode it only goes on to the last step.
Abort_last ==
    /\ IF mode = "slices"
         THEN index' = Int8(handlers) /\ steps' = steps
         ELSE steps' = POST_HANDLE /\ index' = index
    /\ aborted' = TRUE /\ target' = -1
    /\ UNCHANGED <<conf, needNext, pc, stack, served, ran, calls, gotos, panicked>>

Abort ==
    /\ IF mode = "slices"
         THEN index' = Int8(handlers) /\ steps' = steps
         ELSE steps' = HANDLE_OVER /\ index' = index
    /\ aborted' = TRUE /\ target' = -1
    /\ UNCHANGED <<conf, needNext, pc, stack, served, ran, calls, gotos, panicked>>

\* A handler calls Goto or Abort.
HandlerGoto(step) == pc = "handler" /\ Goto(step) /\ UNCHANGED <<helper, raced>>

HandlerAbort ==
    /\ pc = "handler" /\ ~InRecovery /\ ~aborted
    /\ Abort
    /\ UNCHANGED <<helper, raced>>

\* A step starts a goroutine with the request.
StartHelper ==
    /\ mode = "steps" /\ pc = "handler" /\ helper = "none"
    /\ helper' = "runs"
    /\ UNCHANGED <<conf, field, pc, stack, served, history>>

\* The helper uses the request while Call runs, and ends.
HelperGoto(step) ==
    /\ helper = "runs" /\ pc # "returned"
    /\ Goto(step)
    /\ raced' = TRUE
    /\ helper' = "over"

HelperAbort ==
    /\ helper = "runs" /\ pc # "returned"
    /\ Abort
    /\ helper' = "over"
    /\ UNCHANGED raced

-----------------------------------------------------------------------------
\* A handler panics; with RouterRecovery in the chain it is caught there.
HandlerPanic ==
    /\ pc = "handler"
    /\ ~InRecovery
    /\ pc' = IF mode = "slices" THEN "panic" ELSE "died"
    /\ stack' = IF mode = "slices" THEN stack ELSE <<>>
    /\ panicked' = TRUE
    /\ UNCHANGED <<conf, field, helper, served, ran, calls, gotos, target, aborted, raced>>

\* Mutant of Reset: the index of the request before is kept.
Reset_keepIndex == steps' = PRE_HANDLE /\ needNext' = TRUE /\ index' = index

Reset == steps' = PRE_HANDLE /\ needNext' = TRUE /\ index' = -1

\* The request returned, so PutRequest puts it back and GetRequest takes it again;
\* the helper no longer uses it.
Recycle ==
    /\ pc = "returned" /\ served + 1 < MaxRequests
    /\ Reset
    /\ handlers' \in (IF mode = "slices" THEN ChainLengths ELSE {0})
    /\ recovery' \in BOOLEAN /\ (recovery' => handlers' > 0)
    /\ pc' = IF mode = "slices" THEN "next" ELSE "loop"
    /\ served' = served + 1
    /\ ran' = <<>> /\ calls' = NoCalls(handlers') /\ gotos' = 0
    /\ target' = -1 /\ aborted' = FALSE /\ panicked' = FALSE /\ raced' = FALSE
    /\ helper' = "none"
    /\ UNCHANGED <<mode, stack>>

Next ==
    \/ FirstNext \/ RouterSlicesNext \/ HandlerReturns \/ Unwind
    \/ Loop \/ Switch \/ StepReturns \/ TestNeedNext \/ next
    \/ \E step \in Steps \cup {HANDLE_OVER} : HandlerGoto(step) \/ HelperGoto(step)
    \/ HandlerAbort \/ HelperAbort \/ StartHelper
    \/ HandlerPanic
    \/ Recycle

Spec == Init /\ [][Next]_vars

\* Handlers return or panic, and the goroutine of the request runs.
FairSpec == Spec /\ WF_vars(Next)

-----------------------------------------------------------------------------
(* Properties.                                                             *)

\* Type invariant of the request; the index is an int8.
TypeOK ==
    /\ mode \in {"slices", "steps"} /\ handlers \in ChainLengths \cup {0}
    /\ recovery \in BOOLEAN
    /\ index \in (-MaxInt8 - 1)..MaxInt8
    /\ steps \in Nat /\ needNext \in BOOLEAN
    /\ pc \in {"next", "handler", "panic", "loop", "switch", "needNext", "add", "returned",
               "died"}
    /\ stack \in Seq(Nat) /\ ran \in Seq(Nat)
    /\ helper \in {"none", "runs", "over"}
    /\ served \in Nat /\ gotos \in 0..MaxGoto
    /\ target \in Steps \cup {HANDLE_OVER, -1}
    /\ aborted \in BOOLEAN /\ panicked \in BOOLEAN /\ raced \in BOOLEAN

\* However the handlers of a chain call RouterSlicesNext, abort, panic and are
\* recovered, none begins twice and none before an earlier one, also when the index
\* of the chain wraps.
InOrder ==
    mode = "slices" => \A i \in 1..Len(ran) : ran[i] = i - 1

\* A chain that returns although nobody aborted it and no handler panicked has run
\* all its handlers; an IRouter has run its three steps unless Goto was called. The
\* object may be a recycled one, whatever was done with it before.
Complete ==
    pc = "returned" /\ ~aborted /\ ~panicked /\ gotos = 0 /\ handlers <= MaxInt8 =>
        Len(ran) = IF mode = "slices" THEN handlers ELSE 3

\* Every call of RouterSlicesNext leaves the index one higher, also after Abort: if
\* each handler calls it at most MaxNext times (RouterRecovery does so once), a chain
\* as short as this never makes the int8 wrap, so that the loop would index the
\* handlers with a negative number.
IndexFits ==
    handlers * (MaxNext + 1) < MaxInt8 /\ (recovery => MaxNext > 0) => index >= -1

\* After Abort no further handler or step begins, although the aborted one may go on
\* to call RouterSlicesNext, callers resume their loops, and the goroutine of Abort may
\* be another one than that of Call.
AbortStops == [][aborted /\ aborted' => ran' = ran]_vars

\* The step an IRouter begins is the one Goto was called for, else the one after the
\* last, unless a goroutine other than that of Call has called Goto.
StepOrder ==
    [][mode = "steps" /\ ~raced /\ ran' # ran /\ ran' # <<>> =>
           ran'[Len(ran')] = CASE target # -1 -> target
                               [] ran = <<>> -> PRE_HANDLE
                               [] OTHER -> ran[Len(ran)] + 1]_vars

\* Every request comes to an end if its handlers do: no order of Goto, Abort and next
\* makes Call run a step again and again.
Finishes == pc \in {"next", "loop"} ~> pc \in {"returned", "died"}
=============================================================================
