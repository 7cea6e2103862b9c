------------------------------ MODULE Callbacks -------------------------------
(***************************************************************************)
(* The close callbacks of a connection, on top of module Heartbeat: the    *)
(* linked list of gnet/callbacks.go, AddCloseCallback and                  *)
(* RemoveCloseCallback called by user goroutines at any time, and the      *)
(* goroutine that finalizer starts last, which invokes the callbacks under *)
(* the read lock of closeCallbackMutex. A callback may panic, and may      *)
(* itself add or remove callbacks of its connection.                       *)
(*                                                                         *)
(* Add and Remove hold the write lock for one step; the invoker holds the  *)
(* read lock while ipc is "run".                                           *)
(***************************************************************************)
EXTENDS Heartbeat, Sequences

CONSTANTS
    Users,      \* goroutines that add and remove callbacks
    Keys,       \* the (handler, key) pairs they use
    MaxCalls    \* bound: calls of AddCloseCallback and RemoveCloseCallback

ASSUME MaxCallsAssumption == MaxCalls \in Nat

Items == 1..MaxCalls
nil == 0
AnyKey == CHOOSE k \in Keys : TRUE     \* where no pair is meant

VARIABLES
    first, last,    \* closeCallback.first, closeCallback.last
    next,           \* next[i]: the item behind item i
    key,            \* key[i]: the pair item i was added with
    made,           \* items allocated so far
    upc, ukey,      \* upc[u]: where user u is; ukey[u]: the pair it uses
    used,           \* calls made so far
    ipc, icur,      \* the invoker, and the item it is at
    called,         \* the items called, in order
    panicked,       \* a callback has panicked
    members,        \* history: the items added and not removed
    due             \* history: members when the invoker got the lock

listVars == <<first, last, next, key, made, members>>
userVars == <<upc, ukey, used>>
invokeVars == <<ipc, icur, called, panicked, due>>
closeVars == <<vars, listVars, userVars, invokeVars>>

CloseInit ==
    /\ Init
    /\ first = nil /\ last = nil
    /\ next = [i \in Items |-> nil] /\ key \in [Items -> {AnyKey}]
    /\ made = 0
    /\ upc = [u \in Users |-> "idle"] /\ ukey = [u \in Users |-> AnyKey]
    /\ used = 0
    /\ ipc = "off" /\ icur = nil /\ called = <<>> /\ panicked = FALSE
    /\ members = {} /\ due = {}

\* Mutant of IsClosed: the websocket flag is not consulted.
IsClosed_noWs == IF transport = "tcp" THEN ctx = "done" ELSE transport = "kcp" /\ closed

\* isClosed: the context of a TCP connection, the flag of the others.
IsClosed == IF transport = "tcp" THEN ctx = "done" ELSE closed

Unlocked == ipc # "run"

-----------------------------------------------------------------------------
(* AddCloseCallback and RemoveCloseCallback: the test, then the lock.      *)

\* A call that finds the connection closed changes nothing.
Call(u, k, label) ==
    /\ upc[u] = "idle"
    /\ used < MaxCalls
    /\ ~IsClosed
    /\ used' = used + 1
    /\ upc' = [upc EXCEPT ![u] = label]
    /\ ukey' = [ukey EXCEPT ![u] = k]
    /\ UNCHANGED <<vars, listVars, invokeVars>>

AddCloseCallback(u, k) == Call(u, k, "add")
RemoveCloseCallback(u, k) == Call(u, k, "remove")

Leave(u) ==
    /\ upc' = [upc EXCEPT ![u] = "idle"]
    /\ ukey' = [ukey EXCEPT ![u] = AnyKey]

\* callbacks.Add
Add(u) ==
    /\ upc[u] = "add" /\ Unlocked
    /\ made' = made + 1
    /\ key' = [key EXCEPT ![made + 1] = ukey[u]]
    /\ IF first = nil
       THEN first' = made + 1 /\ UNCHANGED next
       ELSE next' = [next EXCEPT ![last] = made + 1] /\ UNCHANGED first
    /\ last' = made + 1
    /\ members' = members \cup {made + 1}
    /\ Leave(u)
    /\ UNCHANGED <<vars, used, invokeVars>>

\* The items of the list, by walking it.
Walk[n \in 0..MaxCalls] ==
    IF n = 0 THEN first ELSE IF Walk[n - 1] = nil THEN nil ELSE next[Walk[n - 1]]

\* Mutant of Unlink: the last item is removed, but last still points to it.
Unlink_keepsLast(i, prev) ==
    /\ first' = IF first = i THEN next[i] ELSE first
    /\ next' = IF first # i /\ prev # nil THEN [next EXCEPT ![prev] = next[i]] ELSE next
    /\ last' = last

\* callbacks.Remove has found item i behind prev.
Unlink(i, prev) ==
    /\ first' = IF first = i THEN next[i] ELSE first
    /\ next' = IF first # i /\ prev # nil THEN [next EXCEPT ![prev] = next[i]] ELSE next
    /\ last' = IF last = i THEN prev ELSE last

\* callbacks.Remove: the first item with the pair, if there is one.
Remove(u) ==
    LET Matches(n) == Walk[n] # nil /\ key[Walk[n]] = ukey[u]
    IN  /\ upc[u] = "remove" /\ Unlocked
        /\ Leave(u)
        /\ \/ /\ \A n \in 0..MaxCalls : ~Matches(n)
              /\ UNCHANGED <<first, last, next, members>>
           \/ \E n \in 0..MaxCalls :
                 /\ Matches(n) /\ \A m \in 0..(n - 1) : ~Matches(m)
                 /\ Unlink(Walk[n], IF n = 0 THEN nil ELSE Walk[n - 1])
                 /\ members' = members \ {Walk[n]}
        /\ UNCHANGED <<vars, key, made, used, invokeVars>>

-----------------------------------------------------------------------------
(* InvokeCloseCallbacks, in a goroutine of its own.                        *)

\* finalizer has started the goroutine, which takes the read lock.
Invoke ==
    /\ fpc = "done" /\ ipc = "off"
    /\ ipc' = "run"
    /\ icur' = first
    /\ due' = members
    /\ UNCHANGED <<vars, listVars, userVars, called, panicked>>

\* A callback that adds or removes returns at once if the connection is closed;
\* otherwise it waits for the lock its own goroutine holds.
CallNext ==
    /\ ipc = "run" /\ icur # nil
    /\ called' = Append(called, icur)
    /\ \E reenters \in BOOLEAN, panics \in BOOLEAN :
          /\ icur' = IF panics \/ (reenters /\ ~IsClosed) THEN nil ELSE next[icur]
          /\ ipc' = CASE reenters /\ ~IsClosed -> "stuck"
                      [] OTHER -> IF panics THEN "done" ELSE "run"
          /\ panicked' = panics
    /\ UNCHANGED <<vars, listVars, userVars, due>>

InvokeReturns ==
    /\ ipc = "run" /\ icur = nil
    /\ ipc' = "done"
    /\ UNCHANGED <<vars, listVars, userVars, icur, called, panicked, due>>

Invoker ==
    \/ Invoke
    \/ CallNext
    \/ InvokeReturns

-----------------------------------------------------------------------------
CloseNext ==
    \/ Next /\ UNCHANGED <<listVars, userVars, invokeVars>>
    \/ \E u \in Users, k \in Keys : AddCloseCallback(u, k) \/ RemoveCloseCallback(u, k)
    \/ \E u \in Users : Add(u) \/ Remove(u)
    \/ Invoker

CloseSpec == CloseInit /\ [][CloseNext]_closeVars

\* The goroutines of Heartbeat are as fair as there; the invoker runs.
FairCloseSpec ==
    /\ CloseSpec
    /\ WF_vars(StartChecker) /\ WF_vars(updateActivity)
    /\ WF_vars(Finalizer) /\ SF_vars(StopChecker)
    /\ WF_vars(Checker) /\ WF_vars(Interval)
    /\ WF_closeVars(Invoker)

-----------------------------------------------------------------------------
(* Properties.                                                             *)

Called == {called[i] : i \in 1..Len(called)}

\* The callbacks called are those added and not removed before the invoker locked
\* the list, each once and in the order of their additions (items are numbered in that
\* order), none skipped; all of them, unless a callback panicked. The list survives any
\* order of additions and removals by goroutines that tested the connection before it
\* closed.
CallbackOrder ==
    /\ \A i, j \in 1..Len(called) : i < j => called[i] < called[j]
    /\ Called \subseteq due
    /\ \A i \in Called, m \in due \ Called : i < m
    /\ ipc = "done" /\ ~panicked => Called = due

\* A connection that has been closed calls its callbacks to the end, also when they
\* add or remove callbacks themselves.
CallbacksRun == (fpc = "done") ~> (ipc = "done")
=============================================================================
