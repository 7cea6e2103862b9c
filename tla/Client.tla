------------------------------- MODULE Client --------------------------------
(***************************************************************************)
(* A client of gray (gnet/client.go) over TCP: Start and Restart, each of  *)
(* which starts a goroutine that dials, makes a connection and waits for   *)
(* exitChan; Stop; the goroutines of the connections; and the heartbeat    *)
(* checker, which is one object for all the connections of the client      *)
(* (a server clones its checker instead).                                  *)
(*                                                                         *)
(* Call number g of Start or Restart has a channel exitChan, a goroutine,  *)
(* perhaps a connection, and a goroutine Connection.Start of its own, all  *)
(* numbered g.  The hooks onConnStart and onConnStop may call Restart, and *)
(* may panic, which Connection.Start recovers; the write of a heartbeat    *)
(* may block until the peer reads.  The locks of the other transports are  *)
(* in module Heartbeat; a decoder added twice by a second Start and the    *)
(* size of the worker pool are not modelled here.                          *)
(***************************************************************************)
EXTENDS Naturals, FiniteSets

CONSTANTS
    Heartbeats,  \* a set of Booleans: with StartHeartBeat, without it
    MaxStarts,   \* bound: calls of Start and Restart
    MaxStops     \* bound: calls of Stop

ASSUME ClientAssumption ==
    Heartbeats \subseteq BOOLEAN /\ MaxStarts \in Nat /\ MaxStops \in Nat

Calls == 1..MaxStarts
Nil == 0

VARIABLES
    hc,         \* has the client a heartbeat checker?
    exitChan,   \* Client.exitChan: the number of the channel, or Nil
    exitClosed, \* the channels exitChan that were closed
    errClosed,  \* ErrChan is closed
    conn,       \* Client.conn: a connection or Nil
    cpc,        \* cpc[g]: where the goroutine of call g is
    waits,      \* waits[g]: the channel it receives from
    hcConn,     \* HeartbeatChecker.conn
    bound,      \* the connections whose hc is the checker
    kpc,        \* kpc[g]: where the goroutine Connection.Start of call g is
    of,         \* of[g]: the connection it runs
    cctx,       \* cctx[c]: Connection.ctx, the number of the goroutine that made it, or Nil
    selects,    \* selects[g]: the context it waits for
    cancelled,  \* the contexts that are done
    hpc,        \* hpc[g]: where the checker goroutine it has started is
    upc,        \* where the goroutine that calls Stop is
    sends,      \* the channel Stop sends on
    stops,      \* history: calls of Stop
    crash,      \* the process has panicked
    misuse      \* history: unusual ways in which the client was used

fieldVars == <<hc, exitChan, exitClosed, errClosed, conn>>
startVars == <<cpc, waits>>
kpcVars == <<bound, kpc, of, cctx, selects, cancelled>>
checkVars == <<hcConn, hpc>>
userVars == <<upc, sends, stops, misuse>>
clientVars == <<fieldVars, startVars, kpcVars, checkVars, userVars, crash>>

\* Process-wide: after a panic that nobody recovers nothing happens any more.
Runs == ~crash

ClientInit ==
    /\ hc \in Heartbeats
    /\ exitChan = Nil /\ exitClosed = {} /\ errClosed = FALSE /\ conn = Nil
    /\ cpc = [g \in Calls |-> "none"] /\ waits = [g \in Calls |-> Nil]
    /\ hcConn = Nil /\ bound = {}
    /\ kpc = [g \in Calls |-> "none"] /\ of = [g \in Calls |-> Nil]
    /\ cctx = [c \in Calls |-> Nil] /\ selects = [g \in Calls |-> Nil]
    /\ cancelled = {}
    /\ hpc = [g \in Calls |-> "none"]
    /\ upc = "idle" /\ sends = Nil /\ stops = 0
    /\ crash = FALSE /\ misuse = {}

-----------------------------------------------------------------------------
(* Restart, and its goroutine.                                             *)

Dialling == \E g \in Calls : cpc[g] \in {"dial", "bind", "spawn"}

\* The state of earlier calls that makes another one unusual.
Unusual ==
    (IF Dialling THEN {"dialling"} ELSE {}) \cup
    {"early" : g \in {f \in Calls : kpc[f] \notin {"none", "done", "panicked"}}} \cup
    (IF errClosed \/ upc # "idle" THEN {"stopped"} ELSE {})

\* Start, Restart: a new exitChan and a goroutine.
Restart ==
    \E g \in Calls :
        /\ cpc[g] = "none" /\ \A f \in Calls : f < g => cpc[f] # "none"
        /\ exitChan' = g
        /\ cpc' = [cpc EXCEPT ![g] = "dial"]
        /\ misuse' = misuse \cup Unusual
        /\ UNCHANGED <<hc, exitClosed, errClosed, conn, waits, kpcVars, checkVars, upc, sends,
                       stops, crash>>

UserRestart == Runs /\ Restart

\* The dial succeeds: c.conn is the new connection.
Dialled(g) ==
    /\ Runs /\ cpc[g] = "dial"
    /\ cpc' = [cpc EXCEPT ![g] = IF hc THEN "bind" ELSE "spawn"]
    /\ conn' = g
    /\ UNCHANGED <<hc, exitChan, exitClosed, errClosed, waits, kpcVars, checkVars, userVars,
                   crash>>

DialFailed(g) ==
    /\ Runs /\ cpc[g] = "dial"
    /\ cpc' = [cpc EXCEPT ![g] = "err"]
    /\ UNCHANGED <<fieldVars, waits, kpcVars, checkVars, userVars, crash>>

\* c.ErrChan <- err: somebody receives it, or ErrChan is (or gets) closed.
SendErr(g) ==
    /\ Runs /\ cpc[g] = "err"
    /\ IF errClosed THEN crash' = TRUE /\ UNCHANGED cpc
                    ELSE cpc' = [cpc EXCEPT ![g] = "failed"] /\ UNCHANGED crash
    /\ UNCHANGED <<fieldVars, waits, kpcVars, checkVars, userVars>>

\* BindConn(c.conn), which another call may have set since.
BindConn(g) ==
    /\ Runs /\ cpc[g] = "bind"
    /\ hcConn' = conn
    /\ bound' = bound \cup {conn}
    /\ cpc' = [cpc EXCEPT ![g] = "spawn"]
    /\ UNCHANGED <<fieldVars, waits, kpc, of, cctx, selects, cancelled, hpc, userVars, crash>>

\* go c.conn.Start()
Spawn(g) ==
    /\ Runs /\ cpc[g] = "spawn"
    /\ of' = [of EXCEPT ![g] = conn]
    /\ kpc' = [kpc EXCEPT ![g] = "new"]
    /\ cpc' = [cpc EXCEPT ![g] = "select"]
    /\ UNCHANGED <<fieldVars, waits, bound, cctx, selects, cancelled, checkVars, userVars,
                   crash>>

\* The select reads c.exitChan, which a later call may have replaced.
Select(g) ==
    /\ Runs /\ cpc[g] = "select"
    /\ waits' = [waits EXCEPT ![g] = exitChan]
    /\ cpc' = [cpc EXCEPT ![g] = "wait"]
    /\ UNCHANGED <<fieldVars, kpcVars, checkVars, userVars, crash>>

\* A closed channel is received from at once.
ExitClosed(g) ==
    /\ Runs /\ cpc[g] = "wait" /\ waits[g] \in exitClosed
    /\ cpc' = [cpc EXCEPT ![g] = "over"] /\ waits' = [waits EXCEPT ![g] = Nil]
    /\ UNCHANGED <<fieldVars, kpcVars, checkVars, userVars, crash>>

-----------------------------------------------------------------------------
(* Connection.Start.                                                       *)

\* A new context, also if the connection has one already.
NewContext(g) ==
    /\ Runs /\ kpc[g] = "new"
    /\ cctx' = [cctx EXCEPT ![of[g]] = g]
    /\ kpc' = [kpc EXCEPT ![g] = "onConnStart"]
    /\ UNCHANGED <<fieldVars, startVars, bound, of, selects, cancelled, checkVars, userVars,
                   crash>>

\* hc.Start makes a checker goroutine; then the select reads c.ctx.
StartChecker(g) ==
    /\ Runs /\ kpc[g] = "hcStart"
    /\ hpc' = IF of[g] \in bound THEN [hpc EXCEPT ![g] = "wait"] ELSE hpc
    /\ selects' = [selects EXCEPT ![g] = cctx[of[g]]]
    /\ kpc' = [kpc EXCEPT ![g] = "wait"]
    /\ UNCHANGED <<fieldVars, startVars, bound, of, cctx, cancelled, hcConn, userVars, crash>>

\* Connection.Stop: the peer closes the connection, or user code stops it.
StopConn(c) ==
    /\ Runs /\ cctx[c] # Nil
    /\ cancelled' = cancelled \cup {cctx[c]}
    /\ UNCHANGED <<fieldVars, startVars, bound, kpc, of, cctx, selects, checkVars, userVars,
                   crash>>

ContextDone(g) ==
    /\ Runs /\ kpc[g] = "wait" /\ selects[g] \in cancelled
    /\ kpc' = [kpc EXCEPT ![g] = "onConnStop"] /\ selects' = [selects EXCEPT ![g] = Nil]
    /\ UNCHANGED <<fieldVars, startVars, bound, of, cctx, cancelled, checkVars,
                   userVars, crash>>

InHook(g) == kpc[g] \in {"onConnStart", "onConnStop"}

\* A hook reconnects.
HookRestart(g) == Runs /\ InHook(g) /\ Restart

\* After onConnStart the checker is started, after onConnStop it is stopped.
HookReturns(g) ==
    /\ Runs /\ InHook(g)
    /\ kpc' = [kpc EXCEPT ![g] =
                  IF kpc[g] = "onConnStart" THEN "hcStart"
                  ELSE IF of[g] \in bound THEN "hcStop" ELSE "done"]
    /\ UNCHANGED <<fieldVars, startVars, bound, of, cctx, selects, cancelled, checkVars,
                   userVars, crash>>

\* Connection.Start recovers the panic of a hook and returns: after onConnStart nobody
\* waits for the context, after onConnStop the checker runs on and the socket stays open.
HookPanics(g) ==
    /\ Runs /\ InHook(g)
    /\ kpc' = [kpc EXCEPT ![g] = "panicked"]
    /\ UNCHANGED <<fieldVars, startVars, bound, of, cctx, selects, cancelled, checkVars,
                   userVars, crash>>

\* hc.Stop sends on the quitChan that all checker goroutines of the client share:
\* any of them may receive. The rest of finalizer.
StopChecker(g) ==
    /\ Runs /\ kpc[g] = "hcStop"
    /\ \E h \in Calls : hpc[h] = "wait" /\ hpc' = [hpc EXCEPT ![h] = "quit"]
    /\ kpc' = [kpc EXCEPT ![g] = "done"]
    /\ UNCHANGED <<fieldVars, startVars, bound, of, cctx, selects, cancelled, hcConn, userVars,
                   crash>>

-----------------------------------------------------------------------------
(* A checker goroutine; the activity time of a connection may be any.      *)

\* Mutant of check: the checker returns after it has stopped the connection.
check_returns(g) ==
    /\ Runs /\ hpc[g] = "wait"
    /\ crash' = (cctx[hcConn] = Nil)
    /\ cancelled' = IF crash' THEN cancelled ELSE cancelled \cup {cctx[hcConn]}
    /\ hpc' = [hpc EXCEPT ![g] = "quit"]
    /\ UNCHANGED <<fieldVars, startVars, bound, kpc, of, cctx, selects, hcConn, userVars>>

\* A tick finds h.conn, which is the connection bound last, not alive and stops it;
\* before its Start, its cancel is nil.
check(g) ==
    /\ Runs /\ hpc[g] = "wait"
    /\ crash' = (cctx[hcConn] = Nil)
    /\ cancelled' = IF crash' THEN cancelled ELSE cancelled \cup {cctx[hcConn]}
    /\ UNCHANGED <<fieldVars, startVars, bound, kpc, of, cctx, selects, checkVars, userVars>>

\* A tick finds h.conn alive: the write of the heartbeat begins, ...
SendHeartBeatMsg(g) ==
    /\ Runs /\ hpc[g] = "wait"
    /\ cctx[hcConn] # Nil /\ cctx[hcConn] \notin cancelled
    /\ hpc' = [hpc EXCEPT ![g] = "writing"]
    /\ UNCHANGED <<fieldVars, startVars, kpcVars, hcConn, userVars, crash>>

\* ... and ends if the peer reads or the socket is closed.
BeatWritten(g) ==
    /\ Runs /\ hpc[g] = "writing"
    /\ hpc' = [hpc EXCEPT ![g] = "wait"]
    /\ UNCHANGED <<fieldVars, startVars, kpcVars, hcConn, userVars, crash>>

-----------------------------------------------------------------------------
(* Stop, called by one goroutine of the user.                              *)

\* c.conn is logged: it must not be nil.
ClientStop ==
    /\ Runs /\ upc = "idle" /\ stops < MaxStops
    /\ stops' = stops + 1
    /\ crash' = (conn = Nil)
    /\ upc' = "conn"
    /\ misuse' = misuse \cup (IF stops > 0 THEN {"stopped"} ELSE {})
                        \cup (IF conn = Nil \/ cctx[conn] = Nil \/ Dialling
                                THEN {"early"} ELSE {})
    /\ UNCHANGED <<fieldVars, startVars, kpcVars, checkVars, sends>>

\* c.conn.Stop()
StopsConn ==
    /\ Runs /\ upc = "conn"
    /\ crash' = (cctx[conn] = Nil)
    /\ cancelled' = IF crash' THEN cancelled ELSE cancelled \cup {cctx[conn]}
    /\ upc' = "exit"
    /\ UNCHANGED <<fieldVars, startVars, bound, kpc, of, cctx, selects, checkVars, sends,
                   stops, misuse>>

\* Mutant of BeginSend: exitChan is closed before something is sent on it.
BeginSend_closed ==
    /\ Runs /\ upc = "exit"
    /\ exitClosed' = exitClosed \cup {exitChan}
    /\ crash' = (exitChan \in exitClosed')
    /\ sends' = exitChan
    /\ upc' = "send"
    /\ UNCHANGED <<hc, exitChan, errClosed, conn, startVars, kpcVars, checkVars, stops, misuse>>

\* c.exitChan <-: on the channel of the last call of Restart so far.
BeginSend ==
    /\ Runs /\ upc = "exit"
    /\ crash' = (exitChan \in exitClosed)
    /\ sends' = exitChan
    /\ upc' = "send"
    /\ UNCHANGED <<fieldVars, startVars, kpcVars, checkVars, stops, misuse>>

\* A goroutine waiting for that channel receives.
ExitSent(g) ==
    /\ Runs /\ upc = "send"
    /\ cpc[g] = "wait" /\ waits[g] = sends
    /\ cpc' = [cpc EXCEPT ![g] = "over"] /\ waits' = [waits EXCEPT ![g] = Nil]
    /\ upc' = "close" /\ sends' = Nil
    /\ UNCHANGED <<fieldVars, kpcVars, checkVars, stops, misuse, crash>>

CloseExitChan ==
    /\ Runs /\ upc = "close"
    /\ crash' = (exitChan \in exitClosed)
    /\ exitClosed' = exitClosed \cup {exitChan}
    /\ upc' = "closeErr"
    /\ UNCHANGED <<hc, exitChan, errClosed, conn, startVars, kpcVars, checkVars, sends, stops,
                   misuse>>

CloseErrChan ==
    /\ Runs /\ upc = "closeErr"
    /\ crash' = errClosed
    /\ errClosed' = TRUE
    /\ upc' = "idle"
    /\ UNCHANGED <<hc, exitChan, exitClosed, conn, startVars, kpcVars, checkVars, sends, stops,
                   misuse>>

-----------------------------------------------------------------------------
StartStep(g) ==
    Dialled(g) \/ DialFailed(g) \/ BindConn(g) \/ Spawn(g) \/ Select(g) \/ ExitClosed(g)

ConnStep(g) ==
    NewContext(g) \/ StartChecker(g) \/ ContextDone(g) \/ HookReturns(g) \/ HookPanics(g)

ClientStopStep == StopsConn \/ BeginSend \/ CloseExitChan \/ CloseErrChan

ClientNext ==
    \/ UserRestart \/ ClientStop \/ ClientStopStep
    \/ \E g \in Calls :
          \/ StartStep(g) \/ SendErr(g) \/ ConnStep(g) \/ HookRestart(g) \/ StopChecker(g)
          \/ check(g) \/ SendHeartBeatMsg(g) \/ BeatWritten(g) \/ ExitSent(g) \/ StopConn(g)

ClientSpec == ClientInit /\ [][ClientNext]_clientVars

\* Goroutines run, dials end, hooks return or panic, and the select of a checker
\* goroutine, which is fair, does not prefer its ticker for ever to a waiting hc.Stop.
\* (One condition for all is enough: a call takes a bounded number of these steps.)
\* Nothing is assumed of the calls of the user, of the peer, which may never read a
\* heartbeat, nor of anybody who receives from ErrChan.
FairClientSpec ==
    /\ ClientSpec
    /\ WF_clientVars(ClientStopStep \/ \E g \in Calls : StartStep(g) \/ ConnStep(g) \/ ExitSent(g))
    /\ SF_clientVars(\E g \in Calls : StopChecker(g))

-----------------------------------------------------------------------------
(* Properties.                                                             *)

\* onConnStop has panicked, so that there is a checker goroutine too many: one whose
\* connection has ended is left, and the checker has a connection that is not started.
Leftover ==
    /\ \E f \in Calls : kpc[f] = "panicked" /\ hpc[f] # "none"
    /\ \E h \in Calls : hpc[h] = "wait" /\ kpc[h] \in {"done", "panicked"}
    /\ hcConn # Nil /\ cctx[hcConn] = Nil

\* The process panics only if the client was used in an unusual way: Stop before the
\* connection was started or during a dial, a second Stop, a Restart after Stop or
\* before the end of the connection of an earlier one; if Stop closes ErrChan before
\* anybody has received the error of a failed dial; or if a checker goroutine that a
\* panic of onConnStop has left behind ticks between BindConn of the next connection
\* and its Start.
PanicOnlyMisuse ==
    crash => misuse # {} \/ (errClosed /\ \E g \in Calls : cpc[g] = "err") \/ Leftover

\* If the write of every heartbeat ends, every connection that is cancelled ends, or its
\* onConnStop panics, although its hc.Stop meets any checker goroutine of the client, also
\* that of another connection (when Restart reconnects before the end of the one before),
\* unless a Restart overlaps the dial of another.
\* Stop returns, unless the dial it waits for has failed or Restart is called meanwhile.
StopEnds ==
    /\ (\A h \in Calls : []<>(hpc[h] # "writing")) =>
          \A g \in Calls :
             (kpc[g] = "wait" /\ selects[g] \in cancelled) ~>
                 (kpc[g] \in {"done", "panicked"} \/ crash \/ "dialling" \in misuse)
    /\ (upc = "send") ~>
           \/ upc # "send" \/ crash
           \/ cpc[sends] \in {"err", "failed"} \/ "stopped" \in misuse
=============================================================================
