----------------------------- MODULE MCDispatch ------------------------------
(* TLC instance of Dispatch: two connections that share a worker or not,    *)
(* with two frames and one.                                                 *)
EXTENDS Dispatch, TLC

CONSTANTS c1, c2, w1, w2

TwoConns == {c1, c2}
TwoWorkers == {w1, w2}
Shared == c1 :> w1 @@ c2 :> w1
Separate == c1 :> w1 @@ c2 :> w2
TwoAndOne == c1 :> 2 @@ c2 :> 1

Config(transport, framed, pooled, client, assignment) ==
    [transport |-> transport, framed |-> framed, pool |-> pooled, client |-> client,
     workerID |-> assignment]

\* Framed TCP with RequestPool, each connection on a worker of its own; KCP without
\* frame decoder nor RequestPool, on one worker; framed ws with RequestPool, on one
\* worker, in a process that starts a client.
SomeConfigs == {Config("tcp", TRUE, TRUE, FALSE, Separate),
                Config("kcp", FALSE, FALSE, FALSE, Shared),
                Config("ws", TRUE, TRUE, TRUE, Shared)}
=============================================================================
