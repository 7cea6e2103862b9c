------------------------------ MODULE MCServer ------------------------------
(* TLC instances of Server.                                                 *)
EXTENDS Server, TLC

CONSTANTS h1

OneHandler == {h1}

InMode(mode, panics, stopped, accepts) ==
    [mode |-> mode, workerMode |-> "Bind", panics |-> panics, stopped |-> stopped,
     accepts |-> accepts]

\* A server that is stopped, in each mode, and one that runs on until the limit was
\* overshot as far as two concurrent acceptors can.
Stopped == {InMode(mode, panics, TRUE, 2) : mode \in {"kcp", "websocket", ""},
                                            panics \in BOOLEAN}
Overshot == {InMode(mode, FALSE, FALSE, 3) : mode \in {"kcp", ""}}
SmallConfigs == Stopped \cup Overshot

\* Two connections at a time and a third that follows them.
TcpOnly == {InMode("tcp", FALSE, FALSE, 3)}
=============================================================================
