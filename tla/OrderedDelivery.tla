--------------------------- MODULE OrderedDelivery ---------------------------
(***************************************************************************)
(* What the dispatch of gray promises to the user's routers: the requests  *)
(* of a connection are handled at most once each and, as long as the       *)
(* worker pool is in use, one at a time and in the order of their arrival. *)
(* Module Dispatch implements it.                                          *)
(***************************************************************************)
EXTENDS Naturals

CONSTANTS
    Conns,  \* connections
    Quota   \* bound: Quota[c] is the number of requests of connection c

VARIABLES
    arrived,  \* arrived[c]: number of requests of c so far
    settled,  \* settled[c]: the requests begun, or dropped unhandled
    running,  \* running[c]: the requests being handled
    pooled    \* the worker pool is in use

vars == <<arrived, settled, running, pooled>>

Init ==
    /\ arrived = [c \in Conns |-> 0]
    /\ settled = [c \in Conns |-> {}]
    /\ running = [c \in Conns |-> {}]
    /\ pooled = TRUE

Arrive(c) ==
    /\ arrived[c] < Quota[c]
    /\ arrived' = [arrived EXCEPT ![c] = @ + 1]
    /\ UNCHANGED <<settled, running, pooled>>

\* With the pool, the first request not settled, when no other one is handled.
Begin(c, m) ==
    /\ m \notin settled[c]
    /\ pooled => running[c] = {} /\ \A k \in 1..(m - 1) : k \in settled[c]
    /\ settled' = [settled EXCEPT ![c] = @ \cup {m}]
    /\ running' = [running EXCEPT ![c] = @ \cup {m}]
    /\ UNCHANGED <<arrived, pooled>>

End(c, m) ==
    /\ m \in running[c]
    /\ running' = [running EXCEPT ![c] = @ \ {m}]
    /\ UNCHANGED <<arrived, settled, pooled>>

\* No router for it, or an interceptor keeps it.
Drop(c, m) ==
    /\ m \notin settled[c]
    /\ settled' = [settled EXCEPT ![c] = @ \cup {m}]
    /\ UNCHANGED <<arrived, running, pooled>>

LosePool ==
    /\ pooled' = FALSE
    /\ UNCHANGED <<arrived, settled, running>>

Next ==
    \/ \E c \in Conns : Arrive(c)
    \/ \E c \in Conns : \E m \in 1..arrived[c] : Begin(c, m) \/ End(c, m) \/ Drop(c, m)
    \/ LosePool

Spec == Init /\ [][Next]_vars
=============================================================================
