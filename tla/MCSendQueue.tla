---------------------------- MODULE MCSendQueue -----------------------------
(* TLC instance of SendQueue: two senders, the first of which sends twice.  *)
EXTENDS SendQueue, TLC

CONSTANTS s1, s2

TwoSenders == {s1, s2}
TwoAndOne == (s1 :> 2) @@ (s2 :> 1)
=============================================================================
