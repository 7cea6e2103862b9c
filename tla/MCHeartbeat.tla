---------------------------- MODULE MCHeartbeat -----------------------------
(* TLC instance of Heartbeat and Callbacks: all the constants are given in  *)
(* the .cfg files.                                                          *)
EXTENDS Callbacks
=============================================================================
