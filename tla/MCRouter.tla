------------------------------ MODULE MCRouter -------------------------------
(* TLC instance of Router: an index of -8..7 for an int8, chains that make  *)
(* it wrap when handlers call RouterSlicesNext or Abort (7 is the largest   *)
(* index), and one whose length wraps to 1.                                 *)
EXTENDS Router

Lengths == {0, 1, 2, 3, 7, 17}
=============================================================================
