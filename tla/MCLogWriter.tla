----------------------------- MODULE MCLogWriter -----------------------------
(* TLC instance of LogWriter; the bounds are in the .cfg file.             *)
EXTENDS LogWriter

\* A place whose local time is one second (of the two of a day) behind UTC.
Behind == {-1}
=============================================================================
