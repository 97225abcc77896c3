--------------------------- MODULE MCLogHandler ---------------------------
(* A small instance of LogHandler for TLC. *)
EXTENDS LogHandler

CONSTANTS g1, g2, b1, b2   \* model values: goroutines, buffers

TwoGoroutines == {g1, g2}

TwoBuffers == {b1, b2}

(* One record with an attribute of its own, and one below the level. *)
SomeRecords ==
  {[level |-> "WARN", msg |-> "NATS disconnected", attrs |-> <<"error">>],
   [level |-> "INFO", msg |-> "published", attrs |-> <<>>],
   [level |-> "DEBUG", msg |-> "tick", attrs |-> <<>>]}
=============================================================================
