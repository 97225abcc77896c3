----------------------------- MODULE BlockScan -----------------------------
(***************************************************************************)
(* What the rest of the system relies on when it reads the stream of a     *)
(* listener: each process goes through the chain upwards, publishes a      *)
(* block's messages in order and never comes back to a block, and begins   *)
(* no earlier than where the processes before it had stopped publishing.   *)
(***************************************************************************)
EXTENDS Integers

CONSTANTS
  MaxRuns,   \* bound: how often the process is started
  NULL

(* What the theorems assume; whoever instantiates this module shows it.    *)
ScanAssumption == MaxRuns \in Nat /\ NULL \notin Int

VARIABLES
  runs,    \* how often it was started; the number of this process
  next,    \* the block to be processed next, NULL before it is decided
  total,   \* how many messages that block has; 0 until it was fetched
  sent,    \* how many of them were stored
  stream   \* every message stored

vars == <<runs, next, total, sent, stream>>

-----------------------------------------------------------------------------
ScanMessage == [run : Nat, block : Int, batch : Nat \ {0}, total : Nat]

Message == [run |-> runs, block |-> next, batch |-> sent + 1, total |-> total]

(* Where the process may go on: upwards, and for a start, when it has not  *)
(* published anything yet, at any block that is not below what others did. *)
From(b) ==
  /\ runs # 0
  /\ IF next = NULL
       THEN \A m \in stream : m.run < runs /\ m.block <= b
       ELSE next <= b

Goto(b) == next' = b /\ total' = 0 /\ sent' = 0

Start ==
  /\ runs < MaxRuns
  /\ next = NULL
  /\ runs' = runs + 1
  /\ UNCHANGED <<next, total, sent, stream>>

Stop == Goto(NULL) /\ UNCHANGED <<runs, stream>>

(* Blocks without a message, or not scanned at all. *)
Pass(b) ==
  /\ total = 0
  /\ From(b)
  /\ Goto(b)
  /\ UNCHANGED <<runs, stream>>

(* A block with n messages. *)
Open(b, n) ==
  /\ total = 0
  /\ next \in {b, NULL} /\ From(b)
  /\ next' = b
  /\ total' = n
  /\ UNCHANGED <<runs, sent, stream>>

Store ==
  /\ total # 0
  /\ stream' = stream \cup {Message}
  /\ \/ /\ sent + 1 < total
        /\ sent' = sent + 1
        /\ UNCHANGED <<next, total>>
     \/ Goto(next + 1)
  /\ UNCHANGED runs

(* Mutant: a block whose publishing failed is processed again. *)
GiveUp_Again ==
  /\ total # 0
  /\ Goto(next)
  /\ UNCHANGED <<runs, stream>>

(* The rest of the block's messages is given up. *)
GiveUp ==
  /\ total # 0
  /\ Goto(next + 1)
  /\ UNCHANGED <<runs, stream>>

-----------------------------------------------------------------------------
Init ==
  /\ runs = 0
  /\ next = NULL
  /\ total = 0
  /\ sent = 0
  /\ stream = {}

Next ==
  \/ Start \/ Stop \/ Store \/ GiveUp
  \/ next' \in Int /\ Pass(next')
  \/ next' \in Int /\ total' \in Nat \ {0} /\ Open(next', total')

Spec == Init /\ [][Next]_vars

-----------------------------------------------------------------------------
(* Properties. *)

(* Every variable keeps its type. *)
TypeOK ==
  /\ runs \in 0..MaxRuns
  /\ next \in Int \cup {NULL}
  /\ total \in Nat
  /\ sent \in Nat
  /\ stream \subseteq ScanMessage

(* publisher.go:55-64 under Run's retries: one process stores the messages *)
(* of its blocks in ascending order and none of them twice, although       *)
(* failed ranges are scanned again.                                        *)
PublishOrder ==
  \A m \in stream :
    m.run = runs /\ next # NULL =>
      \/ m.block < next
      \/ m.block = next /\ m.batch <= sent

(* publisher.go:58-62: a block whose publishing was given up misses its    *)
(* last messages, never one in the middle.                                 *)
BatchPrefix ==
  \A m \in stream : \A k \in 1..m.batch : [m EXCEPT !.batch = k] \in stream

(* evm_listener.go:71-74: of what a process published, a later one repeats *)
(* at most the last block.                                                 *)
RunsOrdered ==
  \A m, n \in stream : m.run < n.run => m.block <= n.block
=============================================================================
