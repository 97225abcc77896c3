----------------------------- MODULE MCChainOps -----------------------------
(* Small instances of ChainOps for TLC. *)
EXTENDS ChainOps

CONSTANTS e1, e2, e3, e4, e5, blank   \* model values: events

AllEvents == {e1, e2, e3, e4, e5, blank}

(* The first event without its receipt's gas is another event of its key. *)
KeyWithoutGas == [e \in AllEvents |-> IF e = blank THEN e1 ELSE e]

(* Block 1 fills two batches, or lacks a receipt and a log, so that the    *)
(* second batch is not full; block 2 yields one event.                     *)
MayYield == <<{<<e1, e2, e3, e4>>, <<blank, e2, e3>>}, {<<e5>>}>>
=============================================================================
