------------------------- MODULE MCLedgerConsumer -------------------------
(* Small instances of LedgerConsumer for TLC. *)
EXTENDS LedgerConsumer

CONSTANTS e1, e2, e3, e4, e5   \* model values: events

AllEvents == {e1, e2, e3, e4, e5}

(* The second message may hold an event too large to save, or only one     *)
(* that is skipped; the third is the first published again, or the rest of *)
(* it. *)
Republished ==
  <<{{e1, e2, e5}}, {{e3, e4}, {e4}, {e5}}, {{e1, e2, e5}, {e2}}>>

OwnKey == [e \in AllEvents |-> e]
=============================================================================
