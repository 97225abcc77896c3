------------------------- MODULE MCEventCollection -------------------------
(* Small instances of EventCollection for TLC. *)
EXTENDS EventCollection

CONSTANTS w1, w2, other, token, zero   \* model values: accounts

Accounts == {w1, w2, other, token, zero}
TwoWallets == {w1, w2}

Tx(f, t, d) == [from |-> f, to |-> t, data |-> d]
Log(k, f, t) == [tx |-> k, from |-> f, to |-> t]

(* A wallet or a stranger pays, calls the token or another contract,       *)
(* deploys one, or has a signature that cannot be recovered.               *)
SomeTxs ==
  {Tx(f, t, d) : f \in {w1, other}, t \in {w2, token, other}, d \in {"empty", "call"}}
  \cup {Tx(w1, w1, "empty"), Tx(w1, NULL, "call"), Tx(w1, other, "short"),
        Tx(w1, token, "short"), Tx(NULL, w1, "empty")}

Holders == {w1, w2, other, zero}

(* The logs of a call: none, one, or two. *)
LogsOf(k, tx) ==
  IF tx.data # "call" THEN {<<>>}
  ELSE {<<>>} \cup {<<Log(k, f, t)>> : f, t \in Holders}
       \cup {<<Log(k, f, t), Log(k, g, u)>> :
               f \in {w1, zero}, t \in {w2, other}, g \in {w1, w2}, u \in {w1, zero}}

(* Every block of one transaction, and a second one behind some of them. *)
SmallBlocks ==
  UNION {{[txs |-> <<x>>, logs |-> l] : l \in LogsOf(1, x)} : x \in SomeTxs}
  \cup UNION {{[txs |-> <<Tx(w1, token, "call"), x>>, logs |-> <<Log(1, w1, w2)>> \o l] :
                 l \in LogsOf(2, x)} : x \in SomeTxs}
=============================================================================
