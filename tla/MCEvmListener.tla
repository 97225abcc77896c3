--------------------------- MODULE MCEvmListener ---------------------------
(* Small instances of EvmListener for TLC. *)
EXTENDS EvmListener

CONSTANTS w1, w2   \* model values: the wallets

A(b, w, s, i) == [block |-> b, wallet |-> w, source |-> s, id |-> i]

(* Two wallets: a quiet block between busy ones, two batches in one block. *)
TwoWalletActivity ==
  {A(1, w1, "TX", 1), A(2, w2, "TX", 1), A(3, w1, "TX", 1), A(3, w2, "TX", 2)}

(* One wallet: blocks with one and two messages, and a token log. *)
OneWalletActivity ==
  {A(1, w1, "TX", 1), A(2, w1, "TX", 1), A(2, w1, "USDC_LOG", 2),
   A(3, w1, "TX", 1)}

(* One wallet, one transaction: for liveness, where the range matters and  *)
(* not what is in it. *)
QuietActivity == {A(1, w1, "TX", 1)}
=============================================================================
