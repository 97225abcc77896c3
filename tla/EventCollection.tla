-------------------------- MODULE EventCollection --------------------------
(***************************************************************************)
(* What a scanned block is turned into: collectTxnEvents goes through its  *)
(* transactions, collectUSDCEvents through the Transfer logs of the token. *)
(* Both ask the provider for receipts on the way, and every one of these   *)
(* requests, and the log query, may fail on its own: the loss is logged    *)
(* and the collection goes on.                                             *)
(*                                                                         *)
(* EvmListener takes the whole of this as its operator Found; here a step  *)
(* is one transaction, one receipt request or one log.                     *)
(***************************************************************************)
EXTENDS Integers, Sequences, FiniteSets

CONSTANTS
  Address,         \* all accounts of the chain
  Monitored,       \* addresses: the wallets of the tick
  Zero,            \* the zero address
  KnownContracts,  \* the contracts of known-token-contracts
  TokenKnown,      \* whether USDC is among them (usdcAsset # nil)
  UsdcListen,      \* usdc-listen
  Blocks,          \* the blocks to collect from
  NULL             \* no recipient, a sender that cannot be recovered

\* The data of a transaction; a selector needs four bytes.
Data == {"empty", "short", "call"}

Transaction == [from : Address \cup {NULL}, to : Address \cup {NULL}, data : Data]

\* A Transfer log of the token: its transaction and the two sides.
TransferLog == [tx : Nat \ {0}, from : Address, to : Address]

Block == [txs : Seq(Transaction), logs : Seq(TransferLog)]

ASSUME CollectionAssumption ==
  /\ Monitored \subseteq Address
  /\ Zero \in Address
  /\ KnownContracts \subseteq Address
  /\ TokenKnown \in BOOLEAN
  /\ UsdcListen \in BOOLEAN
  /\ NULL \notin Address
  /\ Blocks \subseteq Block
  /\ \A b \in Blocks : \A j \in DOMAIN b.logs : b.logs[j].tx \in DOMAIN b.txs

VARIABLES
  block,     \* the block, as the provider returned it
  pc,        \* what the collection is at
  next,      \* the next transaction or log
  receipts,  \* what is known of each transaction's receipt in the log pass
  events,    \* the events collected
  requests   \* history: receipt requests for each transaction in the log pass

vars == <<block, pc, next, receipts, events, requests>>

Txs == DOMAIN block.txs
Logs == DOMAIN block.logs

-----------------------------------------------------------------------------
(* Events.  Gas is absent (nil), blank (a GasDetails without values) or    *)
(* filled from a receipt; log is 0 for what a transaction itself does.     *)

Event(w, k, type, activity, gas, j) ==
  [wallet |-> w, tx |-> k, type |-> type, activity |-> activity, gas |-> gas, log |-> j]

NativeIncoming(k) ==
  IF block.txs[k].to \in Monitored
    THEN {Event(block.txs[k].to, k, "NATIVE_TRANSFER", "INCOMING", "absent", 0)}
    ELSE {}

(* Mutant: transactions to known contracts are not skipped. *)
SentByWallet_NoSkip(k) == block.txs[k].from \in Monitored

(* Mutant: the recipient is compared where the sender is meant. *)
SentByWallet_Recipient(k) ==
  block.txs[k].to \in Monitored /\ block.txs[k].to \notin KnownContracts

(* Mutant: deployments are forgotten. *)
SentByWallet_NoDeployment(k) ==
  block.txs[k].from \in Monitored /\ block.txs[k].to \in Address \ KnownContracts

(* Transactions to a known contract are left to its log processor. *)
SentByWallet(k) ==
  block.txs[k].from \in Monitored /\ block.txs[k].to \notin KnownContracts

SentType(k) ==
  IF block.txs[k].to = NULL THEN "CONTRACT_DEPLOYMENT"
  ELSE IF block.txs[k].data = "empty" THEN "NATIVE_TRANSFER"
  ELSE "CONTRACT_INTERACTION"

(* tx.Data()[:4] of a transaction with one to three bytes of data. *)
Panics(k) == SentByWallet(k) /\ block.txs[k].to # NULL /\ block.txs[k].data = "short"

(* Mutant: both directions of a movement are tested for the recipient. *)
Direction_FromRecipient(w, log) ==
  IF log.to = w THEN IF log.from = Zero THEN "MINT" ELSE "OUTGOING"
  ELSE IF log.to = Zero THEN "BURN" ELSE "INCOMING"

(* The first case of the switch that holds for wallet w. *)
Direction(w, log) ==
  IF log.to = w THEN IF log.from = Zero THEN "MINT" ELSE "INCOMING"
  ELSE IF log.to = Zero THEN "BURN" ELSE "OUTGOING"

Outward == {"OUTGOING", "BURN"}

LogEvents(j) ==
  LET log == block.logs[j] IN
  {Event(w, log.tx, "TOKEN_TRANSFER", Direction(w, log),
         IF Direction(w, log) \in Outward /\ receipts[log.tx] = "fetched"
           THEN "filled" ELSE "absent", j) :
     w \in Monitored \cap {log.from, log.to}}

-----------------------------------------------------------------------------
(* collectTxnEvents, one transaction at a time; the receipt of one that a  *)
(* wallet sent may be missing. *)
CollectTx ==
  /\ pc = "txs"
  /\ next \in Txs
  /\ ~Panics(next)
  /\ \E gas \in {"filled", "blank"} :
       events' = events \cup NativeIncoming(next) \cup
         (IF SentByWallet(next)
            THEN {Event(block.txs[next].from, next, SentType(next), "OUTGOING", gas, 0)}
            ELSE {})
  /\ next' = next + 1
  /\ UNCHANGED <<block, pc, receipts, requests>>

(* The process dies; to EvmListener this is a Crash. *)
Panic ==
  /\ pc = "txs"
  /\ next \in Txs
  /\ Panics(next)
  /\ pc' = "panicked"
  /\ UNCHANGED <<block, next, receipts, events, requests>>

TxsDone ==
  /\ pc = "txs"
  /\ next \notin Txs
  /\ pc' = IF UsdcListen /\ TokenKnown /\ Monitored # {} THEN "query" ELSE "done"
  /\ next' = 1
  /\ UNCHANGED <<block, receipts, events, requests>>

(* FilterLogs. *)
QueryLogsOk ==
  /\ pc = "query"
  /\ pc' = "receipts"
  /\ UNCHANGED <<block, next, receipts, events, requests>>

QueryLogsFails ==
  /\ pc = "query"
  /\ pc' = "done"
  /\ UNCHANGED <<block, next, receipts, events, requests>>

(* Mutant: a failed request is not remembered. *)
NeedsReceipt_Unremembered(j) ==
  /\ receipts[block.logs[j].tx] # "fetched"
  /\ block.logs[j].from \in Monitored

(* Mutant: receipts of incoming transfers. *)
NeedsReceipt_Recipient(j) ==
  /\ receipts[block.logs[j].tx] = "unasked"
  /\ block.logs[j].to \in Monitored

(* Asked once for each transaction out of which a wallet's tokens moved,   *)
(* whoever sent it. *)
NeedsReceipt(j) ==
  /\ receipts[block.logs[j].tx] = "unasked"
  /\ block.logs[j].from \in Monitored

SkipReceipt ==
  /\ pc = "receipts"
  /\ next \in Logs
  /\ ~NeedsReceipt(next)
  /\ next' = next + 1
  /\ UNCHANGED <<block, pc, receipts, events, requests>>

RequestReceipt ==
  /\ pc = "receipts"
  /\ next \in Logs
  /\ NeedsReceipt(next)
  /\ \E answer \in {"fetched", "missing"} :
       receipts' = [receipts EXCEPT ![block.logs[next].tx] = answer]
  /\ requests' = [requests EXCEPT ![block.logs[next].tx] = @ + 1]
  /\ next' = next + 1
  /\ UNCHANGED <<block, pc, events>>

ReceiptsDone ==
  /\ pc = "receipts"
  /\ next \notin Logs
  /\ pc' = "logs"
  /\ next' = 1
  /\ UNCHANGED <<block, receipts, events, requests>>

(* collectUSDCLogEvents. *)
CollectLog ==
  /\ pc = "logs"
  /\ next \in Logs
  /\ events' = events \cup LogEvents(next)
  /\ next' = next + 1
  /\ UNCHANGED <<block, pc, receipts, requests>>

LogsDone ==
  /\ pc = "logs"
  /\ next \notin Logs
  /\ pc' = "done"
  /\ UNCHANGED <<block, next, receipts, events, requests>>

-----------------------------------------------------------------------------
Init ==
  /\ block \in Blocks
  /\ pc = "txs"
  /\ next = 1
  /\ receipts = [k \in Txs |-> "unasked"]
  /\ events = {}
  /\ requests = [k \in Txs |-> 0]

Next ==
  \/ CollectTx \/ Panic \/ TxsDone
  \/ QueryLogsOk \/ QueryLogsFails
  \/ SkipReceipt \/ RequestReceipt \/ ReceiptsDone
  \/ CollectLog \/ LogsDone

Spec == Init /\ [][Next]_vars

-----------------------------------------------------------------------------
(* Properties. *)

EventRecord ==
  [wallet : Monitored, tx : Nat \ {0},
   type : {"NATIVE_TRANSFER", "TOKEN_TRANSFER", "CONTRACT_INTERACTION",
           "CONTRACT_DEPLOYMENT"},
   activity : {"INCOMING", "OUTGOING", "MINT", "BURN"},
   gas : {"absent", "blank", "filled"}, log : Nat]

(* Every variable keeps its type; only monitored wallets get events. *)
TypeOK ==
  /\ block \in Block
  /\ pc \in {"txs", "panicked", "query", "receipts", "logs", "done"}
  /\ next \in Nat \ {0}
  /\ receipts \in [Txs -> {"unasked", "missing", "fetched"}]
  /\ events \subseteq EventRecord
  /\ requests \in [Txs -> Nat]

(* usdc_event.go:80 "mark attempted so we don't retry": however many logs  *)
(* a transaction has and whether the provider answers or not, its receipt  *)
(* is asked for once.                                                      *)
OneRequestPerTx == \A k \in Txs : requests[k] <= 1

(* usdc_event.go:65-84 with 106-109: tokens that left a wallet are         *)
(* reported without gas only if the provider failed to give the receipt,   *)
(* never because another log of the transaction came first.                *)
GasComplete ==
  \A e \in events :
    e.log # 0 /\ e.activity \in Outward /\ e.gas = "absent"
      => receipts[e.tx] = "missing"

Inflow(w, j) ==
  Cardinality({e \in events : e.wallet = w /\ e.log = j /\ e.activity \notin Outward})

Outflow(w, j) ==
  Cardinality({e \in events : e.wallet = w /\ e.log = j /\ e.activity \in Outward})

(* usdc_event.go:113-165: what the events say of a wallet's token balance  *)
(* is what the logs did to it, mints and burns and transfers between two   *)
(* monitored wallets included.  A wallet's transfer to itself is left out: *)
(* it is reported as incoming alone.                                       *)
FlowsMatch ==
  pc = "logs" =>
    \A w \in Monitored, j \in 1..(next - 1) :
      LET log == block.logs[j] IN
      log.from # log.to =>
        /\ Inflow(w, j) = (IF log.to = w THEN 1 ELSE 0)
        /\ Outflow(w, j) = (IF log.from = w THEN 1 ELSE 0)

(* The ledger's UNIQUE constraint. *)
SameKey(e, f) == e.tx = f.tx /\ e.wallet = f.wallet /\ e.activity = f.activity

(* application.yml:9-10: what a wallet sends straight to a known contract  *)
(* is not reported by both collectors: two events with the ledger's key    *)
(* come of two logs, or of a contract that is not known.                   *)
KeysClashOnlyByLogs ==
  \A e, f \in events :
    e # f /\ SameKey(e, f) =>
      \/ e.log # 0 /\ f.log # 0
      \/ block.txs[e.tx].to \notin KnownContracts

(* V1_SCOPE.md:112 "all outgoing transactions from the wallet, regardless  *)
(* of type": whatever receipts and log query do, a wallet's transaction is *)
(* without any event only if it went to a known contract, and there either *)
(* no log concerns the wallet or the logs were not collected.              *)
SentReported ==
  pc = "done" =>
    \A k \in Txs :
      LET w == block.txs[k].from IN
      w \in Monitored =>
        \/ \E e \in events : e.tx = k /\ e.wallet = w
        \/ /\ block.txs[k].to \in KnownContracts
           /\ \/ \A j \in Logs : block.logs[j].tx = k
                                  => w \notin {block.logs[j].from, block.logs[j].to}
              \/ \A e \in events : e.log = 0
=============================================================================
