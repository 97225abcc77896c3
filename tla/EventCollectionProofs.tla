----------------------- MODULE EventCollectionProofs -----------------------
(***************************************************************************)
(* Theorems about EventCollection, for every block, every set of monitored *)
(* wallets and every way the provider's answers may fail.                  *)
(***************************************************************************)
EXTENDS EventCollection, FiniteSetTheorems, TLAPS

TypeInv == TypeOK /\ block \in Blocks

(***************************************************************************)
(* Receipts are asked for while a transaction's is "unasked" only, and the *)
(* loop that asks is over before the first log event is made: by then no   *)
(* log out of which a wallet's tokens moved has been forgotten.            *)
(***************************************************************************)
ReceiptInv ==
  /\ \A k \in Txs : requests[k] = IF receipts[k] = "unasked" THEN 0 ELSE 1
  /\ pc = "query" => next = 1
  /\ pc = "receipts" =>
       \A j \in Logs : j < next /\ block.logs[j].from \in Monitored
                         => receipts[block.logs[j].tx] # "unasked"
  /\ pc = "logs" =>
       \A j \in Logs : block.logs[j].from \in Monitored
                         => receipts[block.logs[j].tx] # "unasked"
  /\ GasComplete

(* Every block has transactions and logs of their types, and every log is  *)
(* of a transaction of the block. *)
LEMMA BlockShape ==
  ASSUME TypeInv
  PROVE  /\ Txs \subseteq Nat \ {0}
         /\ \A k \in Txs : block.txs[k] \in Transaction
         /\ Logs = 1..Len(block.logs) /\ Len(block.logs) \in Nat
         /\ \A j \in Logs : block.logs[j] \in TransferLog /\ block.logs[j].tx \in Txs
<1>1. block.txs \in Seq(Transaction) /\ block.logs \in Seq(TransferLog)
  BY DEF TypeInv, TypeOK, Block
<1>2. \A j \in Logs : block.logs[j].tx \in Txs
  BY CollectionAssumption DEF TypeInv, Logs, Txs
<1> QED
  BY <1>1, <1>2 DEF Txs, Logs

(* The events of one log are events of monitored wallets. *)
LEMMA LogEventsType ==
  ASSUME TypeInv, NEW j \in Logs
  PROVE  LogEvents(j) \subseteq EventRecord
<1>1. block.logs[j].tx \in Nat \ {0} /\ j \in Nat
  BY BlockShape DEF TransferLog
<1>2. \A w : Direction(w, block.logs[j]) \in {"INCOMING", "OUTGOING", "MINT", "BURN"}
  BY DEF Direction
<1> QED
  BY <1>1, <1>2 DEF LogEvents, Event, EventRecord

(* Tokens that left a wallet are reported without gas only when the        *)
(* receipt is not there. *)
LEMMA LogEventsGas ==
  ASSUME TypeInv, NEW j \in Logs, NEW e \in LogEvents(j),
         e.activity \in Outward, e.gas = "absent"
  PROVE  /\ block.logs[j].from \in Monitored
         /\ e.tx = block.logs[j].tx
         /\ receipts[e.tx] # "fetched"
<1> DEFINE log == block.logs[j]
<1>1. PICK w \in Monitored \cap {log.from, log.to} :
        e = Event(w, log.tx, "TOKEN_TRANSFER", Direction(w, log),
                  IF Direction(w, log) \in Outward /\ receipts[log.tx] = "fetched"
                    THEN "filled" ELSE "absent", j)
  BY DEF LogEvents
<1>2. Direction(w, log) \in Outward /\ e.tx = log.tx
  BY <1>1 DEF Event
<1>3. w # log.to
  BY <1>2 DEF Direction, Outward
<1>4. receipts[log.tx] # "fetched"
  BY <1>1, <1>2 DEF Event
<1> QED
  BY <1>1, <1>2, <1>3, <1>4

-----------------------------------------------------------------------------
LEMMA TypeInit == Init => TypeInv
<1> SUFFICES ASSUME Init PROVE TypeInv
  OBVIOUS
<1>1. block \in Blocks /\ block \in Block
  BY CollectionAssumption DEF Init
<1> QED
  BY <1>1 DEF Init, TypeInv, TypeOK

LEMMA TypeNext == TypeInv /\ [Next]_vars => TypeInv'
<1> SUFFICES ASSUME TypeInv, [Next]_vars PROVE TypeInv'
  OBVIOUS
<1>0. TypeOK /\ block \in Blocks
  BY DEF TypeInv
<1>1. CASE CollectTx
  <2>1. PICK gas \in {"filled", "blank"} :
          events' = events \cup NativeIncoming(next) \cup
            (IF SentByWallet(next)
               THEN {Event(block.txs[next].from, next, SentType(next), "OUTGOING", gas, 0)}
               ELSE {})
    BY <1>1 DEF CollectTx
  <2>2. next \in Nat \ {0} /\ 0 \in Nat
    BY <1>0 DEF TypeOK
  <2>3. NativeIncoming(next) \subseteq EventRecord
    BY <2>2 DEF NativeIncoming, Event, EventRecord
  <2>4. SentByWallet(next) =>
          Event(block.txs[next].from, next, SentType(next), "OUTGOING", gas, 0)
            \in EventRecord
    BY <2>2 DEF SentByWallet, SentType, Event, EventRecord
  <2>5. events' \subseteq EventRecord
    BY <1>0, <2>1, <2>3, <2>4 DEF TypeOK
  <2> QED
    BY <1>0, <1>1, <2>5 DEF CollectTx, TypeInv, TypeOK, Txs
<1>2. CASE Panic
  BY <1>0, <1>2 DEF Panic, TypeInv, TypeOK, Txs
<1>3. CASE TxsDone
  BY <1>0, <1>3 DEF TxsDone, TypeInv, TypeOK, Txs
<1>4. CASE QueryLogsOk \/ QueryLogsFails
  BY <1>0, <1>4 DEF QueryLogsOk, QueryLogsFails, TypeInv, TypeOK, Txs
<1>5. CASE SkipReceipt
  BY <1>0, <1>5 DEF SkipReceipt, TypeInv, TypeOK, Txs
<1>6. CASE RequestReceipt
  <2>1. block.logs[next].tx \in Txs
    BY <1>6, BlockShape DEF RequestReceipt
  <2>2. requests' \in [Txs -> Nat]
    BY <1>0, <1>6, <2>1 DEF RequestReceipt, TypeOK
  <2> QED
    BY <1>0, <1>6, <2>1, <2>2 DEF RequestReceipt, TypeInv, TypeOK, Txs
<1>7. CASE ReceiptsDone \/ LogsDone
  BY <1>0, <1>7 DEF ReceiptsDone, LogsDone, TypeInv, TypeOK, Txs
<1>8. CASE CollectLog
  <2>1. LogEvents(next) \subseteq EventRecord
    BY <1>8, LogEventsType DEF CollectLog
  <2> QED
    BY <1>0, <1>8, <2>1 DEF CollectLog, TypeInv, TypeOK, Txs
<1>9. CASE UNCHANGED vars
  BY <1>0, <1>9 DEF vars, TypeInv, TypeOK, Txs
<1> QED
  BY <1>1, <1>2, <1>3, <1>4, <1>5, <1>6, <1>7, <1>8, <1>9 DEF Next

-----------------------------------------------------------------------------
LEMMA ReceiptInit == Init => ReceiptInv
BY DEF Init, ReceiptInv, GasComplete

LEMMA ReceiptNext == TypeInv /\ ReceiptInv /\ [Next]_vars => ReceiptInv'
<1> SUFFICES ASSUME TypeInv, ReceiptInv, [Next]_vars PROVE ReceiptInv'
  OBVIOUS
<1>0. TypeOK
  BY DEF TypeInv
<1> USE DEF ReceiptInv
<1>1. CASE CollectTx
  <2>1. \A e \in events' : e \in events \/ e.log = 0
    BY <1>1 DEF CollectTx, NativeIncoming, Event
  <2> QED
    BY <1>1, <2>1 DEF CollectTx, GasComplete, Txs, Logs
<1>2. CASE Panic
  BY <1>2 DEF Panic, GasComplete, Txs, Logs
<1>3. CASE TxsDone
  BY <1>3 DEF TxsDone, GasComplete, Txs, Logs
<1>4. CASE QueryLogsOk \/ QueryLogsFails
  <2>1. QueryLogsOk => \A j \in Logs : ~(j < next)
    BY BlockShape DEF QueryLogsOk
  <2> QED
    BY <1>4, <2>1 DEF QueryLogsOk, QueryLogsFails, GasComplete, Txs, Logs
<1>5. CASE SkipReceipt
  <2>1. \A j \in Logs : j < next + 1 => j < next \/ j = next
    BY <1>0, BlockShape DEF TypeOK
  <2> QED
    BY <1>5, <2>1 DEF SkipReceipt, NeedsReceipt, GasComplete, Txs, Logs
<1>6. CASE RequestReceipt
  <2> DEFINE k == block.logs[next].tx
  <2>1. k \in Txs /\ receipts[k] = "unasked" /\ requests[k] = 0
    BY <1>6, BlockShape DEF RequestReceipt, NeedsReceipt
  <2>2. PICK answer \in {"fetched", "missing"} :
          receipts' = [receipts EXCEPT ![k] = answer]
    BY <1>6 DEF RequestReceipt
  <2>3. \A t \in Txs : receipts[t] # "unasked" => receipts'[t] = receipts[t]
    BY <1>0, <2>1, <2>2 DEF TypeOK
  <2>4. receipts'[k] # "unasked"
    BY <1>0, <2>1, <2>2 DEF TypeOK
  <2>5. \A t \in Txs : requests'[t] = IF receipts'[t] = "unasked" THEN 0 ELSE 1
    BY <1>0, <1>6, <2>1, <2>2 DEF RequestReceipt, TypeOK
  <2>6. \A j \in Logs : j < next + 1 => j < next \/ j = next
    BY <1>0, BlockShape DEF TypeOK
  <2>7. \A j \in Logs : block.logs[j].tx \in Txs
    BY BlockShape
  <2>8. \A j \in Logs : j < next' /\ block.logs[j].from \in Monitored
                          => receipts'[block.logs[j].tx] # "unasked"
    BY <1>6, <2>3, <2>4, <2>6, <2>7 DEF RequestReceipt
  <2>9. GasComplete'
    <3> SUFFICES ASSUME NEW e \in events, e.log # 0, e.activity \in Outward,
                        e.gas = "absent"
                 PROVE  receipts'[e.tx] = "missing"
      BY <1>6 DEF RequestReceipt, GasComplete
    <3>1. receipts[e.tx] = "missing"
      BY DEF GasComplete
    <3> QED
      BY <1>0, <2>1, <2>2, <3>1 DEF TypeOK
  <2> QED
    BY <1>6, <2>5, <2>8, <2>9 DEF RequestReceipt, Txs, Logs
<1>7. CASE ReceiptsDone
  <2>1. \A j \in Logs : j < next
    BY <1>0, <1>7, BlockShape DEF ReceiptsDone, TypeOK
  <2> QED
    BY <1>7, <2>1 DEF ReceiptsDone, GasComplete, Txs, Logs
<1>8. CASE CollectLog
  <2>1. \A e \in LogEvents(next) :
          e.activity \in Outward /\ e.gas = "absent" => receipts[e.tx] = "missing"
    <3> SUFFICES ASSUME NEW e \in LogEvents(next), e.activity \in Outward,
                        e.gas = "absent"
                 PROVE  receipts[e.tx] = "missing"
      OBVIOUS
    <3>1. /\ block.logs[next].from \in Monitored
          /\ e.tx = block.logs[next].tx
          /\ receipts[e.tx] # "fetched"
      BY <1>8, LogEventsGas DEF CollectLog
    <3>2. receipts[e.tx] # "unasked"
      BY <1>8, <3>1 DEF CollectLog
    <3>3. e.tx \in Txs
      BY <1>8, <3>1, BlockShape DEF CollectLog
    <3> QED
      BY <1>0, <3>1, <3>2, <3>3 DEF TypeOK
  <2> QED
    BY <1>8, <2>1 DEF CollectLog, GasComplete, Txs, Logs
<1>9. CASE LogsDone
  BY <1>9 DEF LogsDone, GasComplete, Txs, Logs
<1>10. CASE UNCHANGED vars
  BY <1>10 DEF vars, GasComplete, Txs, Logs
<1> QED
  BY <1>1, <1>2, <1>3, <1>4, <1>5, <1>6, <1>7, <1>8, <1>9, <1>10 DEF Next

-----------------------------------------------------------------------------
(***************************************************************************)
(* What the two passes have reported so far: of a transaction, that a      *)
(* wallet sent it, unless it went to a known contract; of a log, exactly   *)
(* the events LogEvents gives it, all made from the same receipts.         *)
(***************************************************************************)
TxsReported(n) ==
  \A k \in Txs : k < n /\ SentByWallet(k) =>
    \E e \in events : e.tx = k /\ e.wallet = block.txs[k].from

LogsReported(n) ==
  /\ \A j \in Logs : j < n => {e \in events : e.log = j} = LogEvents(j)
  /\ \A e \in events : e.log < n
  /\ 1..(n - 1) \subseteq Logs

ReportInv ==
  /\ pc = "txs" => TxsReported(next)
  /\ pc \in {"query", "receipts", "logs", "done"} => \A k \in Txs : TxsReported(k + 1)
  /\ pc \in {"txs", "query", "receipts"} => \A e \in events : e.log = 0
  /\ pc = "logs" => LogsReported(next)
  /\ pc = "done" =>
       \/ \A e \in events : e.log = 0
       \/ \A j \in Logs : {e \in events : e.log = j} = LogEvents(j)

(* The events of a log carry its number and its transaction, and there is  *)
(* one for each monitored side. *)
LEMMA LogEventsOf ==
  ASSUME TypeInv, NEW j \in Logs
  PROVE  /\ \A e \in LogEvents(j) : e.log = j /\ e.tx = block.logs[j].tx
         /\ \A w \in Monitored \cap {block.logs[j].from, block.logs[j].to} :
              \E e \in LogEvents(j) : e.wallet = w
<1> DEFINE log == block.logs[j]
           gas(w) == IF Direction(w, log) \in Outward /\ receipts[log.tx] = "fetched"
                       THEN "filled" ELSE "absent"
           ev(w) == Event(w, log.tx, "TOKEN_TRANSFER", Direction(w, log), gas(w), j)
<1>1. LogEvents(j) = {ev(w) : w \in Monitored \cap {log.from, log.to}}
  BY DEF LogEvents
<1>2. \A w : ev(w).log = j /\ ev(w).tx = log.tx /\ ev(w).wallet = w
  BY DEF Event
<1> HIDE DEF ev
<1> QED
  BY <1>1, <1>2

LEMMA ReportInit == Init => ReportInv
<1> SUFFICES ASSUME Init PROVE ReportInv
  OBVIOUS
<1>1. Txs \subseteq Nat \ {0}
  BY TypeInit, BlockShape
<1> QED
  BY <1>1 DEF Init, ReportInv, TxsReported

LEMMA ReportNext == TypeInv /\ ReportInv /\ [Next]_vars => ReportInv'
<1> SUFFICES ASSUME TypeInv, ReportInv, [Next]_vars PROVE ReportInv'
  OBVIOUS
<1>0. TypeOK /\ next \in Nat \ {0} /\ Txs \subseteq Nat \ {0} /\ Logs \subseteq Nat \ {0}
  BY BlockShape DEF TypeInv, TypeOK
<1>1. CASE CollectTx
  <2>1. PICK gas \in {"filled", "blank"} :
          events' = events \cup NativeIncoming(next) \cup
            (IF SentByWallet(next)
               THEN {Event(block.txs[next].from, next, SentType(next), "OUTGOING", gas, 0)}
               ELSE {})
    BY <1>1 DEF CollectTx
  <2>2. \A e \in events' : e \in events \/ e.log = 0
    BY <2>1 DEF NativeIncoming, Event
  <2>3. SentByWallet(next) =>
          \E e \in events' : e.tx = next /\ e.wallet = block.txs[next].from
    <3> DEFINE sent == Event(block.txs[next].from, next, SentType(next), "OUTGOING", gas, 0)
    <3>1. sent.tx = next /\ sent.wallet = block.txs[next].from
      BY DEF Event
    <3>2. SentByWallet(next) => sent \in events'
      BY <2>1
    <3> QED
      BY <3>1, <3>2
  <2>4. events \subseteq events'
    BY <2>1
  <2>5. TxsReported(next) /\ \A e \in events : e.log = 0
    BY <1>1 DEF CollectTx, ReportInv
  <2>6. \A k \in Txs : k < next + 1 => k < next \/ k = next
    BY <1>0
  <2>7. \A k \in Txs : k < next + 1 /\ SentByWallet(k) =>
          \E e \in events' : e.tx = k /\ e.wallet = block.txs[k].from
    BY <2>3, <2>4, <2>5, <2>6 DEF TxsReported
  <2> QED
    BY <1>1, <2>2, <2>5, <2>7
       DEF CollectTx, ReportInv, TxsReported, Txs, SentByWallet
<1>2. CASE Panic
  BY <1>2 DEF Panic, ReportInv
<1>3. CASE TxsDone
  <2>1. \A k \in Txs : k < next
    <3>1. block.txs \in Seq(Transaction)
      BY <1>0 DEF TypeOK, Block
    <3>2. Txs = 1..Len(block.txs) /\ Len(block.txs) \in Nat
      BY <3>1 DEF Txs
    <3> QED
      BY <1>0, <1>3, <3>2 DEF TxsDone
  <2>2. \A k \in Txs : TxsReported(k + 1)
    BY <1>3, <2>1 DEF TxsDone, ReportInv, TxsReported
  <2>3. (\A k \in Txs : TxsReported(k + 1))'
    BY <1>3, <2>2 DEF TxsDone, TxsReported, Txs, SentByWallet
  <2> QED
    BY <1>3, <2>3 DEF TxsDone, ReportInv
<1>4. ASSUME UNCHANGED <<block, events>>, \A k \in Txs : TxsReported(k + 1)
      PROVE  (\A k \in Txs : TxsReported(k + 1))'
  BY <1>4 DEF TxsReported, Txs, SentByWallet
<1>5. CASE QueryLogsOk \/ QueryLogsFails \/ SkipReceipt \/ RequestReceipt
  BY <1>4, <1>5
     DEF QueryLogsOk, QueryLogsFails, SkipReceipt, RequestReceipt, ReportInv
<1>6. CASE ReceiptsDone
  <2>1. LogsReported(1)
    BY <1>0, <1>6 DEF ReceiptsDone, ReportInv, LogsReported
  <2>2. LogsReported(next)'
    BY <1>0, <1>6, <2>1 DEF ReceiptsDone, LogsReported, Logs, LogEvents
  <2> QED
    BY <1>4, <1>6, <2>2 DEF ReceiptsDone, ReportInv
<1>7. CASE CollectLog
  <2>1. \A e \in LogEvents(next) : e.log = next
    BY <1>7, LogEventsOf DEF CollectLog
  <2>2. LogsReported(next)
    BY <1>7 DEF CollectLog, ReportInv
  <2>3. \A j \in Logs : LogEvents(j)' = LogEvents(j)
    BY <1>7 DEF CollectLog, LogEvents
  <2>4. ASSUME NEW j \in Logs, j < next + 1
        PROVE  {e \in events' : e.log = j} = LogEvents(j)
    <3>1. CASE j < next
      BY <1>0, <1>7, <2>1, <2>2, <3>1 DEF CollectLog, LogsReported
    <3>2. CASE j = next
      <4>1. \A e \in events : e.log # next
        BY <1>0, <2>2 DEF LogsReported
      <4> QED
        BY <1>7, <2>1, <3>2, <4>1 DEF CollectLog
    <3> QED
      BY <1>0, <2>4, <3>1, <3>2
  <2>5. \A e \in events' : e.log < next + 1
    <3>1. \A e \in events : e.log \in Nat
      BY <1>0 DEF TypeOK, EventRecord
    <3> QED
      BY <1>0, <1>7, <2>1, <2>2, <3>1 DEF CollectLog, LogsReported
  <2>6. LogsReported(next)'
    <3>1. 1..((next + 1) - 1) \subseteq Logs
      BY <1>0, <1>7, <2>2 DEF CollectLog, LogsReported
    <3> QED
      BY <1>7, <2>3, <2>4, <2>5, <3>1 DEF CollectLog, LogsReported, Logs
  <2>7. (\A k \in Txs : TxsReported(k + 1))'
    <3>1. \A k \in Txs : TxsReported(k + 1)
      BY <1>7 DEF CollectLog, ReportInv
    <3> QED
      BY <1>7, <3>1 DEF CollectLog, TxsReported, Txs, SentByWallet
  <2> QED
    BY <1>7, <2>6, <2>7 DEF CollectLog, ReportInv
<1>8. CASE LogsDone
  <2>1. \A j \in Logs : j < next
    BY <1>0, <1>8, BlockShape DEF LogsDone
  <2>2. \A j \in Logs : {e \in events : e.log = j} = LogEvents(j)
    BY <1>8, <2>1 DEF LogsDone, ReportInv, LogsReported
  <2>3. (\A j \in Logs : {e \in events : e.log = j} = LogEvents(j))'
    BY <1>8, <2>2 DEF LogsDone, Logs, LogEvents
  <2> QED
    BY <1>4, <1>8, <2>3 DEF LogsDone, ReportInv
<1>9. CASE UNCHANGED vars
  BY <1>9 DEF vars, ReportInv, TxsReported, LogsReported, Txs, Logs, SentByWallet,
     LogEvents
<1> QED
  BY <1>1, <1>2, <1>3, <1>5, <1>6, <1>7, <1>8, <1>9 DEF Next
-----------------------------------------------------------------------------
(* Every variable keeps its type; only monitored wallets get events. *)
THEOREM CollectionTypeCorrect == Spec => []TypeOK
<1>1. TypeInv => TypeOK
  BY DEF TypeInv
<1> QED
  BY <1>1, TypeInit, TypeNext, PTL DEF Spec

(* Each receipt is asked for once, and gas is missing of an outward token  *)
(* event only when the provider did not give the receipt.                  *)
THEOREM GasAttribution == Spec => [](OneRequestPerTx /\ GasComplete)
<1>1. TypeInv /\ ReceiptInv => OneRequestPerTx /\ GasComplete
  BY DEF ReceiptInv, OneRequestPerTx
<1>2. Spec => []TypeInv
  BY TypeInit, TypeNext, PTL DEF Spec
<1> QED
  BY <1>1, <1>2, ReceiptInit, ReceiptNext, PTL DEF Spec

(* No receipt is asked for twice in the log pass. *)
THEOREM ReceiptsOnce == Spec => []OneRequestPerTx
BY GasAttribution, PTL

(***************************************************************************)
(* Whatever the log query and the receipts do, a transaction a wallet sent *)
(* is in the events, or went to a known contract without a log of the      *)
(* wallet, or the logs were not collected.                                 *)
(***************************************************************************)
THEOREM SentHasEvent == Spec => []SentReported
<1>1. ASSUME TypeInv, ReportInv PROVE SentReported
  <2> SUFFICES ASSUME pc = "done", NEW k \in Txs, block.txs[k].from \in Monitored,
                      ~\E e \in events : e.tx = k /\ e.wallet = block.txs[k].from
               PROVE  /\ block.txs[k].to \in KnownContracts
                      /\ \/ \A j \in Logs : block.logs[j].tx = k =>
                              block.txs[k].from \notin
                                {block.logs[j].from, block.logs[j].to}
                         \/ \A e \in events : e.log = 0
    BY DEF SentReported
  <2>1. k < k + 1
    BY <1>1, BlockShape
  <2>2. block.txs[k].to \in KnownContracts
    BY <1>1, <2>1 DEF ReportInv, TxsReported, SentByWallet
  <2>3. ASSUME \A j \in Logs : {e \in events : e.log = j} = LogEvents(j),
               NEW j \in Logs, block.logs[j].tx = k,
               block.txs[k].from \in {block.logs[j].from, block.logs[j].to}
        PROVE  FALSE
    <3>1. PICK e \in LogEvents(j) : e.wallet = block.txs[k].from
      BY <1>1, <2>3, LogEventsOf
    <3>2. e.tx = k /\ e \in events
      BY <1>1, <2>3, LogEventsOf
    <3> QED
      BY <3>1, <3>2
  <2> QED
    BY <1>1, <2>2, <2>3 DEF ReportInv
<1>2. Spec => []TypeInv
  BY TypeInit, TypeNext, PTL DEF Spec
<1> QED
  BY <1>1, <1>2, ReportInit, ReportNext, PTL DEF Spec

(* A set of events of one wallet and one log has as many elements as the   *)
(* one event LogEvents makes for them allows.                              *)
LEMMA FlowCount ==
  ASSUME TypeInv, NEW j \in Logs, {e \in events : e.log = j} = LogEvents(j),
         NEW w \in Monitored, block.logs[j].from # block.logs[j].to
  PROVE  /\ Inflow(w, j) = (IF block.logs[j].to = w THEN 1 ELSE 0)
         /\ Outflow(w, j) = (IF block.logs[j].from = w THEN 1 ELSE 0)
<1> DEFINE log == block.logs[j]
           gas(v) == IF Direction(v, log) \in Outward /\ receipts[log.tx] = "fetched"
                       THEN "filled" ELSE "absent"
           ev(v) == Event(v, log.tx, "TOKEN_TRANSFER", Direction(v, log), gas(v), j)
           mine == {e \in events : e.log = j /\ e.wallet = w}
           in == {e \in events : e.wallet = w /\ e.log = j /\ e.activity \notin Outward}
           out == {e \in events : e.wallet = w /\ e.log = j /\ e.activity \in Outward}
<1>1. LogEvents(j) = {ev(v) : v \in Monitored \cap {log.from, log.to}}
  BY DEF LogEvents
<1>2. \A v : ev(v).wallet = v /\ ev(v).log = j /\ ev(v).activity = Direction(v, log)
  BY DEF Event
<1> HIDE DEF ev
<1>3. w \in {log.from, log.to} => mine = {ev(w)}
  BY <1>1, <1>2
<1>4. w \notin {log.from, log.to} => mine = {}
  BY <1>1, <1>2
<1>5. log.to = w => Direction(w, log) \notin Outward
  BY DEF Direction, Outward
<1>6. log.to # w => Direction(w, log) \in Outward
  BY DEF Direction, Outward
<1>7. CASE log.to = w
  <2>1. log.from # w /\ in = {ev(w)} /\ out = {}
    BY <1>2, <1>3, <1>5, <1>7
  <2> QED
    BY <1>7, <2>1, FS_EmptySet, FS_Singleton DEF Inflow, Outflow
<1>8. CASE log.from = w
  <2>1. log.to # w /\ in = {} /\ out = {ev(w)}
    BY <1>2, <1>3, <1>6, <1>8
  <2> QED
    BY <1>8, <2>1, FS_EmptySet, FS_Singleton DEF Inflow, Outflow
<1>9. CASE w \notin {log.from, log.to}
  <2>1. in = {} /\ out = {}
    BY <1>4, <1>9
  <2> QED
    BY <1>9, <2>1, FS_EmptySet DEF Inflow, Outflow
<1> QED
  BY <1>7, <1>8, <1>9

(* The direction of the events of each log agrees with what the log did to *)
(* the balances, for every number of logs, wallets and receipts.           *)
THEOREM FlowsAgree == Spec => []FlowsMatch
<1>1. ASSUME TypeInv, ReportInv PROVE FlowsMatch
  <2> SUFFICES ASSUME pc = "logs", NEW w \in Monitored, NEW j \in 1..(next - 1),
                      block.logs[j].from # block.logs[j].to
               PROVE  /\ Inflow(w, j) = (IF block.logs[j].to = w THEN 1 ELSE 0)
                      /\ Outflow(w, j) = (IF block.logs[j].from = w THEN 1 ELSE 0)
    BY DEF FlowsMatch
  <2>1. j \in Logs /\ j < next
    BY <1>1, BlockShape DEF TypeInv, TypeOK, ReportInv, LogsReported
  <2>2. {e \in events : e.log = j} = LogEvents(j)
    BY <1>1, <2>1 DEF ReportInv, LogsReported
  <2> QED
    BY <1>1, <2>1, <2>2, FlowCount
<1>2. Spec => []TypeInv
  BY TypeInit, TypeNext, PTL DEF Spec
<1> QED
  BY <1>1, <1>2, ReportInit, ReportNext, PTL DEF Spec

(***************************************************************************)
(* Known contracts are no monitored wallets: what a transaction yields by  *)
(* itself is then never of a known contract.                               *)
(***************************************************************************)
NotKnown ==
  \A e \in events :
    e.log = 0 => e.tx \in Txs /\ block.txs[e.tx].to \notin KnownContracts

(* Then the two passes never report one key of the ledger both, except for *)
(* contracts that are not known: only two logs of one transaction do.      *)
THEOREM KeysDisjoint ==
  ASSUME Monitored \cap KnownContracts = {}
  PROVE  Spec => []KeysClashOnlyByLogs
<1>1. Init => NotKnown
  BY DEF Init, NotKnown
<1>2. ASSUME TypeInv, ReportInv, NotKnown, [Next]_vars PROVE NotKnown'
  <2>1. CASE CollectTx
    <3>1. \A e \in NativeIncoming(next) : e.tx = next /\ block.txs[next].to \in Monitored
      BY DEF NativeIncoming, Event
    <3>2. PICK gas \in {"filled", "blank"} :
            events' = events \cup NativeIncoming(next) \cup
              (IF SentByWallet(next)
                 THEN {Event(block.txs[next].from, next, SentType(next), "OUTGOING",
                             gas, 0)}
                 ELSE {})
      BY <2>1 DEF CollectTx
    <3>3. \A e \in events' : \/ e \in events
                             \/ e.tx = next /\ block.txs[next].to \in Monitored
                             \/ e.tx = next /\ SentByWallet(next)
      BY <3>1, <3>2 DEF Event
    <3> QED
      BY <1>2, <2>1, <3>3 DEF CollectTx, NotKnown, SentByWallet, Txs
  <2>2. CASE CollectLog
    <3>1. \A e \in LogEvents(next) : e.log # 0
      BY <1>2, <2>2, LogEventsOf, BlockShape DEF CollectLog
    <3> QED
      BY <1>2, <2>2, <3>1 DEF CollectLog, NotKnown, Txs
  <2>3. CASE UNCHANGED <<block, events>>
    BY <1>2, <2>3 DEF NotKnown, Txs
  <2> QED
    BY <1>2, <2>1, <2>2, <2>3
       DEF Next, vars, Panic, TxsDone, QueryLogsOk, QueryLogsFails, SkipReceipt,
           RequestReceipt, ReceiptsDone, LogsDone
<1>3. NotKnown => KeysClashOnlyByLogs
  BY DEF NotKnown, KeysClashOnlyByLogs, SameKey
<1>4. Spec => []TypeInv
  BY TypeInit, TypeNext, PTL DEF Spec
<1>5. Spec => []ReportInv
  BY <1>4, ReportInit, ReportNext, PTL DEF Spec
<1> QED
  BY <1>1, <1>2, <1>3, <1>4, <1>5, PTL DEF Spec
=============================================================================
