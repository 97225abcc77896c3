------------------------------ MODULE ChainOps ------------------------------
(***************************************************************************)
(* The system from the chain to the table: the listener, seen as BlockScan *)
(* and with what its messages hold, publishes to the stream that the       *)
(* ledger, LedgerConsumer, reads.  BlockScan is what EvmListener           *)
(* implements when no provider lags (EvmListenerProofs).                   *)
(*                                                                         *)
(* What a block holds is collected anew by every process that scans it,    *)
(* and not always with the same result: a receipt or the log query may     *)
(* fail, and the wallets may have changed.                                 *)
(***************************************************************************)
EXTENDS Integers, SequencesExt

CONSTANTS
  \* the listener
  LastBlock,   \* bound: the chain's blocks are 1..LastBlock
  Collected,   \* for each block, the sequences of events it may yield
  BatchSize,
  MaxRuns,
  \* the ledger
  NumMessages, Events, KeyOf, Unmappable, Overflowing, MaxAckPending,
  MaxCopies, MaxCrashes, MaxLost,
  NULL

Blocks == 1..LastBlock

VARIABLES
  \* the listener
  runs, next, total, sent,
  events,    \* what the block being published yielded
  headers,   \* history: run, block, batch and total of every message
  \* the server, the table and the ledger
  stream, first, nextSeq, pending, due, acked, rows, pc, inbox, cur, crashes,
  lost

Scan == INSTANCE BlockScan WITH stream <- Range(headers)

Ledger == INSTANCE LedgerConsumer WITH
  Offered <- [s \in 1..NumMessages |-> SUBSET Events]

ASSUME SystemAssumption ==
  /\ LastBlock \in Nat
  /\ Collected \in [Blocks -> SUBSET Seq(Events)]
  /\ BatchSize \in Nat \ {0}
  /\ Scan!ScanAssumption
  /\ Ledger!LedgerParameters

listenerVars == <<runs, next, total, sent, events, headers>>
ledgerVars == <<stream, first, nextSeq, pending, due, acked, rows, pc, inbox,
                cur, crashes, lost>>
vars == <<listenerVars, ledgerVars>>

-----------------------------------------------------------------------------
Least(m, n) == IF m < n THEN m ELSE n

Batches(msg, n) ==
  [i \in 1..n |-> SubSeq(msg, (i - 1) * BatchSize + 1, Least(i * BatchSize, Len(msg)))]

(* Mutant: the last batch is dropped when it is not full. *)
Chunk_FullOnly(msg) ==
  IF Len(msg) <= BatchSize THEN <<msg>> ELSE Batches(msg, Len(msg) \div BatchSize)

(* chunk: batches of BatchSize events, the last one with what is left. *)
Chunk(msg) ==
  IF Len(msg) <= BatchSize THEN <<msg>>
  ELSE Batches(msg, (Len(msg) + BatchSize - 1) \div BatchSize)

(* The steps of the listener that store no message. *)
Scanning ==
  /\ UNCHANGED <<headers, ledgerVars>>
  /\ \/ Scan!Start /\ UNCHANGED events
     \/ Scan!Stop /\ events' = <<>>
     \/ Scan!GiveUp /\ events' = <<>>
     \/ \E b \in 1..(LastBlock + 1) : Scan!Pass(b) /\ UNCHANGED events
     \/ \E b \in Blocks :
          /\ events' \in Collected[b] \ {<<>>}
          /\ Scan!Open(b, Len(Chunk(events')))

Publish ==
  /\ Ledger!stored < NumMessages
  /\ total # 0
  /\ headers' = Append(headers, Scan!Message)
  /\ Scan!Store
  /\ events' = IF total' = 0 THEN <<>> ELSE events
  /\ Ledger!Store(Range(Chunk(events)[sent + 1]))

Consume == Ledger!Consume /\ UNCHANGED listenerVars

Init ==
  /\ events = <<>>
  /\ headers = <<>>
  /\ Scan!Init
  /\ Ledger!Init

Next == Scanning \/ Publish \/ Consume

(* Nothing is assumed of the listener: it may stop for good.  The ledger   *)
(* and its server are as fair as in LedgerConsumer.                        *)
Spec ==
  /\ Init /\ [][Next]_vars
  /\ WF_ledgerVars(Ledger!Subscribe)
  /\ WF_ledgerVars(Ledger!Deliver)
  /\ WF_ledgerVars(Ledger!Take)
  /\ WF_ledgerVars(Ledger!PersistOk \/ Ledger!PersistFails)
  /\ WF_ledgerVars(Ledger!Ack \/ Ledger!Nak)
  /\ \A s \in Ledger!Messages :
       /\ WF_ledgerVars(Ledger!Redeliver(s))
       /\ WF_ledgerVars(Ledger!AckWaitExpires(s))
       /\ SF_ledgerVars(cur = s /\ Ledger!PersistOk)

-----------------------------------------------------------------------------
(* Properties. *)

(* publisher.go:103-123: the batches of a block hold all its events, in    *)
(* their order and none twice, and none of them is empty or too large.     *)
ChunkWhole ==
  total # 0 =>
    /\ FlattenSeq(Chunk(events)) = events
    /\ \A batch \in Range(Chunk(events)) : Len(batch) \in 1..BatchSize

(* publisher.go:55-64 and evm_listener.go:71-74, as the ledger's server    *)
(* numbers the messages: a process' messages come after those of the       *)
(* processes before it, in ascending order of block and batch and none of  *)
(* them twice, whatever is given up, retried or stopped.                   *)
StreamAscends ==
  \A i, j \in 1..Len(headers) :
    LET m == headers[i]
        n == headers[j]
    IN  i < j =>
          \/ m.run < n.run /\ m.block <= n.block
          \/ m.run = n.run /\ m.block < n.block
          \/ m.run = n.run /\ m.block = n.block /\ m.batch < n.batch

(* The messages one process published of the block of message i.           *)
SameBlock(i) ==
  {j \in 1..Len(headers) : /\ headers[j].run = headers[i].run
                           /\ headers[j].block = headers[i].block}

BlockAcked(i) ==
  \A k \in 1..headers[i].total : \E j \in SameBlock(i) \cap acked : headers[j].batch = k

(* V1_SCOPE.md:114, from the collection to the table: once all messages of *)
(* a block are acked, the rows that came with them are exactly what one    *)
(* collection of the block yielded and an entity can be made of: no batch  *)
(* is cut off, taken from another collection or acked too early.           *)
BlockArrives ==
  \A i \in 1..Len(headers) :
    BlockAcked(i) =>
      \E msg \in Collected[headers[i].block] :
        Range(msg) \ Unmappable = {r.event : r \in {q \in rows : q.msg \in SameBlock(i)}}

(* A message the ledger is to see, and the table could take. *)
Awaited(s) ==
  /\ first # NULL
  /\ s \in first..Ledger!stored
  /\ Ledger!Fits(s)

Stored(s) == s \in 1..Ledger!stored

Arrived(s) == Stored(s) /\ Ledger!Arrived(s)

(* Messages the table refuses take all places of the consumer. *)
Clogged ==
  Cardinality({s \in pending : ~Ledger!Insertable(s) /\ ~(cur = s /\ pc = "ack")})
    >= MaxAckPending

(* chainops-nats.md:23, from the listener's collection to the table:       *)
(* whatever the listener gives up, skips or publishes again and however    *)
(* the ledger crashes, the events of a stored message get their rows. Only *)
(* two things stand in the way: another collection of the same block that  *)
(* found some of the message's events and not the others, and refused      *)
(* messages that fill max_ack_pending.                                     *)
Delivered ==
  \A s \in Ledger!Messages :
    Awaited(s) ~> (Arrived(s) \/ (Stored(s) /\ Ledger!Mixed(s)) \/ Clogged)

(* chainops-nats.md:154 "Idempotency is per-event, not per-batch": a block *)
(* that is published again brings the events the table does not have yet.  *)
RepeatsAbsorbed == \A s \in Ledger!Messages : Awaited(s) ~> Arrived(s)
=============================================================================
