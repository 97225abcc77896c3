# ChainOps, specified and verified

TLA+ specifications of ChainOps: a Go listener that scans an EVM chain for the
activity of indexed wallets and publishes it to a NATS JetStream stream, and a
Java ledger that stores what it receives and issues the nonces of the wallet
sign-in. Each module is translated from the code and checked with TLC on small
instances; every safety property is also proved with TLAPS, for all values of
the constants.

## 1. The system

    chain --RPC--> providers --> EVM listener --> publisher --> JetStream
                                   |    ^                          |
                                   v    |                          v
                              PostgreSQL (networks,           ledger consumer
                              sessions, indexed_wallets)           |
                                                                   v
      HTTP --> SIWE nonce service (in memory)             wallet_activities

| Component | State it keeps | Operations | What is hard about it | What makes it correct |
|---|---|---|---|---|
| EVM listener (`service/evm_listener.go`) | block pointer, last block, session id (lost with the process); `last_scanned_block`, session rows (survive) | start, tick, scan a range, persist, shut down | every call may fail, the process may die or be cancelled between any two calls, the chain and the wallets change meanwhile, providers lag | no owed block is passed over, nothing shallow is published, sessions tell the truth, it catches up, it stops |
| RPC providers (`providers/`) | health and failure count of each | fail, probe, choose | failover, all unhealthy | an unhealthy provider comes back |
| Event collection (`evm_listener.go`, `usdc_event.go`) | none between blocks; a receipt cache within one | classify transactions and Transfer logs | receipts and log queries fail one by one; two collectors see the same transaction | each movement once, in the right direction, with the right fee |
| Publisher (`publisher/`) | the NATS connection | publish a block in batches | lost acknowledgements, failure in the middle | order, no duplicates within a run, only last batches missing |
| Listener DB access (`db/`) | one pool | queries | the answer to an update may be lost | - |
| Ledger consumer (`BlockActivityListener`, `WalletActivityService`) | messages being handled; the table | subscribe, handle, persist, ack, nak | at-least-once delivery, crash between commit and ack, constraint violations | acked means stored, whole batches, every message settles |
| SIWE nonces (`SiweNonceService`) | concurrent map of nonces | issue, consume, evict | threads, clock and eviction interleave | accepted once and in time; what is valid stays, what is not goes |
| Startup (`main.go`, `config/`, the connecting parts of `db/`, `providers/`, `publisher/`) | what was opened so far; a WaitGroup | load, connect, dial, spawn, await a signal, join | a signal or a failure at any call; a goroutine that may not have begun | `Run` starts only for what was validated; main ends, and after the goroutine |
| Logger (`logger/handler.go`) | a pool of buffers; a mutex for each handler | derive a handler, format a line, write it | goroutines share the pool, handlers share the writer | lines are whole, calls return |
| Web layer, tables without code | - | - | - | see "Not modelled" |

## 2. The modules

| Module | Models | Rests on |
|---|---|---|
| `EvmProviders` | health of the provider list | - |
| `BlockScan` | abstract: what a reader of the stream may rely on | - |
| `EvmListener` | `EvmListener.Run` with its calls to providers, database and publisher, over several processes; implements `BlockScan` | `EvmProviders`, `BlockScan` |
| `EventCollection` | `collectTxnEvents` and `collectUSDCEvents` for one block | - |
| `LedgerConsumer` | the JetStream consumer, `handle`, `persistAll` and the table | - |
| `ChainOps` | listener, stream and ledger together, with the events in the messages | `BlockScan`, `LedgerConsumer` |
| `NonceRegistry` | abstract: what the sign-in needs of a nonce store | - |
| `SiweNonce` | `SiweNonceService` with its threads and the scheduled task; implements `NonceRegistry` | `NonceRegistry` |
| `Startup` | `main` with the goroutine of the listener | - |
| `LogHandler` | `Handle` and `WithAttrs` of the slog handler | - |
| `MC...` | the values of the constants for TLC | the module of that name |
| `...Proofs` | the theorems (`ChainOpsProofs` takes those of `BlockScanProofs` and `LedgerConsumerProofs` for its parts) | the module of that name |

Definitions whose name has a suffix after an underscore and whose comment
begins with "Mutant" are faulty variants of the definition before the
underscore. No specification uses them; they show that a property notices the
fault.

### EvmListener

The goroutine of `Run` blocks in one call at a time. The variable `pc` names
that call: `start` and `session` (before the loop), `idle` (the select),
`header`, `wallets`, `block`, `publish`, `persist`; `down` is no process. Each
call has an action for its success and one for its failure, and each action
goes on to the next call, so it includes all assignments up to there. Between
any two steps the environment may act: `NewBlock`, `Watch`, `Unwatch`,
`RetryTimerExpires`, `Cancel`, `Crash`. A call made with a cancelled context
cannot succeed.

- Blocks are numbers; the chain never reorganizes (the scope document declares
  the safe-block buffer as the substitute for that). What happens in a block is
  the constant `Activity`: records of a block, a wallet, a source (transaction
  or USDC log). `Found` is what the collectors return for a block. Events are
  not named one by one in messages; a message is the process, the block and the
  batch number.
- A provider reports any head in `ReportedHeads`, at most `MaxLag` behind.
- A negative block number is a tag of the JSON-RPC API: `Returned`. For `pending` the
  answer may be the block after the head.
- A database update whose answer is lost may have been applied, an unacknowledged
  message may have been stored: both outcomes are allowed.
- `since` (when a wallet was indexed), `startBlock` (where the process began)
  and `collected` are history variables for the properties.
- The tick's range is `ScanFrom`..`CappedEnd`; the pointer after it `ResumeAt`.

An activity is *owed* (`Owed`) if its wallet is indexed now and was indexed
before the block became safe. That is the strongest promise the code can keep:
the wallets are read once for a range, after the header.

### BlockScan

Five variables are left of the listener: the number of the process, the block
`Run` is going to process next (`next`), how many messages that block has
(`total`), how many are out (`sent`), and the stream. A process may skip blocks
(`Pass`: blocks without events, or the jump to the safe block), open a block
with its messages, store them one by one, give the rest up, and stop. What it
may not do is in the guard `From`: go back within one process, or begin below a
block that an earlier process has published. `EvmListener` maps `next` to
`lastBlock + 1`, to `fromBlock` before any block is done, and to `blockNum`
while the first block of a process without a start block is published.
The mapping is a step function of `pc`: retried ranges, failed fetches and ticks
without wallets are stutters or `Pass` steps.

### EventCollection

One step is one transaction (with its receipt, which may be missing), one
receipt request of the log pass, or one log. An event is the wallet, the
transaction, the kinds, and whether its gas details are absent, filled, or blank
(the empty struct the code sends when the receipt is missing). Amounts, hashes and the
JSON form are left out. Monitored wallets are a set; two rows for one
account in different spelling would double its events and are not modelled.
The known contracts are accounts nobody monitors in the instance checked. In
`EvmListener` the whole of this is one atomic `Found`.

### LedgerConsumer

The server's side: `stream` (the batch of every message), the durable consumer's
beginning `first` and position `nextSeq`, `pending` and `due` messages; interest
retention and `DeliverPolicy.New` decide what is delivered at all. The process
has one dispatcher thread and an `inbox`, in which a message may occur twice.
`Offered` gives the batches each message may be, so that one run covers many
streams. `persistAll` is atomic because of `@Transactional`: it inserts all mapped
events or none. An event is mapped unless it is in `Unmappable`; an insert fails
for a key that is in the table or twice in the batch, or for an amount in
`Overflowing` (`Fits`, `Insertable`). `rows` keeps the message each row came with.

### ChainOps

The listener is `BlockScan` with what its messages hold: `Collected[b]` are the
sequences of events block `b` may yield (one process may miss a receipt or a log that
the next one gets), and `Chunk` cuts them as `publisher.go` does. `Publish` is one
step of the scan and of the server, so `headers` (run, block, batch) and the
ledger's `stream` grow together. `BlockScan` takes the place of `EvmListener`
because `EvmListenerProofs!Refinement` shows that this loses no behaviour of a
listener without lagging providers: what is proved or checked about this composition
holds of the detailed one. In turn `SystemScans` and `SystemConsumes` show that the
composition adds nothing to either part. `StreamAscends` speaks of the order in which
the server numbers the messages; `BlockArrives` follows a block from what a process
collected of it to the rows of the table.

### Startup

Every call of `main` is a step with a success and a failure; a failure is
`os.Exit(1)`, which runs no deferred call. A URL of the configuration is the chain
its server is of. The goroutine has steps of its own (it may not have begun when
the signal comes; it may panic). What `Run` does between is `EvmListener`; that it
returns after the cancellation is the fairness here and the property
`ShutdownCompletes` there.

### LogHandler

A call of `Handle` takes a buffer of the pool (or a new one, as `sync.Pool`
does), formats, locks the mutex of its handler, writes, unlocks, puts the buffer
back; the steps of goroutines interleave. The root handler is `New`'s; `WithAttrs`
copies its level and its attributes and, as in the code, gives the new handler a
mutex of its own. `withs` is a history variable: the arguments of `slog.With`
that led to a handler. A line is a sequence of parts, not of bytes.

### SiweNonce and NonceRegistry

Each operation on the `ConcurrentHashMap` is a step, reading the clock is a
step, and the eviction visits entry by entry. `deadline` and `accepted` are
history; under `now <- clock, uses <- accepted` the service implements the
registry, in which a nonce is accepted at most once and before its deadline.
`consumeNonce` has no caller in the repository yet; requests may call it at any
time. The wall clock is assumed not to step back.

## 3. What the runs show

Passing runs (distinct states in brackets):

| Run | Instance | Shows |
|---|---|---|
| `EvmLag` (2.5 M) | 1 process, 2 wallets, lag 1, heads 0-3, buffer 1, cap 2 | `TypeOK`; `PublishesDeep`: from block 0 on nothing shallower than the buffer is published; `RunCoverage`: the pointer passes no owed transaction; `SessionRange`, `CheckpointHolds`: the end of a row and the checkpoint fall back by the lag at most |
| `EvmRestart` (1.0 M) | 2 processes, 1 wallet, no lag, heads 1-3 | `ScansInOrder`: the listener implements `BlockScan`; `BatchPrefix`: a given-up block lacks only its last batches; `RunsOrdered`: a later process repeats at most the last block; `SessionCoverage`: closed rows cover their range |
| `EvmLiveness` (52 k) | liveness, 1 process, 2 providers, heads 1-3, cap 1 | `CatchesUp`, `ShutdownCompletes` |
| `CollectBlocks` (14 k) | 482 blocks of 1 or 2 transactions with up to 3 logs | `FlowsMatch`: directions agree with balances; `KeysClashOnlyByLogs`: the two collectors do not both report; `SentReported`: what a wallet sends has an event unless it went to a known contract; `OneRequestPerTx`, `GasComplete`: receipts |
| `LedgerFaults` (76 k) | 3 messages of 6 possible streams, one a block published again, one with an amount too large; 2 copies, 2 crashes, 1 lost answer | `AckedPersisted`, `WholeBatch`, `NothingSkipped`, `RefusedForReason`: what fits and is refused is in the table already or mixes the events of two messages; under fairness `Settles` |
| `ChainOps` (95 k) | 2 listener processes, 2 blocks, 3 possible collections, 4 messages, 2 pending at most, 1 ledger crash | `ChunkWhole`: batches hold the events; `StreamAscends`: the messages ascend by process, block and batch; `BlockArrives`: the rows of a block all of whose messages are acked are what one collection found; `Delivered`: a published message reaches the table but for the two reasons it names |
| `SiweNonce` (54 k) | 2 threads, 2 nonces, lifetime 2, clock 0-5 | `Implements`, `UsableKept`, `Evicted` |
| `LogHandler` (471 k) | 2 goroutines, 2 buffers, 2 attributes, up to 3 handlers, 3 calls | `LinesIntact`, `WritesExclusive`, `NeverLeftLocked`, `HandleReturns` |
| `Startup` (11 k) | every configuration with up to 3 URLs of 2 chains, keys in two spellings | `RunValidated`, `JoinsListener`, `SignalStops` |

Runs that find a violation; each states what a document or comment says and
shows that the code does otherwise:

| Run | Claim | What happens |
|---|---|---|
| `EvmGap` | "Listener resumes from `last + 1`" | a new process starts at the safe block |
| `EvmPublishError` | "The next block is never started until the previous block's batches all succeed" | it is, after an error |
| `ChainOpsRestart` | "Idempotency is per-event, not per-batch" | a restarted listener publishes its first block again, now with an event whose receipt or log was missing before; the table refuses the whole batch for the events it has, and the new one never arrives |

### Divergences read in the code, without a run

Each of these is a direct consequence of one line; the models behave as the
code does, and the statement of the document is not among their properties.

- A provider is unhealthy at its first failure (`evm_provider.go:35`); the
  comment at `:32` says "at threshold 3".
- Block numbers below 0 are possible on a chain younger than the buffer
  (`evm_listener.go:119`), and the RPC client sends them as tags such as
  `pending` and `latest`, so the newest block can be published, or one not mined
  yet; `V1_SCOPE.md:321` says never shallower than the buffer. `PublishesDeep` excepts
  such messages; `SafeDepth`, which does not, is proved under `DeepChain`.
- A failed log query counts as a block without token events
  (`usdc_event.go:54`); `V1_SCOPE.md:111` wants all of them. In `EventCollection`
  this is `QueryLogsFails`.
- With no wallet to monitor and a provider that lags, the checkpoint goes back
  (`evm_listener.go:133`); the comment at `db/networks.go:32` calls it the highest
  block processed. `CheckpointHolds` says that it goes back by the lag at most.
- A wallet's `approve` on USDC is reported by neither collector
  (`evm_listener.go:234`); `V1_SCOPE.md:112` says all outgoing transactions.
  `SentReported` states exactly what stays unreported.
- The fee of a transaction somebody else sent is attached to the wallet whose
  tokens it moved (`usdc_event.go:73`); `ChainOps_2026_06_04.sql:36` says "paid by
  transaction sender".
- Without its receipt an outgoing event has blank gas details
  (`evm_listener.go:240`), or none; `nats-sample-messages.md:54` says they are
  always present.
- The key of a row is (transaction, wallet, direction)
  (`ChainOps_2026_06_22.sql:2`); `V1_SCOPE.md:320` adds the log index for token events.
  A transaction that moves the token twice in one direction makes a batch with
  one key twice, which is refused for ever (`Fits`).
- A batch that is delivered again after its commit, because the ack was lost, is
  refused by the constraint and naked for ever (`BlockActivityListener.java:91`);
  `chainops-nats.md:154` calls redelivery harmless. `AckedPersisted` and `WholeBatch`
  hold all the same; `Settles` excepts such a message (`Savable`), and
  `Clogged` in `ChainOps` counts it.
- The providers' chain ids are compared with each other
  (`evm_provider.go:83`), not with the chain id of the `networks` row.
- Handlers derived from one root share its writer but not its mutex
  (`handler.go:94`). `WritesExclusive` is therefore about one handler.
- `amount` is `NUMERIC(38, 18)`; `V1_SCOPE.md:305` wants `NUMERIC(78, 0)`. 100 ETH in
  wei do not fit, and the batch is refused for ever (`Overflowing`).

### Bounds

Everything that grows is bounded by a constant: `MaxHead`, `MaxRuns`, `LastBlock`,
`MaxTime` (clock), `NumMessages`, `MaxCopies`, `MaxCrashes`, `MaxLost`, `MaxUrls`,
`MaxHandlers`, `MaxCalls`. They are chosen so that the cases occur: a range that
is cut by the cap and resumed, a range retried after a failure in its middle, a
block of two batches between others, a wallet indexed in every phase of a tick, a
provider behind the one asked before, a second process below and above the first
one's end, a message in the inbox twice, more messages than may be pending, a
block that yields more the second time, an expiry before, at and after each step
of a thread, three goroutine calls for two buffers, a third URL of another chain
than the first two. Each property has a faulty variant of the code which the run
with these bounds detects.

`MaxLag` is 0 in `EvmRestart`: with providers that lag, a tick without wallets
moves the pointer back and blocks are published again, so the order of the stream
is only kept with providers that never lag. `EvmLag` has the lag, where the row
ranges and the checkpoint fall back by no more than it, and a chain that begins at
block 0, below the buffer: the first range is -1 and the block that comes back for it
is another one. What these properties say of restarts is in their theorems. In `EvmLiveness` the
chain stops growing at `MaxHead`; the claim is that the listener gets to the
last safe block. `ChainOps` has neither extra copies nor lost answers
(`MaxCopies` 1, `MaxLost` 0): these faults are in `LedgerFaults`.

Deadlock is checked for the listener and the nonces. The other runs turn it off:
they stop when all messages are settled or out of bounds, when the block is
collected, when main has exited, or when all calls are made.

### Fairness

- `EvmListener!FairSpec`: after a cancellation the goroutine runs, and the select
  picks `ctx.Done` at some point (Go picks at random among ready cases, hence
  strong fairness of `Shutdown`). Nothing of the outside world is fair. Receipt
  requests use a context of their own and are assumed to be answered.
- `OutsideHelps` is the premise of `CatchesUp`, not of the specification: calls
  return, the chain and the retry timer advance, and a probe, a header, a wallet query
  and a block fetch that is made again and again succeeds again and again (strong
  fairness: each may fail any finite number of times in a row). This is what the
  retry loop needs and no more. That the publish call returns is an assumption:
  its context has no deadline.
- `LedgerConsumer!Fairness`, and the same in `ChainOps!Spec`: the server delivers and its ack
  waits expire, the dispatcher thread runs, the process is restarted, and a message
  that can be saved is saved if it is tried often enough. In `ChainOps` nothing is assumed of
  the listener: it may stop for good at any point.
- `LogHandler!Spec`: every goroutine runs, and a mutex goes to a waiter at some
  point (`sync.Mutex` switches to hand-over after a millisecond of waiting).
- `Startup!FairSpec`: after a signal the calls of main return, and so does `Run`.
- `SiweNonce!FairSpec`: the clock ticks (up to its bound) and the scheduled task
  runs.

## 4. What is proved

For every value of the constants that satisfies the named assumptions
(`ListenerAssumption`, `ProvidersAssumption`, `CollectionAssumption`,
`LedgerAssumption`, `ScanAssumption`, `SystemAssumption`, `NonceAssumption`,
`StartupAssumption`, `LogAssumption`; TLC evaluates each of them in the runs):

| Theorem | States | Argument |
|---|---|---|
| `EvmListenerProofs!TypeCorrect` | `TypeOK` always | `TypeOK` with `ControlInv`: what is not NULL at each `pc` |
| `EvmListenerProofs!PublishedDeep` | `PublishesDeep`, with any lag on any chain | `AskedInv`: a block asked for by its number is the one that came back; `SnapshotInv`: the range ends at the safe block |
| `EvmListenerProofs!PublishedDepth` | `SafeDepth` always, if `DeepChain` | `DepthInv`: the range was cut below the head when the header was read, heads only grow, no number is negative |
| `EvmListenerProofs!Coverage`, `SessionsCovered` | `RunCoverage` and `SessionCoverage` always | `CoverInv`, below |
| `EvmListenerProofs!ListenerBatches` | `BatchPrefix` always, with any lag | `PrefixInv`: while batch *n* is being published the batches before it are stored |
| `EvmListenerProofs!NoCapNoScan` | with a cap of 0 nothing is ever fetched or published | the range ends before it begins, so the loop body is never reached |
| `EvmListenerProofs!Refinement` | `Spec => ScansInOrder`, if `NoLag` | `ScanInv`, below |
| `BlockScanProofs!StreamOrder` | `BlockScan`: `PublishOrder`, `BatchPrefix`, `RunsOrdered` always | the three are inductive together with the type |
| `EvmListenerProofs!ListenerStreamOrder` | `RunsOrdered` (and `BatchPrefix`) always, if `NoLag` | `Refinement` and `StreamOrder` |
| `EvmListenerProofs!Checkpoint` | `CheckpointHolds`, with any lag | `CheckpointInv`, below |
| `EvmListenerProofs!SessionsForward` | `SessionRange` always, with any lag | `RangeInv`, below |
| `EventCollectionProofs!CollectionTypeCorrect` | `TypeOK` always | with the block's membership in `Blocks` |
| `EventCollectionProofs!GasAttribution`, `ReceiptsOnce` | `OneRequestPerTx` and `GasComplete` always | `ReceiptInv`: request count and cache agree; the asking loop is over before the first log event |
| `EventCollectionProofs!SentHasEvent`, `FlowsAgree` | `SentReported` and `FlowsMatch` always | `ReportInv`: which transactions are in the events, and that a log has exactly the events `LogEvents` gives it |
| `EventCollectionProofs!KeysDisjoint` | `KeysClashOnlyByLogs` always, if no known contract is monitored | what a transaction yields by itself is not of a known contract |
| `LedgerConsumerProofs!LedgerTypeCorrect` | `TypeOK` always | inductive with what `cur` is at each `pc` |
| `LedgerConsumerProofs!LedgerSafety`, `LedgerAtomicity` | `AckedPersisted` and `WholeBatch` always | at `pc = "ack"` the rows of the current message are in the table; rows never leave it |
| `LedgerConsumerProofs!LedgerCompleteness` | `NothingSkipped` always | every message between `first` and `nextSeq` is pending or acked |
| `LedgerConsumerProofs!LedgerRefusals` | `RefusedForReason` always | `RowInv`: a row is of an event of the message it came with; that message has all its rows, by `WholeBatch` |
| `LedgerConsumerProofs!LedgerNoDuplicates` | no two rows have one key (`KeysUnique`) always | a message is taken only if its keys differ from each other and from the table's |
| `ChainOpsProofs!SystemScans`, `SystemConsumes` | `Spec => Scan!Spec`, `Spec => Ledger!Spec` | `SystemInv`, below |
| `ChainOpsProofs!ChunksWhole` | `ChunkWhole` always | `ChunkFlattens` and `ChunkSizes`, below |
| `ChainOpsProofs!StreamAscending` | `StreamAscends` always | the message to be stored is above those of its process, which `BlockScan` keeps at or below `next` and `sent` |
| `ChainOpsProofs!BlocksArrive` | `BlockArrives` always | `SystemInv` and `ChunkCovers`, below |
| `ChainOpsProofs!SystemLedger` | `AckedPersisted`, `WholeBatch`, `NothingSkipped`, `RefusedForReason` of the ledger always, in the system | `LedgerConsumerProofs` for the batches the listener makes |
| `ChainOpsProofs!EventsOnce` | `KeysUnique` of the ledger always, in the system | as `LedgerNoDuplicates`, by `LedgerStep` |
| `SiweNonceProofs!NonceTypeCorrect` | `TypeOK` always | inductive |
| `SiweNonceProofs!NonceRefinement` | `Spec => Implements` | `OwnInv`: a nonce is with one thread or in the map, with its deadline, and unaccepted until checked |
| `SiweNonceProofs!NonceUsable` | `UsableKept` always | `EvictInv`: the task's clock reading is never ahead |
| `LogHandlerProofs!LogTypeCorrect` | `TypeOK` always | with what `call` and `bp` are at each `pc` |
| `LogHandlerProofs!LogLines` | `LinesIntact` always | a buffer is with one goroutine or in the pool, and holds that goroutine's line from the formatting to the write |
| `LogHandlerProofs!LogExclusion` | `WritesExclusive` always | who is between lock and unlock is the holder of the handler's mutex |
| `LogHandlerProofs!LogNeverLeftLocked` | `NeverLeftLocked` always | inductive with the types: only `Lock` gives a mutex away, only `Unlock` leaves `write` and `unlock` |
| `StartupProofs!StartupTypeCorrect` | `TypeOK` always | with how many providers there are at each `pc` |
| `StartupProofs!StartupValidates` | `RunValidated` always | what each `pc` implies of the calls before it |
| `StartupProofs!StartupJoins` | `JoinsListener` always | the WaitGroup counts the live goroutine |

*Coverage.* `RunCoverage` speaks of the blocks from the first to the last one
of a process and is not inductive: nothing in it says that the next block is
adjacent. `SnapshotInv` adds that a wallet missing from the tick's snapshot was
indexed after the header, so owes nothing up to the end of the range;
`PointerInv` that the block being worked on, or the pointer between ticks, is
at most one past the last block (it may be less: a lagging provider makes the
listener scan again); `RowInv` that a session row carries the process' first
block, and that a closed row ends below the safe head, so a wallet that is
indexed later owes nothing in it. The invariants were checked with TLC before
they were proved. The theorem needs no assumption on lag, failures or restarts.

*Depth.* `DeepChain` says that no provider ever reports a head below the
buffer. Without it TLC finds a shallow message at once: with heads below the
buffer the range is negative. `PublishesDeep` needs no such premise, as it names the case.

*Lag.* `NotFarBelow` says of a mark that wherever the listener may go on (the pointer, the last
block, the end of the range, the block at work) is at most `MaxLag` below it. `CheckpointInv`
takes the checkpoint as the mark and `RangeInv` the process' first block. Both marks lie below
the safe head, and a header that lags is at most `MaxLag` below the head, so every new
range keeps the distance; the lags of several ticks or processes do not add up.

*Scan.* `NoLag` is `MaxLag = 0` and `DeepChain`. Under it the pointer after a tick is
exactly one past the last block, the head of every header is at least that of the
one before, and what is in the stream lies at or below the safe head (`ScanInv`). So each step
of the listener is a step of the scan or leaves its five variables alone, and a
new process, which starts at the safe block, satisfies the guard `From`. With lag the
refinement fails: TLC shows a tick without wallets after which a block is published
again.

*Chunk.* What `Chunk` computes is proved for every sequence of events and every batch
size. The bounds of batch *i* are `(i - 1) * BatchSize + 1` and the lesser of
`i * BatchSize` and the length; `BatchBounds` shows that each batch begins where the
one before ends, that none is empty and that the last one ends with the last event.
`ChunkFlattens` goes on by induction on the number of batches put together so far. The
library's induction theorems take an operator as a parameter and cannot be used;
`LeastNumber` says instead that a set of numbers that is not empty has a least
element, and each induction takes the least counterexample. `FlattenSeq` of the community modules is
a recursive function; `FlattenSeqIs` shows, by the same means, that it is the one function
that satisfies its equation. `ChunkCovers` says the same of the events as a set.

*System.* `SystemInv` joins the invariants of the two parts with three facts no part
has by itself. `HeadersInv`: the listener's messages are the stream's, one for one.
`CurrentInv`: the batches already out of the block at work are those of the collection at
work. `CollectionInv`: all messages one process stored of a block are batches of one and
the same collection. The last is needed because a block that is given up and
published again by the next process is collected anew, and would not be
inductive for a listener that went back to a block: it is `From`'s order that keeps a
process from opening a block it has published of (`ScanningKeeps`). A step of the
system is a step of the scan or a stutter of it, and likewise of the ledger
(`ScanStep`, `LedgerStep`), so the parts' invariants are kept by the parts' own lemmas, and
the specification of each part is implemented. `BlocksArrive` then goes both ways: an event of the collection is in
some batch (`ChunkCovers`), that batch's message is acked, so its rows are there
(`AckedPersisted`); and a row that came with a message is of an event of that message
(`RowInv`), which is a batch of the collection (`CollectionInv`).

*Refusals.* `RefusedForReason` is the non-temporal part of `Delivered`: of the ways
in which a message can fail to arrive, the table itself contributes only the two that
`Delivered` names, for every key function and every stream. What remains to TLC is that
nothing else keeps a message from being tried.

Only model-checked: the liveness properties (`CatchesUp`, `ShutdownCompletes`, `Settles`,
`Delivered`, `Evicted`, `HandleReturns`, `SignalStops`): fairness and ENABLED are beyond
the prover. For three of them the safety on which they rest is proved: nobody waits for a mutex
without a holder (`NeverLeftLocked`), main does not wait for a goroutine that is gone
(`JoinsListener`), and a refusal has its reason (`RefusedForReason`).

## 5. Not modelled, and why

- The GlobalExceptionHandler and the controller: stateless translation to HTTP.
- Users, subscriptions, tracked wallets, monitoring sessions: tables and plans
  without code.
- `WithGroup` of the logger, which returns the handler itself, and how values are
  formatted: layout. YAML and flags are inputs of `Startup`.
- Amounts, hashes, addresses and the JSON form of events: no control depends on
  them but through `Unmappable`, `Overflowing` and `KeyOf`.
- `GetLastScannedBlock`: it has no caller, which is what `EvmGap` shows.
- Runs with a cap of 0 blocks per tick: `NoCapNoScan` proves that such a listener fetches
  and publishes nothing; the other theorems hold for it too, `CatchesUp` is checked with
  a cap of 1.
- Receipt requests that are never answered: they ignore the context, and the
  properties of the shutdown assume that the HTTP client gives up.
- Reorganizations: the code ignores them by design.
- How long the client libraries wait, and what happens between a lost
  connection and its reconnection, beyond the lost or repeated messages.

## 6. Plan

Done: the components of section 1 and their composition, the runs of section 3 and
the theorems of section 4. What could follow:

1. `ChainOps` with `EvmListener` itself in the place of `BlockScan`, so that lagging
   providers are covered too; its state space needs a smaller listener instance.
2. Two wallets' rows for one account, and the ledger's lookup by checksummed address,
   as one model of the `indexed_wallets` table once code writes it.
3. A theorem that carries `BlockArrives` over to `EvmListener` with the ledger behind it,
   by `Refinement` and `SystemScans`.
