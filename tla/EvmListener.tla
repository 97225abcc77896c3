---------------------------- MODULE EvmListener ----------------------------
(***************************************************************************)
(* The block listener of one EVM network: EvmListener.Run, with the calls  *)
(* it makes to its RPC providers, to the database and to the publisher.    *)
(*                                                                         *)
(* The goroutine blocks in every one of those calls, so each call is a     *)
(* step: between two of them the chain grows, wallets come and go, the     *)
(* context is cancelled or the process dies.  A call succeeds or fails by  *)
(* two actions, and a call with a cancelled context cannot succeed.        *)
(*                                                                         *)
(* The environment (chain, indexed wallets) and the stores that survive    *)
(* the process (networks.last_scanned_block, network_listener_sessions,    *)
(* the JetStream stream) are variables of this module too.                 *)
(***************************************************************************)
EXTENDS EvmProviders, FiniteSets

CONSTANTS
  SafeBlockBuffer,   \* safe-block-buffer: depth a block must have
  MaxBlocksPerTick,  \* max-blocks-per-tick: cap on a tick's range
  BatchSize,         \* events of one JetStream message at most
  UsdcListen,        \* usdc-listen: whether USDC logs are collected
  Publishing,        \* whether a NATS url is configured (el.pub # nil)
  Wallets,           \* wallets that may be indexed on the network
  Activity,          \* what the chain does to wallets, records of ActivityType
  InitHead,          \* the chain's head when the listener is deployed
  MaxHead,           \* bound: the chain grows up to here
  MaxLag,            \* how far behind the head a provider may report
  MaxRuns,           \* bound: how often the process is started
  NULL               \* Go's nil, SQL's NULL, the empty session id

Sources == {"TX", "USDC_LOG"}
ActivityRecord == [block : Nat, wallet : Wallets, source : Sources, id : Nat]

SessionRow == [from : Int, to : Int \cup {NULL}, status : {"ACTIVE", "CLOSED"}]

ASSUME ListenerAssumption ==
  /\ SafeBlockBuffer \in Nat
  /\ MaxBlocksPerTick \in Nat
  /\ BatchSize \in Nat \ {0}
  /\ UsdcListen \in BOOLEAN
  /\ Publishing \in BOOLEAN
  /\ IsFiniteSet(Activity)
  /\ Activity \subseteq ActivityRecord
  /\ InitHead \in Nat
  /\ MaxHead \in Nat
  /\ MaxLag \in Nat
  /\ MaxRuns \in Nat
  /\ NULL \notin Int
  /\ NULL \notin SessionRow

VARIABLES
  \* the environment
  head,         \* number of the chain's newest block
  watched,      \* wallets the indexed_wallets query selects
  since,        \* history: the head when a watched wallet was indexed
  \* what survives the process
  lastScanned,  \* networks.last_scanned_block
  sessions,     \* network_listener_sessions, one row per process at most
  stream,       \* every message JetStream ever stored
  \* the process
  runs,         \* how often it was started; the number of this process
  pc,           \* the call Run is blocked in
  cancelled,    \* ctx is done
  retryDue,     \* nextProviderRetry has passed
  sessionId,
  fromBlock,
  lastBlock,
  \* the tick being worked on
  cur,          \* the provider getHealthyClient chose
  safeBlock,    \* last block of the range
  addresses,    \* the wallets read from the database
  blockNum,     \* the block asked for
  block,        \* the block the provider returned
  batch,        \* the batch being published
  batches,      \* how many batches the block has
  \* history
  startBlock,   \* first block of this process' coverage
  collected     \* activity found in fetched blocks, by any process

envVars  == <<head, watched, since>>
dbVars   == <<lastScanned, sessions>>
procVars == <<sessionId, fromBlock, lastBlock>>
tickVars == <<cur, safeBlock, addresses, blockNum, block, batch, batches>>
histVars == <<startBlock, collected>>
vars == <<envVars, dbVars, stream, runs, pc, cancelled, retryDue, procVars,
          tickVars, histVars, providerVars>>

-----------------------------------------------------------------------------
(* Arithmetic of the range of a tick. *)

(* Mutant: the buffer is forgotten. *)
SafeHead_NoBuffer(h) == h

SafeHead(h) == h - SafeBlockBuffer

(* Mutant: the next range begins with the last block again. *)
ResumeAt_SameBlock(last) == last

ResumeAt(last) == last + 1

(* Mutant: every tick looks at the current safe block only. *)
ScanFrom_NoPointer(safe) == safe

(* fromBlock, or the current safe block when startup could not set it. *)
ScanFrom(safe) == IF fromBlock = NULL THEN safe ELSE fromBlock

CappedEnd(from, safe) ==
  IF from + (MaxBlocksPerTick - 1) < safe THEN from + (MaxBlocksPerTick - 1) ELSE safe

(* chunk: how many messages n events of one block make. *)
NumBatches(n) == IF n <= BatchSize THEN 1 ELSE (n + BatchSize - 1) \div BatchSize

(* HeaderByNumber(nil) of a provider that may lag behind the chain. *)
ReportedHeads == {h \in (head - MaxLag)..head : h >= 0}

(* The numbers BlockByNumber(n) may come back with.  A negative number is  *)
(* a tag of the JSON-RPC API: -1 is pending, the block that is not mined   *)
(* yet, -2 to -5 are latest to earliest; below, the request is an error.   *)
Returned(n) ==
  CASE n >= 0        -> {n}
    [] n = -1        -> 0..(head + 1)
    [] n \in -5..-2 -> 0..head
    [] n < -5        -> {}

(* collectTxnEvents and collectUSDCEvents: the activity of block n that    *)
(* concerns the given wallets; logs are lost when FilterLogs fails.        *)
Found(n, wallets, logsOk) ==
  {a \in Activity : /\ a.block = n
                    /\ a.wallet \in wallets
                    /\ a.source = "USDC_LOG" => UsdcListen /\ logsOk}

(* Mutant: the state names of wallet_monitoring_sessions. *)
Row_OpenState(from, to, s) == [from |-> from, to |-> to, status |-> "OPEN"]

Row(from, to, s) == [from |-> from, to |-> to, status |-> s]

Message == [run |-> runs, block |-> block, batch |-> batch, total |-> batches]

InTick == pc \in {"header", "wallets", "block", "publish", "persist"}

NoTick ==
  /\ cur' = NULL
  /\ safeBlock' = NULL
  /\ addresses' = {}
  /\ blockNum' = NULL
  /\ block' = NULL
  /\ batch' = 0
  /\ batches' = 0

EndTick == pc' = "idle" /\ NoTick

(* What Run holds in local variables is gone when the process ends. *)
ProcessGone ==
  /\ pc' = "down"
  /\ cancelled' = FALSE
  /\ retryDue' = FALSE
  /\ sessionId' = NULL
  /\ fromBlock' = NULL
  /\ lastBlock' = NULL
  /\ startBlock' = NULL
  /\ NoTick
  /\ Connect

-----------------------------------------------------------------------------
(* Startup. *)

Start ==
  /\ pc = "down"
  /\ runs < MaxRuns
  /\ runs' = runs + 1
  /\ pc' = "start"
  /\ UNCHANGED <<envVars, dbVars, stream, cancelled, retryDue, procVars,
                 tickVars, histVars, providerVars>>

(* Mutant: the process begins at the head instead of the safe block. *)
StartHeaderOk_FromHead ==
  /\ pc = "start"
  /\ ~cancelled
  /\ \E h \in ReportedHeads : fromBlock' = h /\ startBlock' = h
  /\ pc' = "session"
  /\ UNCHANGED <<envVars, dbVars, stream, runs, cancelled, retryDue, sessionId,
                 lastBlock, tickVars, collected, providerVars>>

(* Mutant: the process resumes after the checkpoint, and so at a block     *)
(* before those it published in a range that was not finished.             *)
StartHeaderOk_Resumes ==
  /\ pc = "start"
  /\ ~cancelled
  /\ fromBlock' = ResumeAt(lastScanned)
  /\ startBlock' = ResumeAt(lastScanned)
  /\ pc' = "session"
  /\ UNCHANGED <<envVars, dbVars, stream, runs, cancelled, retryDue, sessionId,
                 lastBlock, tickVars, collected, providerVars>>

StartHeaderOk ==
  /\ pc = "start"
  /\ ~cancelled
  /\ \E h \in ReportedHeads :
       /\ fromBlock' = SafeHead(h)
       /\ startBlock' = SafeHead(h)
  /\ pc' = "session"
  /\ UNCHANGED <<envVars, dbVars, stream, runs, cancelled, retryDue, sessionId,
                 lastBlock, tickVars, collected, providerVars>>

(* A failure here is not recorded against the provider. *)
StartHeaderFails ==
  /\ pc = "start"
  /\ pc' = "idle"
  /\ UNCHANGED <<envVars, dbVars, stream, runs, cancelled, retryDue, procVars,
                 tickVars, histVars, providerVars>>

StartSessionOk ==
  /\ pc = "session"
  /\ ~cancelled
  /\ sessions' = [sessions EXCEPT ![runs] = Row(fromBlock, NULL, "ACTIVE")]
  /\ sessionId' = runs
  /\ pc' = "idle"
  /\ UNCHANGED <<envVars, lastScanned, stream, runs, cancelled, retryDue,
                 fromBlock, lastBlock, tickVars, histVars, providerVars>>

(* The row may be there although its id never arrived. *)
StartSessionFails ==
  /\ pc = "session"
  /\ \/ sessions' = [sessions EXCEPT ![runs] = Row(fromBlock, NULL, "ACTIVE")]
     \/ UNCHANGED sessions
  /\ pc' = "idle"
  /\ UNCHANGED <<envVars, lastScanned, stream, runs, cancelled, retryDue,
                 procVars, tickVars, histVars, providerVars>>

-----------------------------------------------------------------------------
(* One tick. *)

(* The ticker fires: probe unhealthy providers if their retry is due, and  *)
(* pick the provider of this tick; with none healthy the tick is skipped.  *)
Tick(back) ==
  /\ pc = "idle"
  /\ back # {} => retryDue /\ ~cancelled
  /\ RecoverUnhealthy(back)
  /\ retryDue' = FALSE
  /\ \/ /\ unhealthy' = Providers
        /\ UNCHANGED <<pc, cur>>
     \/ /\ \E p \in Providers : FirstHealthy(p, unhealthy') /\ cur' = p
        /\ pc' = "header"
  /\ UNCHANGED <<envVars, dbVars, stream, runs, cancelled, procVars, safeBlock,
                 addresses, blockNum, block, batch, batches, histVars>>

FetchHeaderOk ==
  /\ pc = "header"
  /\ ~cancelled
  /\ \E h \in ReportedHeads : safeBlock' = SafeHead(h)
  /\ pc' = "wallets"
  /\ UNCHANGED <<envVars, dbVars, stream, runs, cancelled, retryDue, procVars,
                 cur, addresses, blockNum, block, batch, batches, histVars,
                 providerVars>>

FetchHeaderFails ==
  /\ pc = "header"
  /\ HandleProviderFailure(cur)
  /\ EndTick
  /\ UNCHANGED <<envVars, dbVars, stream, runs, cancelled, retryDue, procVars,
                 histVars>>

QueryWalletsFails ==
  /\ pc = "wallets"
  /\ EndTick
  /\ UNCHANGED <<envVars, dbVars, stream, runs, cancelled, retryDue, procVars,
                 histVars, providerVars>>

(* Mutant: the buffer is subtracted from the safe block once more. *)
NoWallets_BufferTwice ==
  /\ pc = "wallets"
  /\ ~cancelled
  /\ watched = {}
  /\ lastBlock' = SafeHead(safeBlock)
  /\ startBlock' = IF startBlock = NULL THEN safeBlock ELSE startBlock
  /\ pc' = "persist"
  /\ UNCHANGED <<envVars, dbVars, stream, runs, cancelled, retryDue, sessionId,
                 fromBlock, tickVars, collected, providerVars>>

(* No wallet to monitor: the pointer jumps to the safe block. *)
NoWallets ==
  /\ pc = "wallets"
  /\ ~cancelled
  /\ watched = {}
  /\ lastBlock' = safeBlock
  /\ startBlock' = IF startBlock = NULL THEN safeBlock ELSE startBlock
  /\ pc' = "persist"
  /\ UNCHANGED <<envVars, dbVars, stream, runs, cancelled, retryDue, sessionId,
                 fromBlock, tickVars, collected, providerVars>>

NothingNew ==
  /\ pc = "wallets"
  /\ ~cancelled
  /\ watched # {}
  /\ ScanFrom(safeBlock) > safeBlock
  /\ EndTick
  /\ UNCHANGED <<envVars, dbVars, stream, runs, cancelled, retryDue, procVars,
                 histVars, providerVars>>

(* With a cap of 0 the range is empty and the loop body never runs. *)
BeginScan ==
  /\ pc = "wallets"
  /\ ~cancelled
  /\ watched # {}
  /\ ScanFrom(safeBlock) <= safeBlock
  /\ addresses' = watched
  /\ blockNum' = ScanFrom(safeBlock)
  /\ safeBlock' = CappedEnd(ScanFrom(safeBlock), safeBlock)
  /\ pc' = IF blockNum' <= safeBlock' THEN "block" ELSE "persist"
  /\ UNCHANGED <<envVars, dbVars, stream, runs, cancelled, retryDue, procVars,
                 cur, block, batch, batches, histVars, providerVars>>

-----------------------------------------------------------------------------
(* The scan loop. *)

(* The loop body ends: the block counts as processed, on to the next. *)
BlockDone ==
  /\ lastBlock' = blockNum
  /\ startBlock' = IF startBlock = NULL THEN blockNum ELSE startBlock
  /\ blockNum' = blockNum + 1
  /\ pc' = IF blockNum + 1 <= safeBlock THEN "block" ELSE "persist"
  /\ block' = NULL
  /\ batch' = 0
  /\ batches' = 0

FetchBlockOk ==
  /\ pc = "block"
  /\ ~cancelled
  /\ \E n \in Returned(blockNum), logsOk \in BOOLEAN :
       LET found == Found(n, addresses, logsOk) IN
       /\ collected' = collected \cup found
       /\ \/ /\ found = {} \/ ~Publishing
             /\ BlockDone
          \/ /\ found # {} /\ Publishing
             /\ block' = n
             /\ batch' = 1
             /\ batches' = NumBatches(Cardinality(found))
             /\ pc' = "publish"
             /\ UNCHANGED <<lastBlock, startBlock, blockNum>>
  /\ UNCHANGED <<envVars, dbVars, stream, runs, cancelled, retryDue, sessionId,
                 fromBlock, cur, safeBlock, addresses, providerVars>>

(* Mutant: `continue` where the code breaks out of the loop. *)
FetchBlockFails_Continue ==
  /\ pc = "block"
  /\ HandleProviderFailure(cur)
  /\ BlockDone
  /\ UNCHANGED <<envVars, dbVars, stream, runs, cancelled, retryDue, sessionId,
                 fromBlock, cur, safeBlock, addresses, collected>>

(* The loop is left; the blocks before this one are still accounted for. *)
FetchBlockFails ==
  /\ pc = "block"
  /\ HandleProviderFailure(cur)
  /\ pc' = "persist"
  /\ UNCHANGED <<envVars, dbVars, stream, runs, cancelled, retryDue, procVars,
                 tickVars, histVars>>

PublishAcked ==
  /\ pc = "publish"
  /\ ~cancelled
  /\ stream' = stream \cup {Message}
  /\ \/ /\ batch < batches
        /\ batch' = batch + 1
        /\ UNCHANGED <<pc, lastBlock, startBlock, blockNum, block, batches>>
     \/ /\ batch >= batches
        /\ BlockDone
  /\ UNCHANGED <<envVars, dbVars, runs, cancelled, retryDue, sessionId,
                 fromBlock, cur, safeBlock, addresses, collected, providerVars>>

(* Mutant: Publish goes on with the next batch after an error. *)
PublishFails_NextBatch ==
  /\ pc = "publish"
  /\ \/ /\ batch < batches
        /\ batch' = batch + 1
        /\ UNCHANGED <<pc, lastBlock, startBlock, blockNum, block, batches>>
     \/ /\ batch >= batches
        /\ BlockDone
  /\ UNCHANGED <<envVars, dbVars, stream, runs, cancelled, retryDue, sessionId,
                 fromBlock, cur, safeBlock, addresses, collected, providerVars>>

(* Publish gives up the block's remaining batches and Run only logs that.  *)
(* The message may have been stored although its acknowledgement was lost. *)
PublishFails ==
  /\ pc = "publish"
  /\ \/ stream' = stream \cup {Message}
     \/ UNCHANGED stream
  /\ BlockDone
  /\ UNCHANGED <<envVars, dbVars, runs, cancelled, retryDue, sessionId,
                 fromBlock, cur, safeBlock, addresses, collected, providerVars>>

(* The range is over: move the pointer and store the checkpoint, if this   *)
(* process has processed any block yet. *)
PersistOk ==
  /\ pc = "persist"
  /\ lastBlock # NULL
  /\ ~cancelled
  /\ fromBlock' = ResumeAt(lastBlock)
  /\ lastScanned' = lastBlock
  /\ EndTick
  /\ UNCHANGED <<envVars, sessions, stream, runs, cancelled, retryDue,
                 sessionId, lastBlock, histVars, providerVars>>

(* The update's error is only logged; it may have been applied. *)
PersistFails ==
  /\ pc = "persist"
  /\ lastBlock # NULL
  /\ fromBlock' = ResumeAt(lastBlock)
  /\ lastScanned' \in {lastScanned, lastBlock}
  /\ EndTick
  /\ UNCHANGED <<envVars, sessions, stream, runs, cancelled, retryDue,
                 sessionId, lastBlock, histVars, providerVars>>

NothingToPersist ==
  /\ pc = "persist"
  /\ lastBlock = NULL
  /\ EndTick
  /\ UNCHANGED <<envVars, dbVars, stream, runs, cancelled, retryDue, procVars,
                 histVars, providerVars>>

-----------------------------------------------------------------------------
(* The end of the process. *)

Cancel ==
  /\ pc # "down"
  /\ ~cancelled
  /\ cancelled' = TRUE
  /\ UNCHANGED <<envVars, dbVars, stream, runs, pc, retryDue, procVars,
                 tickVars, histVars, providerVars>>

(* Mutant: the return is inside the session's `if`. *)
Shutdown_OnlyWithSession ==
  /\ pc = "idle"
  /\ cancelled
  /\ sessionId # NULL
  /\ sessions' = [sessions EXCEPT ![sessionId].to = lastBlock,
                                  ![sessionId].status = "CLOSED"]
  /\ ProcessGone
  /\ UNCHANGED <<envVars, lastScanned, stream, runs, collected>>

(* The select sees ctx.Done: close the session row (with a context of its  *)
(* own; a failure is logged, the update may have been applied) and return. *)
Shutdown ==
  /\ pc = "idle"
  /\ cancelled
  /\ \/ /\ sessionId # NULL
        /\ sessions' = [sessions EXCEPT ![sessionId].to = lastBlock,
                                        ![sessionId].status = "CLOSED"]
     \/ UNCHANGED sessions
  /\ ProcessGone
  /\ UNCHANGED <<envVars, lastScanned, stream, runs, collected>>

Crash ==
  /\ pc # "down"
  /\ ProcessGone
  /\ UNCHANGED <<envVars, dbVars, stream, runs, collected>>

-----------------------------------------------------------------------------
(* The environment. *)

NewBlock ==
  /\ head < MaxHead
  /\ head' = head + 1
  /\ UNCHANGED <<watched, since, dbVars, stream, runs, pc, cancelled, retryDue,
                 procVars, tickVars, histVars, providerVars>>

Watch(w) ==
  /\ w \notin watched
  /\ watched' = watched \cup {w}
  /\ since' = [since EXCEPT ![w] = head]
  /\ UNCHANGED <<head, dbVars, stream, runs, pc, cancelled, retryDue, procVars,
                 tickVars, histVars, providerVars>>

Unwatch(w) ==
  /\ w \in watched
  /\ watched' = watched \ {w}
  /\ since' = [since EXCEPT ![w] = 0]
  /\ UNCHANGED <<head, dbVars, stream, runs, pc, cancelled, retryDue, procVars,
                 tickVars, histVars, providerVars>>

RetryTimerExpires ==
  /\ pc # "down"
  /\ ~retryDue
  /\ retryDue' = TRUE
  /\ UNCHANGED <<envVars, dbVars, stream, runs, pc, cancelled, procVars,
                 tickVars, histVars, providerVars>>

-----------------------------------------------------------------------------
Init ==
  /\ head = InitHead
  /\ watched \in SUBSET Wallets
  /\ since = [w \in Wallets |-> 0]
  /\ lastScanned = 0
  /\ sessions = [r \in 1..MaxRuns |-> NULL]
  /\ stream = {}
  /\ runs = 0
  /\ pc = "down"
  /\ cancelled = FALSE
  /\ retryDue = FALSE
  /\ sessionId = NULL
  /\ fromBlock = NULL
  /\ lastBlock = NULL
  /\ cur = NULL
  /\ safeBlock = NULL
  /\ addresses = {}
  /\ blockNum = NULL
  /\ block = NULL
  /\ batch = 0
  /\ batches = 0
  /\ startBlock = NULL
  /\ collected = {}
  /\ Connected

ProcessNext ==
  \/ Start \/ StartHeaderOk \/ StartHeaderFails
  \/ StartSessionOk \/ StartSessionFails
  \/ \E back \in SUBSET unhealthy : Tick(back)
  \/ FetchHeaderOk \/ FetchHeaderFails
  \/ QueryWalletsFails \/ NoWallets \/ NothingNew \/ BeginScan
  \/ FetchBlockOk \/ FetchBlockFails
  \/ PublishAcked \/ PublishFails
  \/ PersistOk \/ PersistFails \/ NothingToPersist
  \/ Shutdown

EnvNext ==
  \/ Cancel \/ Crash \/ NewBlock \/ RetryTimerExpires
  \/ \E w \in Wallets : Watch(w) \/ Unwatch(w)

Next == ProcessNext \/ EnvNext

Spec == Init /\ [][Next]_vars

(* Shutting down: a call with a cancelled context returns, and a select    *)
(* that finds both the ticker and ctx.Done ready picks one at random, so   *)
(* it cannot pick the ticker for ever.  The receipt requests of a block    *)
(* ignore the context (evm_listener.go:242); they are assumed answered.    *)
FairSpec ==
  /\ Spec
  /\ WF_vars(cancelled /\ ProcessNext)
  /\ SF_vars(Shutdown)

(* Making progress needs an outside world that is not against the listener *)
(* for ever: every call returns (also the publish call, whose context has  *)
(* no deadline), a call made again and again succeeds again and again, and *)
(* an unhealthy provider answers some probe.                               *)
OutsideHelps ==
  /\ WF_vars(ProcessNext)
  /\ WF_vars(NewBlock)
  /\ WF_vars(RetryTimerExpires)
  /\ SF_vars(\E back \in SUBSET unhealthy : back # {} /\ Tick(back))
  /\ SF_vars(FetchHeaderOk)
  /\ SF_vars(NoWallets \/ NothingNew \/ BeginScan)
  /\ SF_vars(FetchBlockOk)

-----------------------------------------------------------------------------
(* Properties. *)

StreamMessage == [run : Nat, block : Nat, batch : Nat, total : Nat]

EnvTypeOK ==
  /\ head \in Nat
  /\ watched \in SUBSET Wallets
  /\ since \in [Wallets -> Nat]

StoreTypeOK ==
  /\ lastScanned \in Int
  /\ sessions \in [1..MaxRuns -> SessionRow \cup {NULL}]
  /\ stream \subseteq StreamMessage

ControlTypeOK ==
  /\ runs \in 0..MaxRuns
  /\ pc \in {"down", "start", "session", "idle", "header", "wallets", "block",
             "publish", "persist"}
  /\ cancelled \in BOOLEAN
  /\ retryDue \in BOOLEAN

ProcTypeOK ==
  /\ sessionId \in (1..MaxRuns) \cup {NULL}
  /\ fromBlock \in Int \cup {NULL}
  /\ lastBlock \in Int \cup {NULL}
  /\ startBlock \in Int \cup {NULL}

TickTypeOK ==
  /\ cur \in Providers \cup {NULL}
  /\ safeBlock \in Int \cup {NULL}
  /\ addresses \in SUBSET Wallets
  /\ blockNum \in Int \cup {NULL}
  /\ block \in Nat \cup {NULL}
  /\ batch \in Nat
  /\ batches \in Nat

(* Every variable keeps the type its Go, SQL or NATS counterpart has. *)
TypeOK ==
  /\ EnvTypeOK
  /\ StoreTypeOK
  /\ ControlTypeOK
  /\ ProcTypeOK
  /\ TickTypeOK
  /\ collected \subseteq Activity
  /\ ProvidersTypeOK

(* V1_SCOPE.md:321: no message is ever published for a block shallower     *)
(* than the safe-block buffer, however far a provider lags behind and      *)
(* however long a tick takes.                                              *)
SafeDepth == \A m \in stream : m.block + SafeBlockBuffer <= head

(* evm_listener.go:119, 161: the same step by step and for every chain: if *)
(* a message of a shallower block is stored, the block was asked for by a  *)
(* negative number, on a chain younger than the buffer.                    *)
PublishesDeep ==
  [][\A m \in stream' \ stream :
       m.block + SafeBlockBuffer <= head \/ blockNum < 0]_stream

(* Activity a wallet is owed: the wallet was indexed before the block of   *)
(* the activity became safe, and is still indexed.                         *)
Owed(a) == /\ a.wallet \in watched
           /\ since[a.wallet] < a.block + SafeBlockBuffer

(* Log queries that fail lose logs (usdc_event.go:54-57), so only what     *)
(* collectTxnEvents reports is promised. *)
Covered(from, to) ==
  \A a \in Activity :
    a.source = "TX" /\ Owed(a) /\ from <= a.block /\ a.block <= to => a \in collected

(* evm_listener.go:161-196: whatever fails and whenever a wallet is added  *)
(* or removed, the blocks between the process' first and its last block    *)
(* leave no owed transaction out: the pointer never passes a block that    *)
(* was not fetched with every wallet that was due.                         *)
RunCoverage ==
  startBlock # NULL /\ lastBlock # NULL => Covered(startBlock, lastBlock)

(* ChainOps_2026_06_01.sql:1: a closed session row tells the truth about   *)
(* its range, whatever later processes do: gaps lie between rows only.     *)
SessionCoverage ==
  \A r \in 1..MaxRuns :
    LET row == sessions[r] IN
    row # NULL /\ row.status = "CLOSED" /\ row.to # NULL => Covered(row.from, row.to)

(* evm_listener.go:74, 133: a closed row ends before its first block by no *)
(* more than what a provider lags behind: with providers that do not lag   *)
(* its range is never inverted, so that rows can be compared for gaps.     *)
SessionRange ==
  \A r \in 1..MaxRuns :
    LET row == sessions[r] IN
    row # NULL /\ row.status = "CLOSED" /\ row.to # NULL
      => row.from - MaxLag <= row.to

(* What is left of the listener for one who reads the stream: the block    *)
(* Run is going to process next, once that is decided, and how many of its *)
(* messages are out.                                                       *)
Scan == INSTANCE BlockScan WITH
  next <- IF lastBlock # NULL THEN lastBlock + 1
          ELSE IF fromBlock # NULL THEN fromBlock
          ELSE IF pc = "publish" THEN blockNum ELSE NULL,
  total <- IF pc = "publish" THEN batches ELSE 0,
  sent <- IF pc = "publish" THEN batch - 1 ELSE 0

(* evm_listener.go:63-201: with providers that never lag, Run goes through *)
(* the chain as BlockScan says: no block twice in one process, its         *)
(* messages in order, whatever fails and is retried.                       *)
ScansInOrder == Scan!Spec

(* publisher.go:58-62: a block whose publishing was given up misses its    *)
(* last batches, never one in the middle.                                  *)
BatchPrefix == Scan!BatchPrefix

(* evm_listener.go:71-74: of what a process published, a later one repeats *)
(* at most the last block (providers that never lag).                      *)
RunsOrdered == Scan!RunsOrdered

(* networks.go:32 "the highest block number already processed": no step    *)
(* lowers the checkpoint by more than what a provider lags behind, be it   *)
(* after a range scanned again, of a new process, or in a time without     *)
(* wallets; with providers that do not lag none lowers it at all.  (0 is   *)
(* the column's default: nothing was processed yet.)                       *)
CheckpointHolds ==
  [][lastScanned > 0 => lastScanned' >= lastScanned - MaxLag]_lastScanned

(* evm_listener.go:99-197: if the outside world helps, a listener that     *)
(* stays up processes every block up to the safe one, whatever fails on    *)
(* the way: failed ranges are retried, and a provider marked unhealthy is  *)
(* used again after its retry.                                             *)
CatchesUp ==
  OutsideHelps /\ <>[](pc # "down" /\ ~cancelled)
    => <>[](lastBlock = SafeHead(MaxHead))

(* main.go:85-87: after a signal the listener's goroutine returns, so that *)
(* wg.Wait does; with or without a session row, in any tick.               *)
ShutdownCompletes == cancelled ~> pc = "down"

-----------------------------------------------------------------------------
(* What documents and comments say and the code does not do. *)

(* V1_SCOPE.md:319 "Resumable on restart": a restarted listener goes on    *)
(* where the last one stopped, so below the checkpoint nothing is left     *)
(* out that was mined since the first session began.                       *)
ResumedWithoutGap ==
  runs > 0 /\ sessions[1] # NULL => Covered(sessions[1].from, lastScanned)

(* chainops-nats.md:157: the next block is not started before all batches  *)
(* of the previous one are published.                                      *)
NextBlockAfterPublish ==
  pc = "block" /\ Publishing =>
    \A a \in collected :
      (startBlock # NULL /\ startBlock <= a.block /\ a.block < blockNum) =>
        \E m \in stream : m.block = a.block /\ m.batch = m.total
=============================================================================
