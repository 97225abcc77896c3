------------------------- MODULE EvmListenerProofs -------------------------
(***************************************************************************)
(* Theorems about EvmListener, for every number of providers, every        *)
(* buffer, cap and batch size, every set of wallets and every chain.       *)
(*                                                                         *)
(* Types, depth and coverage come first and hold with providers that lag.  *)
(* That the listener implements BlockScan, and what follows from it, needs *)
(* providers that do not (NoLag); that only last batches are missing does  *)
(* not.                                                                    *)
(***************************************************************************)
EXTENDS EvmListener, FiniteSetTheorems, TLAPS

Busy == pc \in {"block", "publish"}

(***************************************************************************)
(* What is set when Run is at a given call: TypeOK alone is not inductive, *)
(* since a row, a range or a provider may be NULL where it is not used.    *)
(***************************************************************************)
ControlInv ==
  /\ pc # "down" => runs # 0
  /\ pc = "session" => fromBlock # NULL
  /\ InTick => cur # NULL
  /\ pc = "wallets" \/ Busy => safeBlock # NULL
  /\ Busy => blockNum # NULL
  /\ pc = "publish" => block # NULL
  /\ sessionId # NULL => sessions[sessionId] # NULL

TypeInv == TypeOK /\ ControlInv

(***************************************************************************)
(* Depth.  On a chain that is never reported younger than the buffer no    *)
(* block number is negative, so the block fetched is the block asked for;  *)
(* the range was cut off below the head when the header was read, and the  *)
(* head only grows.                                                        *)
(***************************************************************************)
DeepChain == InitHead - MaxLag >= SafeBlockBuffer

DepthInv ==
  /\ InitHead <= head
  /\ fromBlock # NULL => fromBlock >= 0
  /\ lastBlock # NULL => lastBlock >= 0
  /\ pc = "wallets" => safeBlock >= 0
  /\ pc = "wallets" \/ Busy => safeBlock + SafeBlockBuffer <= head
  /\ Busy => 0 <= blockNum /\ blockNum <= safeBlock
  /\ pc = "publish" => block = blockNum
  /\ SafeDepth

(***************************************************************************)
(* Coverage.  A wallet that is missing from the tick's snapshot was        *)
(* indexed after the header was read, so no block of the range owes it     *)
(* anything; the next block is at most one past the last one; and a closed *)
(* row holds what startBlock and lastBlock were when it was closed.        *)
(***************************************************************************)
SnapshotInv ==
  /\ \A w \in Wallets : since[w] <= head
  /\ pc = "wallets" \/ Busy => safeBlock + SafeBlockBuffer <= head
  /\ Busy => blockNum <= safeBlock
  /\ Busy => \A w \in watched \ addresses : safeBlock + SafeBlockBuffer <= since[w]
  /\ lastBlock # NULL => lastBlock + SafeBlockBuffer <= head

PointerInv ==
  /\ startBlock = NULL => lastBlock = NULL
  /\ pc \in {"down", "start"} => startBlock = NULL /\ sessionId = NULL
  /\ pc = "session" => startBlock = fromBlock /\ lastBlock = NULL /\ sessionId = NULL
  /\ startBlock # NULL /\ lastBlock = NULL => fromBlock = startBlock
  /\ lastBlock # NULL /\ ~Busy /\ pc # "persist"
       => fromBlock # NULL /\ fromBlock <= lastBlock + 1
  /\ Busy /\ lastBlock # NULL => blockNum <= lastBlock + 1
  /\ Busy /\ lastBlock = NULL /\ startBlock # NULL => blockNum <= startBlock

RowInv ==
  \A r \in 1..MaxRuns :
    sessions[r] # NULL =>
      /\ sessions[r].status = "CLOSED" /\ sessions[r].to # NULL =>
           sessions[r].to + SafeBlockBuffer <= head
      /\ sessionId = r => sessions[r].from = startBlock

CoverInv ==
  /\ SnapshotInv
  /\ PointerInv
  /\ RowInv
  /\ RunCoverage
  /\ pc = "publish" => Covered(blockNum, blockNum)
  /\ SessionCoverage

-----------------------------------------------------------------------------
(* The events found in a block are finitely many, and they make a natural  *)
(* number of batches. *)
LEMMA FoundIsFinite ==
  ASSUME NEW n, NEW wallets, NEW logsOk
  PROVE  /\ Found(n, wallets, logsOk) \subseteq Activity
         /\ Cardinality(Found(n, wallets, logsOk)) \in Nat
<1>1. Found(n, wallets, logsOk) \subseteq Activity
  BY DEF Found
<1>2. IsFiniteSet(Found(n, wallets, logsOk))
  BY <1>1, ListenerAssumption, FS_Subset
<1> QED
  BY <1>1, <1>2, FS_CardinalityType

LEMMA NumBatchesIsNat ==
  ASSUME NEW n \in Nat
  PROVE  NumBatches(n) \in Nat
<1> DEFINE k == n + BatchSize - 1
<1>1. k \in Nat /\ BatchSize \in Nat \ {0}
  BY ListenerAssumption
<1> HIDE DEF k
<1>2. k \div BatchSize \in Nat
  BY <1>1
<1> QED
  BY <1>2 DEF NumBatches, k

LEMMA HeadIsNat ==
  ASSUME head \in Nat, NEW h \in ReportedHeads
  PROVE  h \in Nat /\ h <= head /\ SafeHead(h) \in Int
BY ListenerAssumption DEF ReportedHeads, SafeHead

(* Every number BlockByNumber may come back with is a block number. *)
LEMMA ReturnedIsNat ==
  ASSUME head \in Nat, NEW n \in Int, NEW m \in Returned(n)
  PROVE  m \in Nat
BY DEF Returned

(* A number that is not negative brings the block of that number. *)
LEMMA ReturnedIsAsked ==
  ASSUME NEW n \in Int, n >= 0
  PROVE  Returned(n) = {n}
BY DEF Returned

-----------------------------------------------------------------------------
(* Type correctness. *)

LEMMA TypeInit == Init => TypeInv
<1> SUFFICES ASSUME Init PROVE TypeInv
  OBVIOUS
<1>1. EnvTypeOK /\ collected \subseteq Activity
  BY ListenerAssumption DEF Init, EnvTypeOK
<1>2. StoreTypeOK
  BY DEF Init, StoreTypeOK
<1>3. ControlTypeOK
  <2>1. cancelled \in BOOLEAN /\ retryDue \in BOOLEAN
    BY DEF Init
  <2>2. runs \in 0..MaxRuns
    BY ListenerAssumption DEF Init
  <2> QED
    BY <2>1, <2>2 DEF Init, ControlTypeOK
<1>4. ProcTypeOK
  BY DEF Init, ProcTypeOK
<1>5. TickTypeOK
  BY DEF Init, TickTypeOK
<1>6. ProvidersTypeOK
  BY DEF Init, Connected, ProvidersTypeOK
<1>7. ControlInv
  BY DEF Init, ControlInv, InTick, Busy
<1> QED
  BY <1>1, <1>2, <1>3, <1>4, <1>5, <1>6, <1>7 DEF TypeInv, TypeOK

(* The two ways a tick's locals change in many actions. *)
LEMMA NoTickType == NoTick => TickTypeOK'
BY DEF NoTick, TickTypeOK

LEMMA ProcessGoneType ==
  ProcessGone => ProcTypeOK' /\ TickTypeOK' /\ ProvidersTypeOK'
<1> SUFFICES ASSUME ProcessGone PROVE ProcTypeOK' /\ TickTypeOK' /\ ProvidersTypeOK'
  OBVIOUS
<1>1. ProcTypeOK'
  BY DEF ProcessGone, ProcTypeOK
<1>2. TickTypeOK'
  BY NoTickType DEF ProcessGone
<1>3. ProvidersTypeOK'
  BY DEF ProcessGone, Connect, ProvidersTypeOK
<1> QED
  BY <1>1, <1>2, <1>3

LEMMA HandleFailureType ==
  ASSUME ProvidersTypeOK, NEW p \in Providers, HandleProviderFailure(p)
  PROVE  ProvidersTypeOK'
<1>1. CASE RecordFailure(p)
  BY <1>1 DEF RecordFailure, ProvidersTypeOK
<1>2. CASE UNCHANGED providerVars
  BY <1>2 DEF providerVars, ProvidersTypeOK
<1> QED
  BY <1>1, <1>2 DEF HandleProviderFailure

LEMMA BlockDoneType ==
  ASSUME blockNum \in Int, safeBlock \in Int, ProcTypeOK, BlockDone,
         UNCHANGED <<sessionId, fromBlock>>
  PROVE  /\ ProcTypeOK'
         /\ blockNum' \in Int
         /\ block' \in Nat \cup {NULL} /\ batch' \in Nat /\ batches' \in Nat
         /\ pc' \in {"block", "persist"}
<1>1. startBlock' \in Int \cup {NULL}
  BY DEF BlockDone, ProcTypeOK
<1> QED
  BY <1>1 DEF BlockDone, ProcTypeOK

(* A group of variables that a step leaves alone keeps its types. *)
LEMMA Frame ==
  /\ EnvTypeOK /\ UNCHANGED envVars => EnvTypeOK'
  /\ StoreTypeOK /\ UNCHANGED <<dbVars, stream>> => StoreTypeOK'
  /\ ProcTypeOK /\ UNCHANGED <<procVars, startBlock>> => ProcTypeOK'
  /\ TickTypeOK /\ UNCHANGED tickVars => TickTypeOK'
  /\ ProvidersTypeOK /\ UNCHANGED providerVars => ProvidersTypeOK'
<1>1. EnvTypeOK /\ UNCHANGED envVars => EnvTypeOK'
  BY DEF EnvTypeOK, envVars
<1>2. StoreTypeOK /\ UNCHANGED <<dbVars, stream>> => StoreTypeOK'
  BY DEF StoreTypeOK, dbVars
<1>3. ProcTypeOK /\ UNCHANGED <<procVars, startBlock>> => ProcTypeOK'
  BY DEF ProcTypeOK, procVars
<1>4. TickTypeOK /\ UNCHANGED tickVars => TickTypeOK'
  BY DEF TickTypeOK, tickVars
<1>5. ProvidersTypeOK /\ UNCHANGED providerVars => ProvidersTypeOK'
  BY DEF ProvidersTypeOK, providerVars
<1> QED
  BY <1>1, <1>2, <1>3, <1>4, <1>5

(* Every step keeps the types. *)
LEMMA TypeNext == TypeInv /\ [Next]_vars => TypeInv'
<1> SUFFICES ASSUME TypeInv, [Next]_vars PROVE TypeInv'
  OBVIOUS
<1>0. /\ EnvTypeOK /\ StoreTypeOK /\ ControlTypeOK /\ ProcTypeOK /\ TickTypeOK
      /\ collected \subseteq Activity /\ ProvidersTypeOK /\ ControlInv
  BY DEF TypeInv, TypeOK
<1> USE DEF histVars
<1>1. CASE Start
  <2>1. ControlTypeOK'
    BY <1>1, <1>0, ListenerAssumption DEF Start, ControlTypeOK
  <2>2. ControlInv'
    BY <1>1, <1>0 DEF Start, ControlInv, InTick, Busy, dbVars, procVars,
       tickVars, ControlTypeOK
  <2>3. EnvTypeOK' /\ StoreTypeOK' /\ ProcTypeOK' /\ TickTypeOK'
       /\ collected' \subseteq Activity /\ ProvidersTypeOK'
    BY <1>1, <1>0, Frame DEF Start
  <2> QED
    BY <2>1, <2>2, <2>3 DEF TypeInv, TypeOK
<1>2. CASE StartHeaderOk
  <2>1. ControlTypeOK'
    BY <1>2, <1>0 DEF StartHeaderOk, ControlTypeOK
  <2>2. ProcTypeOK'
    BY <1>2, <1>0, HeadIsNat DEF StartHeaderOk, ProcTypeOK, EnvTypeOK
  <2>3. ControlInv'
    BY <1>2, <1>0, ListenerAssumption, HeadIsNat DEF StartHeaderOk,
       ControlInv, InTick, Busy, dbVars, procVars, tickVars, EnvTypeOK
  <2>4. EnvTypeOK' /\ StoreTypeOK' /\ TickTypeOK'
       /\ collected' \subseteq Activity /\ ProvidersTypeOK'
    BY <1>2, <1>0, Frame DEF StartHeaderOk
  <2> QED
    BY <2>1, <2>2, <2>3, <2>4 DEF TypeInv, TypeOK
<1>3. CASE StartHeaderFails
  <2>1. ControlTypeOK'
    BY <1>3, <1>0 DEF StartHeaderFails, ControlTypeOK
  <2>2. ControlInv'
    BY <1>3, <1>0 DEF StartHeaderFails, ControlInv, InTick, Busy, dbVars,
       procVars, tickVars
  <2>3. EnvTypeOK' /\ StoreTypeOK' /\ ProcTypeOK' /\ TickTypeOK'
       /\ collected' \subseteq Activity /\ ProvidersTypeOK'
    BY <1>3, <1>0, Frame DEF StartHeaderFails
  <2> QED
    BY <2>1, <2>2, <2>3 DEF TypeInv, TypeOK
<1>4. CASE StartSessionOk
  <2>1. StoreTypeOK'
    BY <1>4, <1>0 DEF StartSessionOk, StoreTypeOK, ControlTypeOK, ProcTypeOK,
       ControlInv, SessionRow, Row
  <2>2. ControlTypeOK'
    BY <1>4, <1>0 DEF StartSessionOk, ControlTypeOK
  <2>3. ProcTypeOK'
    BY <1>4, <1>0 DEF StartSessionOk, ProcTypeOK, ControlTypeOK, ControlInv
  <2>4. ControlInv'
    BY <1>4, <1>0, ListenerAssumption DEF StartSessionOk, ControlInv, InTick,
       Busy, dbVars, procVars, tickVars, ControlTypeOK, ProcTypeOK,
       StoreTypeOK, Row, SessionRow
  <2>5. EnvTypeOK' /\ TickTypeOK' /\ collected' \subseteq Activity
       /\ ProvidersTypeOK'
    BY <1>4, <1>0, Frame DEF StartSessionOk
  <2> QED
    BY <2>1, <2>2, <2>3, <2>4, <2>5 DEF TypeInv, TypeOK
<1>5. CASE StartSessionFails
  <2>1. StoreTypeOK'
    BY <1>5, <1>0 DEF StartSessionFails, StoreTypeOK, ControlTypeOK,
       ProcTypeOK, ControlInv, SessionRow, Row
  <2>2. ControlTypeOK'
    BY <1>5, <1>0 DEF StartSessionFails, ControlTypeOK
  <2>3. ControlInv'
    BY <1>5, <1>0, ListenerAssumption DEF StartSessionFails, ControlInv,
       InTick, Busy, dbVars, procVars, tickVars, ControlTypeOK, ProcTypeOK,
       StoreTypeOK, Row, SessionRow
  <2>4. EnvTypeOK' /\ ProcTypeOK' /\ TickTypeOK'
       /\ collected' \subseteq Activity /\ ProvidersTypeOK'
    BY <1>5, <1>0, Frame DEF StartSessionFails
  <2> QED
    BY <2>1, <2>2, <2>3, <2>4 DEF TypeInv, TypeOK
<1>6. ASSUME NEW back \in SUBSET unhealthy, Tick(back) PROVE TypeInv'
  <2>1. ControlTypeOK'
    BY <1>6, <1>0 DEF Tick, ControlTypeOK
  <2>2. TickTypeOK'
    BY <1>6, <1>0 DEF Tick, TickTypeOK, FirstHealthy
  <2>3. ProvidersTypeOK'
    BY <1>6, <1>0 DEF Tick, RecoverUnhealthy, ProvidersTypeOK
  <2>4. ControlInv'
    BY <1>6, <1>0, ListenerAssumption DEF Tick, ControlInv, InTick, Busy,
       dbVars, procVars, tickVars, FirstHealthy, Providers
  <2>5. EnvTypeOK' /\ StoreTypeOK' /\ ProcTypeOK'
       /\ collected' \subseteq Activity
    BY <1>6, <1>0, Frame DEF Tick
  <2> QED
    BY <2>1, <2>2, <2>3, <2>4, <2>5 DEF TypeInv, TypeOK
<1>7. CASE FetchHeaderOk
  <2>1. ControlTypeOK'
    BY <1>7, <1>0 DEF FetchHeaderOk, ControlTypeOK
  <2>2. TickTypeOK'
    BY <1>7, <1>0, HeadIsNat DEF FetchHeaderOk, TickTypeOK, EnvTypeOK
  <2>3. ControlInv'
    BY <1>7, <1>0, ListenerAssumption, HeadIsNat DEF FetchHeaderOk,
       ControlInv, InTick, Busy, dbVars, procVars, tickVars, EnvTypeOK
  <2>4. EnvTypeOK' /\ StoreTypeOK' /\ ProcTypeOK'
       /\ collected' \subseteq Activity /\ ProvidersTypeOK'
    BY <1>7, <1>0, Frame DEF FetchHeaderOk
  <2> QED
    BY <2>1, <2>2, <2>3, <2>4 DEF TypeInv, TypeOK
<1>8. CASE FetchHeaderFails
  <2>1. ControlTypeOK'
    BY <1>8, <1>0 DEF FetchHeaderFails, ControlTypeOK, EndTick
  <2>2. TickTypeOK'
    BY <1>8, <1>0, NoTickType DEF FetchHeaderFails, EndTick
  <2>3. ProvidersTypeOK'
    BY <1>8, <1>0, HandleFailureType DEF FetchHeaderFails, TickTypeOK,
       ControlInv, InTick
  <2>4. ControlInv'
    BY <1>8, <1>0 DEF FetchHeaderFails, ControlInv, InTick, Busy, dbVars,
       procVars, tickVars, EndTick, NoTick
  <2>5. EnvTypeOK' /\ StoreTypeOK' /\ ProcTypeOK'
       /\ collected' \subseteq Activity
    BY <1>8, <1>0, Frame DEF FetchHeaderFails
  <2> QED
    BY <2>1, <2>2, <2>3, <2>4, <2>5 DEF TypeInv, TypeOK
<1>9. CASE QueryWalletsFails
  <2>1. ControlTypeOK'
    BY <1>9, <1>0 DEF QueryWalletsFails, ControlTypeOK, EndTick
  <2>2. TickTypeOK'
    BY <1>9, <1>0, NoTickType DEF QueryWalletsFails, EndTick
  <2>3. ControlInv'
    BY <1>9, <1>0 DEF QueryWalletsFails, ControlInv, InTick, Busy, dbVars,
       procVars, tickVars, EndTick, NoTick
  <2>4. EnvTypeOK' /\ StoreTypeOK' /\ ProcTypeOK'
       /\ collected' \subseteq Activity /\ ProvidersTypeOK'
    BY <1>9, <1>0, Frame DEF QueryWalletsFails
  <2> QED
    BY <2>1, <2>2, <2>3, <2>4 DEF TypeInv, TypeOK
<1>10. CASE NoWallets
  <2>1. ControlTypeOK'
    BY <1>10, <1>0 DEF NoWallets, ControlTypeOK
  <2>2. ProcTypeOK'
    BY <1>10, <1>0 DEF NoWallets, ProcTypeOK, TickTypeOK, ControlInv, Busy
  <2>3. ControlInv'
    BY <1>10, <1>0 DEF NoWallets, ControlInv, InTick, Busy, dbVars, procVars,
       tickVars
  <2>4. EnvTypeOK' /\ StoreTypeOK' /\ TickTypeOK'
       /\ collected' \subseteq Activity /\ ProvidersTypeOK'
    BY <1>10, <1>0, Frame DEF NoWallets
  <2> QED
    BY <2>1, <2>2, <2>3, <2>4 DEF TypeInv, TypeOK
<1>11. CASE NothingNew
  <2>1. ControlTypeOK'
    BY <1>11, <1>0 DEF NothingNew, ControlTypeOK, EndTick
  <2>2. TickTypeOK'
    BY <1>11, <1>0, NoTickType DEF NothingNew, EndTick
  <2>3. ControlInv'
    BY <1>11, <1>0 DEF NothingNew, ControlInv, InTick, Busy, dbVars, procVars,
       tickVars, EndTick, NoTick
  <2>4. EnvTypeOK' /\ StoreTypeOK' /\ ProcTypeOK'
       /\ collected' \subseteq Activity /\ ProvidersTypeOK'
    BY <1>11, <1>0, Frame DEF NothingNew
  <2> QED
    BY <2>1, <2>2, <2>3, <2>4 DEF TypeInv, TypeOK
<1>12. CASE BeginScan
  <2>1. ControlTypeOK'
    BY <1>12, <1>0 DEF BeginScan, ControlTypeOK
  <2>2. TickTypeOK'
    BY <1>12, <1>0, ListenerAssumption DEF BeginScan, TickTypeOK, EnvTypeOK,
       ProcTypeOK, ControlInv, Busy, ScanFrom, CappedEnd
  <2>3. ControlInv'
    BY <1>12, <1>0, ListenerAssumption DEF BeginScan, ControlInv, InTick,
       Busy, dbVars, procVars, tickVars, ScanFrom, CappedEnd, ProcTypeOK,
       TickTypeOK
  <2>4. EnvTypeOK' /\ StoreTypeOK' /\ ProcTypeOK'
       /\ collected' \subseteq Activity /\ ProvidersTypeOK'
    BY <1>12, <1>0, Frame DEF BeginScan
  <2> QED
    BY <2>1, <2>2, <2>3, <2>4 DEF TypeInv, TypeOK
<1>13. CASE FetchBlockOk
  <2>1. ControlTypeOK'
    BY <1>13, <1>0 DEF FetchBlockOk, ControlTypeOK, BlockDone
  <2>2. ProcTypeOK'
    BY <1>13, <1>0, BlockDoneType DEF FetchBlockOk, ProcTypeOK, TickTypeOK,
       ControlInv, Busy
  <2>3. TickTypeOK'
    <3>1. PICK n \in Returned(blockNum), logsOk \in BOOLEAN :
            LET found == Found(n, addresses, logsOk) IN
            \/ BlockDone
            \/ /\ block' = n /\ batch' = 1 /\ batches' = NumBatches(Cardinality(found))
               /\ UNCHANGED blockNum
      BY <1>13 DEF FetchBlockOk
    <3>2. blockNum \in Int /\ safeBlock \in Int
      BY <1>13, <1>0 DEF FetchBlockOk, ControlInv, Busy, TickTypeOK
    <3>3. n \in Nat /\ NumBatches(Cardinality(Found(n, addresses, logsOk))) \in Nat
      BY <3>2, <1>0, ReturnedIsNat, FoundIsFinite, NumBatchesIsNat DEF EnvTypeOK
    <3>4. /\ blockNum' \in Int
          /\ block' \in Nat \cup {NULL} /\ batch' \in Nat /\ batches' \in Nat
      BY <3>1, <3>2, <3>3 DEF BlockDone
    <3> QED
      BY <1>13, <1>0, <3>4 DEF FetchBlockOk, TickTypeOK
  <2>4. collected' \subseteq Activity
    BY <1>13, <1>0, FoundIsFinite DEF FetchBlockOk
  <2>5. ControlInv'
    BY <1>13, <1>0, ListenerAssumption, ReturnedIsNat DEF FetchBlockOk,
       ControlInv, InTick, Busy, dbVars, procVars, tickVars, BlockDone,
       TickTypeOK, EnvTypeOK, StoreTypeOK
  <2>6. EnvTypeOK' /\ StoreTypeOK' /\ ProvidersTypeOK'
    BY <1>13, <1>0, Frame DEF FetchBlockOk
  <2> QED
    BY <2>1, <2>2, <2>3, <2>4, <2>5, <2>6 DEF TypeInv, TypeOK
<1>14. CASE FetchBlockFails
  <2>1. ControlTypeOK'
    BY <1>14, <1>0 DEF FetchBlockFails, ControlTypeOK
  <2>2. ProvidersTypeOK'
    BY <1>14, <1>0, HandleFailureType DEF FetchBlockFails, TickTypeOK,
       ControlInv, InTick
  <2>3. ControlInv'
    BY <1>14, <1>0 DEF FetchBlockFails, ControlInv, InTick, Busy, dbVars,
       procVars, tickVars
  <2>4. EnvTypeOK' /\ StoreTypeOK' /\ ProcTypeOK' /\ TickTypeOK'
       /\ collected' \subseteq Activity
    BY <1>14, <1>0, Frame DEF FetchBlockFails
  <2> QED
    BY <2>1, <2>2, <2>3, <2>4 DEF TypeInv, TypeOK
<1>15. CASE PublishAcked
  <2>1. StoreTypeOK'
    BY <1>15, <1>0 DEF PublishAcked, StoreTypeOK, ControlTypeOK, TickTypeOK,
       ControlInv, StreamMessage, Message, dbVars
  <2>2. ControlTypeOK'
    BY <1>15, <1>0 DEF PublishAcked, ControlTypeOK, BlockDone
  <2>3. ProcTypeOK'
    BY <1>15, <1>0, BlockDoneType DEF PublishAcked, ProcTypeOK, TickTypeOK,
       ControlInv, Busy
  <2>4. TickTypeOK'
    BY <1>15, <1>0, BlockDoneType DEF PublishAcked, TickTypeOK, ControlInv,
       Busy
  <2>5. ControlInv'
    BY <1>15, <1>0, ListenerAssumption, ReturnedIsNat DEF PublishAcked,
       ControlInv, InTick, Busy, dbVars, procVars, tickVars, BlockDone,
       TickTypeOK, EnvTypeOK, StoreTypeOK
  <2>6. EnvTypeOK' /\ collected' \subseteq Activity /\ ProvidersTypeOK'
    BY <1>15, <1>0, Frame DEF PublishAcked
  <2> QED
    BY <2>1, <2>2, <2>3, <2>4, <2>5, <2>6 DEF TypeInv, TypeOK
<1>16. CASE PublishFails
  <2>1. StoreTypeOK'
    BY <1>16, <1>0 DEF PublishFails, StoreTypeOK, ControlTypeOK, TickTypeOK,
       ControlInv, StreamMessage, Message, dbVars
  <2>2. ControlTypeOK'
    BY <1>16, <1>0 DEF PublishFails, ControlTypeOK, BlockDone
  <2>3. ProcTypeOK'
    BY <1>16, <1>0, BlockDoneType DEF PublishFails, ProcTypeOK, TickTypeOK,
       ControlInv, Busy
  <2>4. TickTypeOK'
    BY <1>16, <1>0, BlockDoneType DEF PublishFails, TickTypeOK, ControlInv,
       Busy
  <2>5. ControlInv'
    BY <1>16, <1>0, ListenerAssumption, ReturnedIsNat DEF PublishFails,
       ControlInv, InTick, Busy, dbVars, procVars, tickVars, BlockDone,
       TickTypeOK, EnvTypeOK, StoreTypeOK
  <2>6. EnvTypeOK' /\ collected' \subseteq Activity /\ ProvidersTypeOK'
    BY <1>16, <1>0, Frame DEF PublishFails
  <2> QED
    BY <2>1, <2>2, <2>3, <2>4, <2>5, <2>6 DEF TypeInv, TypeOK
<1>17. CASE PersistOk
  <2>1. StoreTypeOK'
    BY <1>17, <1>0 DEF PersistOk, StoreTypeOK, ProcTypeOK, dbVars
  <2>2. ControlTypeOK'
    BY <1>17, <1>0 DEF PersistOk, ControlTypeOK, EndTick
  <2>3. ProcTypeOK'
    BY <1>17, <1>0 DEF PersistOk, ProcTypeOK, ResumeAt
  <2>4. TickTypeOK'
    BY <1>17, <1>0, NoTickType DEF PersistOk, EndTick
  <2>5. ControlInv'
    BY <1>17, <1>0 DEF PersistOk, ControlInv, InTick, Busy, dbVars, procVars,
       tickVars, EndTick, NoTick
  <2>6. EnvTypeOK' /\ collected' \subseteq Activity /\ ProvidersTypeOK'
    BY <1>17, <1>0, Frame DEF PersistOk
  <2> QED
    BY <2>1, <2>2, <2>3, <2>4, <2>5, <2>6 DEF TypeInv, TypeOK
<1>18. CASE PersistFails
  <2>1. StoreTypeOK'
    BY <1>18, <1>0 DEF PersistFails, StoreTypeOK, ProcTypeOK, dbVars
  <2>2. ControlTypeOK'
    BY <1>18, <1>0 DEF PersistFails, ControlTypeOK, EndTick
  <2>3. ProcTypeOK'
    BY <1>18, <1>0 DEF PersistFails, ProcTypeOK, ResumeAt
  <2>4. TickTypeOK'
    BY <1>18, <1>0, NoTickType DEF PersistFails, EndTick
  <2>5. ControlInv'
    BY <1>18, <1>0 DEF PersistFails, ControlInv, InTick, Busy, dbVars,
       procVars, tickVars, EndTick, NoTick
  <2>6. EnvTypeOK' /\ collected' \subseteq Activity /\ ProvidersTypeOK'
    BY <1>18, <1>0, Frame DEF PersistFails
  <2> QED
    BY <2>1, <2>2, <2>3, <2>4, <2>5, <2>6 DEF TypeInv, TypeOK
<1>19. CASE NothingToPersist
  <2>1. ControlTypeOK'
    BY <1>19, <1>0 DEF NothingToPersist, ControlTypeOK, EndTick
  <2>2. TickTypeOK'
    BY <1>19, <1>0, NoTickType DEF NothingToPersist, EndTick
  <2>3. ControlInv'
    BY <1>19, <1>0 DEF NothingToPersist, ControlInv, InTick, Busy, dbVars,
       procVars, tickVars, EndTick, NoTick
  <2>4. EnvTypeOK' /\ StoreTypeOK' /\ ProcTypeOK'
       /\ collected' \subseteq Activity /\ ProvidersTypeOK'
    BY <1>19, <1>0, Frame DEF NothingToPersist
  <2> QED
    BY <2>1, <2>2, <2>3, <2>4 DEF TypeInv, TypeOK
<1>20. CASE Shutdown
  <2>1. StoreTypeOK'
    BY <1>20, <1>0 DEF Shutdown, StoreTypeOK, ControlTypeOK, ProcTypeOK,
       ControlInv, SessionRow
  <2>2. ControlTypeOK'
    BY <1>20, <1>0 DEF Shutdown, ControlTypeOK, ProcessGone
  <2>3. ProcTypeOK'
    BY <1>20, <1>0, Frame, ProcessGoneType DEF Shutdown
  <2>4. TickTypeOK'
    BY <1>20, <1>0, ProcessGoneType DEF Shutdown
  <2>5. ProvidersTypeOK'
    BY <1>20, <1>0, ProcessGoneType DEF Shutdown
  <2>6. ControlInv'
    BY <1>20, <1>0 DEF Shutdown, ControlInv, InTick, Busy, dbVars, procVars,
       tickVars, ProcessGone, NoTick
  <2>7. EnvTypeOK' /\ collected' \subseteq Activity
    BY <1>20, <1>0, Frame DEF Shutdown
  <2> QED
    BY <2>1, <2>2, <2>3, <2>4, <2>5, <2>6, <2>7 DEF TypeInv, TypeOK
<1>21. CASE Cancel
  <2>1. ControlTypeOK'
    BY <1>21, <1>0 DEF Cancel, ControlTypeOK
  <2>2. ControlInv'
    BY <1>21, <1>0 DEF Cancel, ControlInv, InTick, Busy, dbVars, procVars,
       tickVars
  <2>3. EnvTypeOK' /\ StoreTypeOK' /\ ProcTypeOK' /\ TickTypeOK'
       /\ collected' \subseteq Activity /\ ProvidersTypeOK'
    BY <1>21, <1>0, Frame DEF Cancel
  <2> QED
    BY <2>1, <2>2, <2>3 DEF TypeInv, TypeOK
<1>22. CASE Crash
  <2>1. ControlTypeOK'
    BY <1>22, <1>0 DEF Crash, ControlTypeOK, ProcessGone
  <2>2. ProcTypeOK'
    BY <1>22, <1>0, Frame, ProcessGoneType DEF Crash
  <2>3. TickTypeOK'
    BY <1>22, <1>0, ProcessGoneType DEF Crash
  <2>4. ProvidersTypeOK'
    BY <1>22, <1>0, ProcessGoneType DEF Crash
  <2>5. ControlInv'
    BY <1>22, <1>0 DEF Crash, ControlInv, InTick, Busy, dbVars, procVars,
       tickVars, ProcessGone, NoTick
  <2>6. EnvTypeOK' /\ StoreTypeOK' /\ collected' \subseteq Activity
    BY <1>22, <1>0, Frame DEF Crash
  <2> QED
    BY <2>1, <2>2, <2>3, <2>4, <2>5, <2>6 DEF TypeInv, TypeOK
<1>23. CASE NewBlock
  <2>1. EnvTypeOK'
    BY <1>23, <1>0 DEF NewBlock, EnvTypeOK
  <2>2. ControlTypeOK'
    BY <1>23, <1>0 DEF NewBlock, ControlTypeOK
  <2>3. ControlInv'
    BY <1>23, <1>0 DEF NewBlock, ControlInv, InTick, Busy, dbVars, procVars,
       tickVars
  <2>4. StoreTypeOK' /\ ProcTypeOK' /\ TickTypeOK'
       /\ collected' \subseteq Activity /\ ProvidersTypeOK'
    BY <1>23, <1>0, Frame DEF NewBlock
  <2> QED
    BY <2>1, <2>2, <2>3, <2>4 DEF TypeInv, TypeOK
<1>24. CASE RetryTimerExpires
  <2>1. ControlTypeOK'
    BY <1>24, <1>0 DEF RetryTimerExpires, ControlTypeOK
  <2>2. ControlInv'
    BY <1>24, <1>0 DEF RetryTimerExpires, ControlInv, InTick, Busy, dbVars,
       procVars, tickVars
  <2>3. EnvTypeOK' /\ StoreTypeOK' /\ ProcTypeOK' /\ TickTypeOK'
       /\ collected' \subseteq Activity /\ ProvidersTypeOK'
    BY <1>24, <1>0, Frame DEF RetryTimerExpires
  <2> QED
    BY <2>1, <2>2, <2>3 DEF TypeInv, TypeOK
<1>25. ASSUME NEW w \in Wallets, Watch(w) PROVE TypeInv'
  <2>1. EnvTypeOK'
    BY <1>25, <1>0 DEF Watch, EnvTypeOK
  <2>2. ControlTypeOK'
    BY <1>25, <1>0 DEF Watch, ControlTypeOK
  <2>3. ControlInv'
    BY <1>25, <1>0 DEF Watch, ControlInv, InTick, Busy, dbVars, procVars,
       tickVars
  <2>4. StoreTypeOK' /\ ProcTypeOK' /\ TickTypeOK'
       /\ collected' \subseteq Activity /\ ProvidersTypeOK'
    BY <1>25, <1>0, Frame DEF Watch
  <2> QED
    BY <2>1, <2>2, <2>3, <2>4 DEF TypeInv, TypeOK
<1>26. ASSUME NEW w \in Wallets, Unwatch(w) PROVE TypeInv'
  <2>1. EnvTypeOK'
    BY <1>26, <1>0 DEF Unwatch, EnvTypeOK
  <2>2. ControlTypeOK'
    BY <1>26, <1>0 DEF Unwatch, ControlTypeOK
  <2>3. ControlInv'
    BY <1>26, <1>0 DEF Unwatch, ControlInv, InTick, Busy, dbVars, procVars,
       tickVars
  <2>4. StoreTypeOK' /\ ProcTypeOK' /\ TickTypeOK'
       /\ collected' \subseteq Activity /\ ProvidersTypeOK'
    BY <1>26, <1>0, Frame DEF Unwatch
  <2> QED
    BY <2>1, <2>2, <2>3, <2>4 DEF TypeInv, TypeOK
<1>27. CASE UNCHANGED vars
  BY <1>27, <1>0, Frame DEF vars, TypeInv, TypeOK, ControlTypeOK, ControlInv, InTick, Busy,
     dbVars, procVars, tickVars
<1> QED
  BY <1>1, <1>2, <1>3, <1>4, <1>5, <1>6, <1>7, <1>8, <1>9, <1>10, <1>11, <1>12, <1>13, <1>14, <1>15, <1>16, <1>17, <1>18, <1>19, <1>20, <1>21, <1>22, <1>23, <1>24, <1>25, <1>26, <1>27 DEF Next, ProcessNext, EnvNext

THEOREM TypeCorrect == Spec => []TypeOK
<1>1. Spec => []TypeInv
  BY TypeInit, TypeNext, PTL DEF Spec
<1>2. TypeInv => TypeOK
  BY DEF TypeInv
<1> QED
  BY <1>1, <1>2, PTL
-----------------------------------------------------------------------------
(* Depth. *)

LEMMA DepthInit == DeepChain /\ Init => DepthInv
BY ListenerAssumption DEF Init, DepthInv, Busy, SafeDepth

LEMMA ReportedIsDeep ==
  ASSUME DeepChain, head \in Nat, InitHead <= head, NEW h \in ReportedHeads
  PROVE  SafeHead(h) >= 0 /\ SafeHead(h) + SafeBlockBuffer <= head /\ SafeHead(h) \in Int
BY ListenerAssumption DEF DeepChain, ReportedHeads, SafeHead

(* The cap shortens a range and never lengthens it. *)
LEMMA CapShortens ==
  ASSUME NEW from \in Int, NEW safe \in Int
  PROVE  CappedEnd(from, safe) \in Int /\ CappedEnd(from, safe) <= safe
BY ListenerAssumption DEF CappedEnd

(* Every step keeps the depth of what is fetched and published. *)
LEMMA DepthNext == DeepChain /\ TypeInv /\ DepthInv /\ [Next]_vars => DepthInv'
<1> SUFFICES ASSUME DeepChain, TypeInv, DepthInv, [Next]_vars PROVE DepthInv'
  OBVIOUS
<1>0. /\ head \in Nat /\ stream \subseteq StreamMessage
      /\ fromBlock \in Int \cup {NULL} /\ lastBlock \in Int \cup {NULL}
      /\ safeBlock \in Int \cup {NULL} /\ blockNum \in Int \cup {NULL}
      /\ block \in Nat \cup {NULL}
      /\ ControlInv
  BY DEF TypeInv, TypeOK, EnvTypeOK, StoreTypeOK, ProcTypeOK, TickTypeOK
<1> USE DEF DepthInv, Busy, SafeDepth, StreamMessage,
        envVars, dbVars, procVars, tickVars
<1>1. CASE Start
  BY <1>1, <1>0, ListenerAssumption DEF Start
<1>2. CASE StartHeaderOk
  BY <1>2, <1>0, ListenerAssumption, ReportedIsDeep DEF StartHeaderOk
<1>3. CASE StartHeaderFails
  BY <1>3, <1>0, ListenerAssumption DEF StartHeaderFails
<1>4. CASE StartSessionOk
  BY <1>4, <1>0, ListenerAssumption DEF StartSessionOk
<1>5. CASE StartSessionFails
  BY <1>5, <1>0, ListenerAssumption DEF StartSessionFails
<1>6. ASSUME NEW back \in SUBSET unhealthy, Tick(back) PROVE DepthInv'
  BY <1>6, <1>0, ListenerAssumption DEF Tick
<1>7. CASE FetchHeaderOk
  BY <1>7, <1>0, ListenerAssumption, ReportedIsDeep DEF FetchHeaderOk
<1>8. CASE FetchHeaderFails
  BY <1>8, <1>0, ListenerAssumption DEF FetchHeaderFails, EndTick, NoTick
<1>9. CASE QueryWalletsFails
  BY <1>9, <1>0, ListenerAssumption DEF QueryWalletsFails, EndTick, NoTick
<1>10. CASE NoWallets
  BY <1>10, <1>0, ListenerAssumption DEF NoWallets, ControlInv
<1>11. CASE NothingNew
  BY <1>11, <1>0, ListenerAssumption, CapShortens DEF NothingNew, EndTick,
     NoTick, ScanFrom, ControlInv
<1>12. CASE BeginScan
  <2>1. /\ safeBlock \in Int /\ ScanFrom(safeBlock) \in Int
        /\ ScanFrom(safeBlock) >= 0
    BY <1>12, <1>0 DEF BeginScan, ControlInv, ScanFrom
  <2>2. safeBlock' \in Int /\ safeBlock' <= safeBlock
    BY <1>12, <2>1, CapShortens DEF BeginScan
  <2>3. blockNum' = ScanFrom(safeBlock) /\ (Busy' => blockNum' <= safeBlock')
    BY <1>12, <2>1, <2>2 DEF BeginScan
  <2> QED
    BY <1>12, <1>0, <2>1, <2>2, <2>3, ListenerAssumption DEF BeginScan
<1>13. CASE FetchBlockOk
  BY <1>13, <1>0, ListenerAssumption DEF FetchBlockOk, BlockDone, ControlInv,
     Returned, Message
<1>14. CASE FetchBlockFails
  BY <1>14, <1>0, ListenerAssumption DEF FetchBlockFails
<1>15. CASE PublishAcked
  BY <1>15, <1>0, ListenerAssumption DEF PublishAcked, BlockDone, ControlInv,
     Returned, Message
<1>16. CASE PublishFails
  BY <1>16, <1>0, ListenerAssumption DEF PublishFails, BlockDone, ControlInv,
     Returned, Message
<1>17. CASE PersistOk
  BY <1>17, <1>0, ListenerAssumption DEF PersistOk, EndTick, NoTick, ResumeAt
<1>18. CASE PersistFails
  BY <1>18, <1>0, ListenerAssumption DEF PersistFails, EndTick, NoTick,
     ResumeAt
<1>19. CASE NothingToPersist
  BY <1>19, <1>0, ListenerAssumption DEF NothingToPersist, EndTick, NoTick
<1>20. CASE Shutdown
  BY <1>20, <1>0, ListenerAssumption DEF Shutdown, ProcessGone, NoTick
<1>21. CASE Cancel
  BY <1>21, <1>0, ListenerAssumption DEF Cancel
<1>22. CASE Crash
  BY <1>22, <1>0, ListenerAssumption DEF Crash, ProcessGone, NoTick
<1>23. CASE NewBlock
  BY <1>23, <1>0, ListenerAssumption DEF NewBlock
<1>24. CASE RetryTimerExpires
  BY <1>24, <1>0, ListenerAssumption DEF RetryTimerExpires
<1>25. ASSUME NEW w \in Wallets, Watch(w) PROVE DepthInv'
  BY <1>25, <1>0, ListenerAssumption DEF Watch
<1>26. ASSUME NEW w \in Wallets, Unwatch(w) PROVE DepthInv'
  BY <1>26, <1>0, ListenerAssumption DEF Unwatch
<1>27. CASE UNCHANGED vars
  BY <1>27, <1>0 DEF vars
<1> QED
  BY <1>1, <1>2, <1>3, <1>4, <1>5, <1>6, <1>7, <1>8, <1>9, <1>10, <1>11,
     <1>12, <1>13, <1>14, <1>15, <1>16, <1>17, <1>18, <1>19, <1>20, <1>21,
     <1>22, <1>23, <1>24, <1>25, <1>26, <1>27 DEF Next, ProcessNext, EnvNext

(* On a chain that no provider reports younger than the buffer, nothing is *)
(* ever published from a block shallower than the buffer.                  *)
THEOREM PublishedDepth == ASSUME DeepChain PROVE Spec => []SafeDepth
<1>1. Spec => []TypeInv
  BY TypeInit, TypeNext, PTL DEF Spec
<1>2. Init => DepthInv
  BY DeepChain, DepthInit
<1>3. TypeInv /\ DepthInv /\ [Next]_vars => DepthInv'
  BY DeepChain, DepthNext
<1>4. DepthInv => SafeDepth
  BY DEF DepthInv
<1> QED
  BY <1>1, <1>2, <1>3, <1>4, PTL DEF Spec
-----------------------------------------------------------------------------
(* Coverage. *)

LEMMA CoverInit == Init => CoverInv
<1> SUFFICES ASSUME Init PROVE CoverInv
  OBVIOUS
<1>1. SnapshotInv /\ PointerInv
  BY ListenerAssumption DEF Init, SnapshotInv, PointerInv, Busy
<1>2. RowInv /\ SessionCoverage
  BY DEF Init, RowInv, SessionCoverage
<1> QED
  BY <1>1, <1>2 DEF CoverInv, RunCoverage, Init

(* Every step keeps the coverage. *)
LEMMA CoverNext == TypeInv /\ CoverInv /\ [Next]_vars => CoverInv'
<1> SUFFICES ASSUME TypeInv, CoverInv, [Next]_vars PROVE CoverInv'
  OBVIOUS
<1>0. /\ head \in Nat /\ watched \in SUBSET Wallets /\ since \in [Wallets -> Nat]
      /\ sessions \in [1..MaxRuns -> SessionRow \cup {NULL}]
      /\ sessionId \in (1..MaxRuns) \cup {NULL}
      /\ fromBlock \in Int \cup {NULL} /\ lastBlock \in Int \cup {NULL}
      /\ startBlock \in Int \cup {NULL}
      /\ safeBlock \in Int \cup {NULL} /\ blockNum \in Int \cup {NULL}
      /\ runs \in 0..MaxRuns
      /\ ControlInv
  BY DEF TypeInv, TypeOK, EnvTypeOK, StoreTypeOK, ControlTypeOK, ProcTypeOK, TickTypeOK
<1>a. /\ \A a \in Activity : a.block \in Nat /\ a.wallet \in Wallets
      /\ NULL \notin Int /\ NULL \notin SessionRow /\ SafeBlockBuffer \in Nat
  BY ListenerAssumption DEF ActivityRecord
<1>i. SnapshotInv /\ PointerInv /\ RowInv /\ RunCoverage /\ SessionCoverage
      /\ (pc = "publish" => Covered(blockNum, blockNum))
  BY DEF CoverInv
<1> USE DEF Busy, envVars, dbVars, procVars, tickVars, histVars
<1>1. CASE Start
  BY <1>1, <1>0, <1>a, <1>i DEF Start, CoverInv, SnapshotInv, PointerInv,
     RowInv, RunCoverage, SessionCoverage, Covered, Owed
<1>2. CASE StartHeaderOk
  <2>1. SnapshotInv'
    BY <1>2, <1>0, <1>a, <1>i, HeadIsNat DEF StartHeaderOk, SnapshotInv,
       ReportedHeads, SafeHead
  <2>2. PointerInv'
    BY <1>2, <1>0, <1>a, <1>i, HeadIsNat DEF StartHeaderOk, PointerInv,
       ReportedHeads, SafeHead
  <2>3. RowInv'
    BY <1>2, <1>0, <1>a, <1>i, HeadIsNat DEF StartHeaderOk, RowInv,
       SnapshotInv, PointerInv, ReportedHeads, SafeHead, SessionRow
  <2>4. RunCoverage'
    BY <1>2, <1>0, <1>a, <1>i, HeadIsNat DEF StartHeaderOk, RunCoverage,
       Covered, Owed, ReportedHeads, SafeHead, PointerInv
  <2>5. (pc = "publish" => Covered(blockNum, blockNum))'
    BY <1>2, <1>0, <1>a, <1>i DEF StartHeaderOk, Covered, Owed
  <2>6. SessionCoverage'
    BY <1>2, <1>0, <1>a, <1>i DEF StartHeaderOk, SessionCoverage, Covered,
       Owed, SessionRow
  <2> QED
    BY <2>1, <2>2, <2>3, <2>4, <2>5, <2>6 DEF CoverInv
<1>3. CASE StartHeaderFails
  BY <1>3, <1>0, <1>a, <1>i DEF StartHeaderFails, CoverInv, SnapshotInv,
     PointerInv, RowInv, RunCoverage, SessionCoverage, Covered, Owed
<1>4. CASE StartSessionOk
  <2>1. SnapshotInv'
    BY <1>4, <1>0, <1>a, <1>i DEF StartSessionOk, SnapshotInv, ControlInv,
       Row, SessionRow
  <2>2. PointerInv'
    BY <1>4, <1>0, <1>a, <1>i DEF StartSessionOk, PointerInv, ControlInv, Row,
       SessionRow
  <2>3. RowInv'
    BY <1>4, <1>0, <1>a, <1>i DEF StartSessionOk, RowInv, SnapshotInv,
       PointerInv, ControlInv, Row, SessionRow
  <2>4. RunCoverage'
    BY <1>4, <1>0, <1>a, <1>i DEF StartSessionOk, RunCoverage, Covered, Owed,
       ControlInv, Row, SessionRow
  <2>5. (pc = "publish" => Covered(blockNum, blockNum))'
    BY <1>4, <1>0, <1>a, <1>i DEF StartSessionOk, Covered, Owed, ControlInv,
       Row, SessionRow
  <2>6. SessionCoverage'
    BY <1>4, <1>0, <1>a, <1>i DEF StartSessionOk, SessionCoverage, Covered,
       Owed, ControlInv, Row, SessionRow
  <2> QED
    BY <2>1, <2>2, <2>3, <2>4, <2>5, <2>6 DEF CoverInv
<1>5. CASE StartSessionFails
  <2>1. SnapshotInv'
    BY <1>5, <1>0, <1>a, <1>i DEF StartSessionFails, SnapshotInv, ControlInv,
       Row, SessionRow
  <2>2. PointerInv'
    BY <1>5, <1>0, <1>a, <1>i DEF StartSessionFails, PointerInv, ControlInv,
       Row, SessionRow
  <2>3. RowInv'
    BY <1>5, <1>0, <1>a, <1>i DEF StartSessionFails, RowInv, SnapshotInv,
       PointerInv, ControlInv, Row, SessionRow
  <2>4. RunCoverage'
    BY <1>5, <1>0, <1>a, <1>i DEF StartSessionFails, RunCoverage, Covered,
       Owed, ControlInv, Row, SessionRow
  <2>5. (pc = "publish" => Covered(blockNum, blockNum))'
    BY <1>5, <1>0, <1>a, <1>i DEF StartSessionFails, Covered, Owed,
       ControlInv, Row, SessionRow
  <2>6. SessionCoverage'
    <3>1. CASE UNCHANGED sessions
      BY <1>5, <3>1, <1>i DEF StartSessionFails, SessionCoverage, Covered, Owed
    <3>2. CASE sessions' = [sessions EXCEPT ![runs] = Row(fromBlock, NULL, "ACTIVE")]
      <4>1. \A r \in 1..MaxRuns : sessions'[r] = sessions[r] \/ sessions'[r].status = "ACTIVE"
        BY <3>2, <1>0 DEF Row
      <4> QED
        BY <1>5, <4>1, <1>i DEF StartSessionFails, SessionCoverage, Covered, Owed
    <3> QED
      BY <1>5, <3>1, <3>2 DEF StartSessionFails
  <2> QED
    BY <2>1, <2>2, <2>3, <2>4, <2>5, <2>6 DEF CoverInv
<1>6. ASSUME NEW back \in SUBSET unhealthy, Tick(back) PROVE CoverInv'
  BY <1>6, <1>0, <1>a, <1>i DEF Tick, CoverInv, SnapshotInv, PointerInv,
     RowInv, RunCoverage, SessionCoverage, Covered, Owed
<1>7. CASE FetchHeaderOk
  <2>1. SnapshotInv'
    BY <1>7, <1>0, <1>a, <1>i, HeadIsNat DEF FetchHeaderOk, SnapshotInv,
       ReportedHeads, SafeHead
  <2>2. PointerInv'
    BY <1>7, <1>0, <1>a, <1>i, HeadIsNat DEF FetchHeaderOk, PointerInv,
       ReportedHeads, SafeHead
  <2>3. RowInv'
    BY <1>7, <1>0, <1>a, <1>i, HeadIsNat DEF FetchHeaderOk, RowInv,
       SnapshotInv, PointerInv, ReportedHeads, SafeHead, SessionRow
  <2>4. RunCoverage'
    BY <1>7, <1>0, <1>a, <1>i, HeadIsNat DEF FetchHeaderOk, RunCoverage,
       Covered, Owed, ReportedHeads, SafeHead
  <2>5. (pc = "publish" => Covered(blockNum, blockNum))'
    BY <1>7, <1>0, <1>a, <1>i DEF FetchHeaderOk, Covered, Owed
  <2>6. SessionCoverage'
    BY <1>7, <1>0, <1>a, <1>i DEF FetchHeaderOk, SessionCoverage, Covered,
       Owed, SessionRow
  <2> QED
    BY <2>1, <2>2, <2>3, <2>4, <2>5, <2>6 DEF CoverInv
<1>8. CASE FetchHeaderFails
  BY <1>8, <1>0, <1>a, <1>i DEF FetchHeaderFails, EndTick, NoTick, CoverInv,
     SnapshotInv, PointerInv, RowInv, RunCoverage, SessionCoverage, Covered,
     Owed
<1>9. CASE QueryWalletsFails
  BY <1>9, <1>0, <1>a, <1>i DEF QueryWalletsFails, EndTick, NoTick, CoverInv,
     SnapshotInv, PointerInv, RowInv, RunCoverage, SessionCoverage, Covered,
     Owed
<1>10. CASE NoWallets
  <2>1. SnapshotInv'
    BY <1>10, <1>0, <1>a, <1>i DEF NoWallets, SnapshotInv, ControlInv,
       PointerInv
  <2>2. PointerInv'
    BY <1>10, <1>0, <1>a, <1>i DEF NoWallets, PointerInv, ControlInv,
       SnapshotInv
  <2>3. RowInv'
    BY <1>10, <1>0, <1>a, <1>i DEF NoWallets, RowInv, SnapshotInv, PointerInv,
       ControlInv, SessionRow
  <2>4. RunCoverage'
    BY <1>10, <1>0, <1>a, <1>i DEF NoWallets, RunCoverage, Covered, Owed,
       ControlInv, PointerInv, SnapshotInv
  <2>5. (pc = "publish" => Covered(blockNum, blockNum))'
    BY <1>10, <1>0, <1>a, <1>i DEF NoWallets, Covered, Owed, ControlInv,
       PointerInv, SnapshotInv
  <2>6. SessionCoverage'
    BY <1>10, <1>0, <1>a, <1>i DEF NoWallets, SessionCoverage, Covered, Owed,
       ControlInv, PointerInv, SnapshotInv, SessionRow
  <2> QED
    BY <2>1, <2>2, <2>3, <2>4, <2>5, <2>6 DEF CoverInv
<1>11. CASE NothingNew
  BY <1>11, <1>0, <1>a, <1>i DEF NothingNew, EndTick, NoTick, CoverInv,
     SnapshotInv, PointerInv, RowInv, RunCoverage, SessionCoverage, Covered,
     Owed
<1>12. CASE BeginScan
  <2>0. /\ safeBlock \in Int /\ ScanFrom(safeBlock) \in Int
        /\ safeBlock' \in Int /\ safeBlock' <= safeBlock
        /\ blockNum' = ScanFrom(safeBlock) /\ (Busy' => blockNum' <= safeBlock')
    <3>1. safeBlock \in Int /\ ScanFrom(safeBlock) \in Int
      BY <1>12, <1>0 DEF BeginScan, ControlInv, ScanFrom
    <3> QED
      BY <1>12, <3>1, CapShortens DEF BeginScan
  <2>1. SnapshotInv'
    BY <1>12, <1>0, <1>a, <1>i, <2>0 DEF BeginScan, SnapshotInv, ControlInv,
       PointerInv
  <2>2. PointerInv'
    BY <1>12, <1>0, <1>a, <1>i, <2>0 DEF BeginScan, PointerInv, ControlInv,
       ScanFrom, SnapshotInv
  <2>3. RowInv'
    BY <1>12, <1>0, <1>a, <1>i DEF BeginScan, RowInv, SnapshotInv, PointerInv,
       ControlInv, SessionRow
  <2>4. RunCoverage'
    BY <1>12, <1>0, <1>a, <1>i DEF BeginScan, RunCoverage, Covered, Owed,
       ControlInv
  <2>5. (pc = "publish" => Covered(blockNum, blockNum))'
    BY <1>12, <1>0, <1>a, <1>i DEF BeginScan, Covered, Owed, ControlInv
  <2>6. SessionCoverage'
    BY <1>12, <1>0, <1>a, <1>i DEF BeginScan, SessionCoverage, Covered, Owed,
       ControlInv, SessionRow
  <2> QED
    BY <2>1, <2>2, <2>3, <2>4, <2>5, <2>6 DEF CoverInv
<1>13. CASE FetchBlockOk
  <2>1. SnapshotInv'
    BY <1>13, <1>0, <1>a, <1>i DEF FetchBlockOk, SnapshotInv, BlockDone,
       ControlInv, PointerInv
  <2>2. PointerInv'
    BY <1>13, <1>0, <1>a, <1>i DEF FetchBlockOk, PointerInv, BlockDone,
       ControlInv
  <2>3. RowInv'
    BY <1>13, <1>0, <1>a, <1>i DEF FetchBlockOk, RowInv, SnapshotInv,
       PointerInv, BlockDone, ControlInv, SessionRow
  <2>4. RunCoverage'
    <3>1. PICK n \in Returned(blockNum), logsOk \in BOOLEAN :
            /\ collected' = collected \cup Found(n, addresses, logsOk)
            /\ BlockDone \/ UNCHANGED <<lastBlock, startBlock>>
      BY <1>13 DEF FetchBlockOk
    <3>2. /\ UNCHANGED <<watched, since>> /\ collected \subseteq collected'
          /\ pc = "block" /\ Busy
      BY <1>13, <3>1 DEF FetchBlockOk, envVars, Busy
    <3>3. CASE UNCHANGED <<lastBlock, startBlock>>
      BY <1>a, <1>i, <3>2, <3>3 DEF RunCoverage, Covered, Owed
    <3>4. CASE BlockDone
      <4>1. /\ lastBlock' = blockNum
            /\ startBlock' = IF startBlock = NULL THEN blockNum ELSE startBlock
        BY <3>4 DEF BlockDone
      <4>2. SUFFICES ASSUME NEW a \in Activity, a.source = "TX", Owed(a),
                            startBlock' <= a.block, a.block <= blockNum
                     PROVE  a \in collected'
        BY <3>2, <4>1 DEF RunCoverage, Covered, Owed
      <4>3. CASE a.block = blockNum
        <5>1. Returned(blockNum) = {a.block}
          BY <1>0, <1>a, <4>3, ReturnedIsAsked
        <5>2. a.wallet \in addresses
          BY <1>0, <1>a, <1>i, <3>2, <4>2, <4>3 DEF SnapshotInv, Owed, ControlInv
        <5> QED
          BY <3>1, <4>2, <5>1, <5>2 DEF Found
      <4>4. CASE a.block # blockNum
        BY <1>0, <1>a, <1>i, <3>2, <4>1, <4>2, <4>4 DEF RunCoverage, Covered,
           PointerInv, ControlInv
      <4> QED
        BY <4>3, <4>4
    <3> QED
      BY <3>1, <3>3, <3>4
  <2>5. (pc = "publish" => Covered(blockNum, blockNum))'
    <3> SUFFICES ASSUME pc' = "publish" PROVE Covered(blockNum, blockNum)'
      OBVIOUS
    <3>1. PICK n \in Returned(blockNum), logsOk \in BOOLEAN :
            collected' = collected \cup Found(n, addresses, logsOk)
      BY <1>13 DEF FetchBlockOk
    <3>2. UNCHANGED <<head, watched, since, blockNum>> /\ pc = "block"
      BY <1>13 DEF FetchBlockOk, BlockDone
    <3>3. ASSUME NEW a \in Activity, a.source = "TX", Owed(a), a.block = blockNum
          PROVE  a \in Found(n, addresses, logsOk)
      <4>1. n = a.block
        BY <3>3, <1>a, ReturnedIsAsked
      <4>2. a.wallet \in addresses
        BY <3>2, <3>3, <1>0, <1>a, <1>i DEF Owed, SnapshotInv, ControlInv
      <4> QED
        BY <3>3, <4>1, <4>2 DEF Found
    <3>4. ASSUME NEW a \in Activity, a.source = "TX", Owed(a)',
                 blockNum' <= a.block, a.block <= blockNum'
          PROVE  a \in collected'
      <4>1. Owed(a) /\ a.block = blockNum
        BY <3>2, <3>4, <1>0, <1>a DEF Owed, ControlInv
      <4> QED
        BY <3>1, <3>3, <3>4, <4>1
    <3> QED
      BY <3>4 DEF Covered
  <2>6. SessionCoverage'
    BY <1>13, <1>0, <1>a, <1>i DEF FetchBlockOk, SessionCoverage, Covered,
       Owed, BlockDone, ControlInv, PointerInv, SessionRow
  <2> QED
    BY <2>1, <2>2, <2>3, <2>4, <2>5, <2>6 DEF CoverInv
<1>14. CASE FetchBlockFails
  BY <1>14, <1>0, <1>a, <1>i DEF FetchBlockFails, CoverInv, SnapshotInv,
     PointerInv, RowInv, RunCoverage, SessionCoverage, Covered, Owed
<1>15. CASE PublishAcked
  <2>1. SnapshotInv'
    BY <1>15, <1>0, <1>a, <1>i DEF PublishAcked, SnapshotInv, BlockDone,
       ControlInv, PointerInv
  <2>2. PointerInv'
    BY <1>15, <1>0, <1>a, <1>i DEF PublishAcked, PointerInv, BlockDone,
       ControlInv
  <2>3. RowInv'
    BY <1>15, <1>0, <1>a, <1>i DEF PublishAcked, RowInv, SnapshotInv,
       PointerInv, BlockDone, ControlInv, SessionRow
  <2>4. RunCoverage'
    BY <1>15, <1>0, <1>a, <1>i DEF PublishAcked, RunCoverage, Covered, Owed,
       BlockDone, ControlInv, PointerInv
  <2>5. (pc = "publish" => Covered(blockNum, blockNum))'
    BY <1>15, <1>0, <1>a, <1>i DEF PublishAcked, Covered, Owed, BlockDone,
       ControlInv, PointerInv
  <2>6. SessionCoverage'
    BY <1>15, <1>0, <1>a, <1>i DEF PublishAcked, SessionCoverage, Covered,
       Owed, BlockDone, ControlInv, PointerInv, SessionRow
  <2> QED
    BY <2>1, <2>2, <2>3, <2>4, <2>5, <2>6 DEF CoverInv
<1>16. CASE PublishFails
  <2>1. SnapshotInv'
    BY <1>16, <1>0, <1>a, <1>i DEF PublishFails, SnapshotInv, BlockDone,
       ControlInv, PointerInv
  <2>2. PointerInv'
    BY <1>16, <1>0, <1>a, <1>i DEF PublishFails, PointerInv, BlockDone,
       ControlInv
  <2>3. RowInv'
    BY <1>16, <1>0, <1>a, <1>i DEF PublishFails, RowInv, SnapshotInv,
       PointerInv, BlockDone, ControlInv, SessionRow
  <2>4. RunCoverage'
    BY <1>16, <1>0, <1>a, <1>i DEF PublishFails, RunCoverage, Covered, Owed,
       BlockDone, ControlInv, PointerInv
  <2>5. (pc = "publish" => Covered(blockNum, blockNum))'
    BY <1>16, <1>0, <1>a, <1>i DEF PublishFails, Covered, Owed, BlockDone,
       ControlInv, PointerInv
  <2>6. SessionCoverage'
    BY <1>16, <1>0, <1>a, <1>i DEF PublishFails, SessionCoverage, Covered,
       Owed, BlockDone, ControlInv, PointerInv, SessionRow
  <2> QED
    BY <2>1, <2>2, <2>3, <2>4, <2>5, <2>6 DEF CoverInv
<1>17. CASE PersistOk
  BY <1>17, <1>0, <1>a, <1>i DEF PersistOk, EndTick, NoTick, ResumeAt,
     CoverInv, SnapshotInv, PointerInv, RowInv, RunCoverage, SessionCoverage,
     Covered, Owed
<1>18. CASE PersistFails
  BY <1>18, <1>0, <1>a, <1>i DEF PersistFails, EndTick, NoTick, ResumeAt,
     CoverInv, SnapshotInv, PointerInv, RowInv, RunCoverage, SessionCoverage,
     Covered, Owed
<1>19. CASE NothingToPersist
  BY <1>19, <1>0, <1>a, <1>i DEF NothingToPersist, EndTick, NoTick, CoverInv,
     SnapshotInv, PointerInv, RowInv, RunCoverage, SessionCoverage, Covered,
     Owed
<1>20. CASE Shutdown
  <2>1. SnapshotInv'
    BY <1>20, <1>0, <1>a, <1>i DEF Shutdown, ProcessGone, NoTick, SnapshotInv,
       ControlInv, SessionRow, RunCoverage, RowInv
  <2>2. PointerInv'
    BY <1>20, <1>0, <1>a, <1>i DEF Shutdown, ProcessGone, NoTick, PointerInv,
       ControlInv, SessionRow, RunCoverage, RowInv, SnapshotInv
  <2>3. RowInv'
    <3>1. \A r \in 1..MaxRuns :
            sessions'[r] = sessions[r] \/ (sessions[r] # NULL /\ sessions'[r].to = lastBlock)
      <4>1. CASE UNCHANGED sessions
        BY <4>1
      <4>2. CASE /\ sessionId # NULL
                 /\ sessions' = [sessions EXCEPT ![sessionId].to = lastBlock,
                                                 ![sessionId].status = "CLOSED"]
        <5>1. /\ sessionId \in 1..MaxRuns /\ sessions[sessionId] # NULL
              /\ sessions[sessionId] \in SessionRow
          BY <4>2, <1>0 DEF ControlInv
        <5>2. sessions'[sessionId].to = lastBlock
          BY <4>2, <5>1, <1>0 DEF SessionRow
        <5>3. \A r \in 1..MaxRuns : r # sessionId => sessions'[r] = sessions[r]
          BY <4>2, <5>1, <1>0
        <5> QED
          BY <5>1, <5>2, <5>3
      <4> QED
        BY <1>20, <4>1, <4>2 DEF Shutdown
    <3>2. sessionId' = NULL /\ head' = head
      BY <1>20 DEF Shutdown, ProcessGone
    <3> QED
      BY <3>1, <3>2, <1>0, <1>a, <1>i DEF RowInv, SnapshotInv
  <2>4. RunCoverage'
    BY <1>20, <1>0, <1>a, <1>i DEF Shutdown, ProcessGone, NoTick, RunCoverage,
       Covered, Owed, ControlInv, SessionRow, RowInv, SnapshotInv
  <2>5. (pc = "publish" => Covered(blockNum, blockNum))'
    BY <1>20, <1>0, <1>a, <1>i DEF Shutdown, ProcessGone, NoTick, Covered,
       Owed, ControlInv, SessionRow, RunCoverage, RowInv, SnapshotInv
  <2>6. SessionCoverage'
    <3> SUFFICES ASSUME NEW r \in 1..MaxRuns, sessions'[r] # NULL,
                        sessions'[r].status = "CLOSED", sessions'[r].to # NULL
                 PROVE  Covered(sessions'[r].from, sessions'[r].to)
      BY <1>20 DEF Shutdown, SessionCoverage, Covered, Owed
    <3>1. CASE sessions'[r] = sessions[r]
      BY <3>1, <1>i DEF SessionCoverage
    <3>2. CASE sessions'[r] # sessions[r]
      <4>1. /\ r = sessionId /\ sessions[r] # NULL
            /\ sessions'[r] = [sessions[r] EXCEPT !.to = lastBlock, !.status = "CLOSED"]
        BY <1>20, <3>2, <1>0, <1>a DEF Shutdown, ControlInv
      <4>2. sessions'[r].to = lastBlock /\ sessions'[r].from = startBlock
        BY <4>1, <1>0, <1>a, <1>i DEF RowInv, SessionRow
      <4>3. startBlock # NULL /\ lastBlock # NULL
        BY <4>2, <1>i DEF PointerInv
      <4> QED
        BY <4>2, <4>3, <1>i DEF RunCoverage
    <3> QED
      BY <3>1, <3>2
  <2> QED
    BY <2>1, <2>2, <2>3, <2>4, <2>5, <2>6 DEF CoverInv
<1>21. CASE Cancel
  BY <1>21, <1>0, <1>a, <1>i DEF Cancel, CoverInv, SnapshotInv, PointerInv,
     RowInv, RunCoverage, SessionCoverage, Covered, Owed
<1>22. CASE Crash
  BY <1>22, <1>0, <1>a, <1>i DEF Crash, ProcessGone, NoTick, CoverInv,
     SnapshotInv, PointerInv, RowInv, RunCoverage, SessionCoverage, Covered,
     Owed
<1>23. CASE NewBlock
  <2>1. SnapshotInv'
    BY <1>23, <1>0, <1>a, <1>i DEF NewBlock, SnapshotInv
  <2>2. PointerInv'
    BY <1>23, <1>0, <1>a, <1>i DEF NewBlock, PointerInv
  <2>3. RowInv'
    BY <1>23, <1>0, <1>a, <1>i DEF NewBlock, RowInv, SnapshotInv, PointerInv,
       SessionRow
  <2>4. RunCoverage'
    BY <1>23, <1>0, <1>a, <1>i DEF NewBlock, RunCoverage, Covered, Owed
  <2>5. (pc = "publish" => Covered(blockNum, blockNum))'
    BY <1>23, <1>0, <1>a, <1>i DEF NewBlock, Covered, Owed
  <2>6. SessionCoverage'
    BY <1>23, <1>0, <1>a, <1>i DEF NewBlock, SessionCoverage, Covered, Owed,
       SessionRow
  <2> QED
    BY <2>1, <2>2, <2>3, <2>4, <2>5, <2>6 DEF CoverInv
<1>24. CASE RetryTimerExpires
  BY <1>24, <1>0, <1>a, <1>i DEF RetryTimerExpires, CoverInv, SnapshotInv,
     PointerInv, RowInv, RunCoverage, SessionCoverage, Covered, Owed
<1>25. ASSUME NEW w \in Wallets, Watch(w) PROVE CoverInv'
  <2>1. SnapshotInv'
    BY <1>25, <1>0, <1>a, <1>i DEF Watch, SnapshotInv, RowInv
  <2>2. PointerInv'
    BY <1>25, <1>0, <1>a, <1>i DEF Watch, PointerInv, SnapshotInv, RowInv
  <2>3. RowInv'
    BY <1>25, <1>0, <1>a, <1>i DEF Watch, RowInv, SnapshotInv, PointerInv,
       SessionRow
  <2>4. RunCoverage'
    BY <1>25, <1>0, <1>a, <1>i DEF Watch, RunCoverage, Covered, Owed,
       SnapshotInv, RowInv
  <2>5. (pc = "publish" => Covered(blockNum, blockNum))'
    BY <1>25, <1>0, <1>a, <1>i DEF Watch, Covered, Owed, SnapshotInv, RowInv
  <2>6. SessionCoverage'
    BY <1>25, <1>0, <1>a, <1>i DEF Watch, SessionCoverage, Covered, Owed,
       SnapshotInv, RowInv, SessionRow
  <2> QED
    BY <2>1, <2>2, <2>3, <2>4, <2>5, <2>6 DEF CoverInv
<1>26. ASSUME NEW w \in Wallets, Unwatch(w) PROVE CoverInv'
  BY <1>26, <1>0, <1>a, <1>i DEF Unwatch, CoverInv, SnapshotInv, PointerInv,
     RowInv, RunCoverage, SessionCoverage, Covered, Owed
<1>27. CASE UNCHANGED vars
  BY <1>27, <1>i DEF vars, CoverInv, SnapshotInv, PointerInv, RowInv, RunCoverage,
     SessionCoverage, Covered, Owed
<1> QED
  BY <1>1, <1>2, <1>3, <1>4, <1>5, <1>6, <1>7, <1>8, <1>9, <1>10, <1>11,
     <1>12, <1>13, <1>14, <1>15, <1>16, <1>17, <1>18, <1>19, <1>20, <1>21,
     <1>22, <1>23, <1>24, <1>25, <1>26, <1>27 DEF Next, ProcessNext, EnvNext

(* The blocks a process has passed leave out no transaction that was owed, *)
(* and a closed session row covers its range, for every cap, every lag and *)
(* every number of wallets, providers and processes.                       *)
THEOREM Coverage == Spec => [](RunCoverage /\ SessionCoverage)
<1>1. Spec => []TypeInv
  BY TypeInit, TypeNext, PTL DEF Spec
<1>2. CoverInv => RunCoverage /\ SessionCoverage
  BY DEF CoverInv
<1> QED
  BY <1>1, <1>2, CoverInit, CoverNext, PTL DEF Spec

(* A closed session row leaves out no transaction that was owed. *)
THEOREM SessionsCovered == Spec => []SessionCoverage
BY Coverage, PTL

-----------------------------------------------------------------------------
(***************************************************************************)
(* Depth on any chain.  A block that was asked for by its number is the    *)
(* one that came back, and numbers end at the safe block, which lies deep  *)
(* enough whatever the providers report.                                   *)
(***************************************************************************)
AskedInv == pc = "publish" => blockNum < 0 \/ block = blockNum

(* Every step keeps the block at work the one that was asked for. *)
LEMMA AskedNext == TypeInv /\ AskedInv /\ [Next]_vars => AskedInv'
<1> SUFFICES ASSUME TypeInv, AskedInv, [Next]_vars PROVE AskedInv'
  OBVIOUS
<1>1. CASE FetchBlockOk
  <2>1. SUFFICES ASSUME pc' = "publish", blockNum' >= 0 PROVE block' = blockNum'
    BY <1>1 DEF AskedInv, FetchBlockOk, BlockDone, TypeInv, TypeOK, TickTypeOK,
       ControlInv, Busy
  <2>2. PICK n \in Returned(blockNum) : block' = n /\ blockNum' = blockNum
    BY <1>1, <2>1 DEF FetchBlockOk, BlockDone
  <2>3. blockNum \in Int
    BY <1>1 DEF FetchBlockOk, TypeInv, TypeOK, TickTypeOK, ControlInv, Busy
  <2> QED
    BY <2>1, <2>2, <2>3, ReturnedIsAsked
<1>2. CASE ~FetchBlockOk
  <2>1. pc' # "publish" \/ UNCHANGED <<pc, block, blockNum>>
    BY <1>2 DEF Next, ProcessNext, EnvNext, vars, tickVars, Start,
       StartHeaderOk, StartHeaderFails, StartSessionOk, StartSessionFails, Tick,
       FetchHeaderOk, FetchHeaderFails, QueryWalletsFails, NoWallets,
       NothingNew, BeginScan, FetchBlockFails, PublishAcked, PublishFails,
       BlockDone, PersistOk, PersistFails, NothingToPersist, Shutdown, Cancel,
       Crash, ProcessGone, EndTick, NoTick, NewBlock, RetryTimerExpires, Watch,
       Unwatch
  <2> QED
    BY <2>1 DEF AskedInv
<1> QED
  BY <1>1, <1>2

(* Only the message at work is ever stored, and it is deep enough. *)
LEMMA DeepStep ==
  TypeInv /\ CoverInv /\ AskedInv /\ [Next]_vars
    => [\A m \in stream' \ stream :
          m.block + SafeBlockBuffer <= head \/ blockNum < 0]_stream
<1> SUFFICES ASSUME TypeInv, CoverInv, AskedInv, [Next]_vars, stream' # stream,
                    NEW m \in stream' \ stream, ~(blockNum < 0)
             PROVE  m.block + SafeBlockBuffer <= head
  OBVIOUS
<1>1. PublishAcked \/ PublishFails
  BY DEF Next, ProcessNext, EnvNext, vars, Start, StartHeaderOk,
     StartHeaderFails, StartSessionOk, StartSessionFails, Tick, FetchHeaderOk,
     FetchHeaderFails, QueryWalletsFails, NoWallets, NothingNew, BeginScan,
     FetchBlockOk, FetchBlockFails, PersistOk, PersistFails, NothingToPersist,
     Shutdown, Cancel, Crash, NewBlock, RetryTimerExpires, Watch, Unwatch
<1>2. m.block = block /\ pc = "publish"
  BY <1>1 DEF PublishAcked, PublishFails, Message
<1>3. block = blockNum
  BY <1>2 DEF AskedInv
<1>4. /\ head \in Int /\ blockNum \in Int /\ safeBlock \in Int
      /\ blockNum <= safeBlock /\ safeBlock + SafeBlockBuffer <= head
  BY <1>2 DEF TypeInv, TypeOK, EnvTypeOK, TickTypeOK, ControlInv, Busy, CoverInv,
     SnapshotInv
<1> QED
  BY <1>2, <1>3, <1>4, ListenerAssumption

(* On any chain, however the providers lag, a message of a block shallower *)
(* than the buffer comes of a negative block number only.                  *)
THEOREM PublishedDeep == Spec => PublishesDeep
<1>1. Init => TypeInv /\ CoverInv /\ AskedInv
  BY TypeInit, CoverInit DEF Init, AskedInv
<1>2. TypeInv /\ CoverInv /\ AskedInv /\ [Next]_vars
        => (TypeInv /\ CoverInv /\ AskedInv)'
  BY TypeNext, CoverNext, AskedNext
<1>3. TypeInv /\ CoverInv /\ AskedInv /\ [Next]_vars
        => [\A m \in stream' \ stream :
              m.block + SafeBlockBuffer <= head \/ blockNum < 0]_stream
  BY DeepStep
<1> QED
  BY <1>1, <1>2, <1>3, PTL DEF Spec, PublishesDeep

-----------------------------------------------------------------------------
(***************************************************************************)
(* EvmListener implements BlockScan if no provider ever lags behind the    *)
(* chain, whatever fails, is cancelled, crashes or is started again.       *)
(***************************************************************************)
NoLag == MaxLag = 0 /\ DeepChain

(* Where the process goes on, NULL before that is decided. *)
Undecided == lastBlock = NULL /\ fromBlock = NULL

(***************************************************************************)
(* The block at work is the one after the last, or the one the process     *)
(* began with; the header read in a tick is above all of them and all that *)
(* was published; and a process that has published knows where it is.      *)
(***************************************************************************)
ScanInv ==
  /\ pc \in {"down", "start"} => Undecided
  /\ pc = "session" => lastBlock = NULL
  /\ lastBlock # NULL => lastBlock + SafeBlockBuffer <= head
  /\ lastBlock = NULL /\ fromBlock # NULL => fromBlock + SafeBlockBuffer <= head
  /\ lastBlock # NULL /\ ~Busy /\ pc # "persist" => fromBlock = lastBlock + 1
  /\ Busy /\ lastBlock # NULL => blockNum = lastBlock + 1
  /\ Busy /\ lastBlock = NULL /\ fromBlock # NULL => blockNum = fromBlock
  /\ pc = "wallets" =>
       /\ lastBlock # NULL => lastBlock <= safeBlock
       /\ lastBlock = NULL /\ fromBlock # NULL => fromBlock <= safeBlock
       /\ \A m \in stream : m.block <= safeBlock
  /\ Busy /\ Undecided => \A m \in stream : m.block <= blockNum
  /\ \A m \in stream : m.run <= runs
  /\ Undecided /\ pc \notin {"down", "publish"} => \A m \in stream : m.run < runs
  /\ pc = "publish" => batch # 0 /\ batches # 0

-----------------------------------------------------------------------------
LEMMA BatchesArePositive ==
  ASSUME NEW n \in Nat
  PROVE  NumBatches(n) \in Nat \ {0}
<1>1. CASE n <= BatchSize
  BY <1>1 DEF NumBatches
<1>2. CASE n > BatchSize
  <2> DEFINE k == n - 1
  <2>1. /\ k \in Nat /\ BatchSize \in Nat \ {0}
        /\ n + BatchSize - 1 = k + BatchSize
    BY <1>2, ListenerAssumption
  <2> HIDE DEF k
  <2>2. (k + BatchSize) \div BatchSize \in Nat \ {0}
    BY <2>1
  <2> QED
    BY <1>2, <2>1, <2>2, ListenerAssumption DEF NumBatches
<1> QED
  BY <1>1, <1>2, ListenerAssumption

LEMMA HeadWithoutLag ==
  ASSUME NoLag, head \in Nat, NEW h \in ReportedHeads
  PROVE  h = head /\ SafeHead(h) = head - SafeBlockBuffer
BY ListenerAssumption DEF NoLag, ReportedHeads, SafeHead

LEMMA ScanInvInit == Init => ScanInv
BY DEF Init, ScanInv, Undecided, Busy

(* Every step keeps the place of the listener. *)
LEMMA ScanInvNext ==
  NoLag /\ TypeInv /\ DepthInv /\ ScanInv /\ [Next]_vars => ScanInv'
<1> SUFFICES ASSUME NoLag, TypeInv, DepthInv, ScanInv, [Next]_vars PROVE ScanInv'
  OBVIOUS
<1>0. /\ head \in Nat /\ stream \subseteq StreamMessage /\ runs \in Nat
      /\ fromBlock \in Int \cup {NULL} /\ lastBlock \in Int \cup {NULL}
      /\ safeBlock \in Int \cup {NULL} /\ blockNum \in Int \cup {NULL}
      /\ block \in Nat \cup {NULL} /\ batch \in Nat /\ batches \in Nat
      /\ ControlInv
  BY ListenerAssumption DEF TypeInv, TypeOK, EnvTypeOK, StoreTypeOK, ProcTypeOK,
     TickTypeOK, ControlTypeOK
<1>a. SafeBlockBuffer \in Nat /\ NULL \notin Int
  BY ListenerAssumption
<1> USE DEF ScanInv, Undecided, Busy, StreamMessage,
        envVars, dbVars, procVars, tickVars
<1>1. CASE Start
  BY <1>1, <1>0, <1>a DEF Start
<1>2. CASE StartHeaderOk
  BY <1>2, <1>0, <1>a, HeadWithoutLag DEF StartHeaderOk
<1>3. CASE StartHeaderFails
  BY <1>3, <1>0, <1>a DEF StartHeaderFails
<1>4. CASE StartSessionOk
  BY <1>4, <1>0, <1>a DEF StartSessionOk
<1>5. CASE StartSessionFails
  BY <1>5, <1>0, <1>a DEF StartSessionFails
<1>6. ASSUME NEW back \in SUBSET unhealthy, Tick(back) PROVE ScanInv'
  BY <1>6, <1>0, <1>a DEF Tick
<1>7. CASE FetchHeaderOk
  BY <1>7, <1>0, <1>a, HeadWithoutLag DEF FetchHeaderOk, DepthInv, SafeDepth
<1>8. CASE FetchHeaderFails
  BY <1>8, <1>0, <1>a DEF FetchHeaderFails, EndTick, NoTick
<1>9. CASE QueryWalletsFails
  BY <1>9, <1>0, <1>a DEF QueryWalletsFails, EndTick, NoTick
<1>10. CASE NoWallets
  BY <1>10, <1>0, <1>a DEF NoWallets, DepthInv, ControlInv
<1>11. CASE NothingNew
  BY <1>11, <1>0, <1>a DEF NothingNew, EndTick, NoTick
<1>12. CASE BeginScan
  BY <1>12, <1>0, <1>a DEF BeginScan, ScanFrom, ControlInv
<1>13. CASE FetchBlockOk
  <2>1. blockNum \in Int /\ blockNum + SafeBlockBuffer <= head
    BY <1>13, <1>0, <1>a DEF FetchBlockOk, ControlInv, DepthInv
  <2>2. CASE BlockDone
    BY <1>13, <2>1, <2>2, <1>0, <1>a DEF FetchBlockOk, BlockDone
  <2>3. CASE /\ pc' = "publish" /\ batch' = 1 /\ batches' # 0
             /\ UNCHANGED <<lastBlock, blockNum>>
    BY <1>13, <2>1, <2>3, <1>0, <1>a DEF FetchBlockOk
  <2> QED
    <3>1. \A n, logsOk : NumBatches(Cardinality(Found(n, addresses, logsOk))) # 0
      BY FoundIsFinite, BatchesArePositive
    <3> QED
      BY <1>13, <2>2, <2>3, <3>1 DEF FetchBlockOk
<1>14. CASE FetchBlockFails
  BY <1>14, <1>0, <1>a DEF FetchBlockFails
<1>15. CASE PublishAcked
  <2>1. /\ blockNum \in Int /\ blockNum + SafeBlockBuffer <= head
        /\ block = blockNum
    BY <1>15, <1>0, <1>a DEF PublishAcked, ControlInv, DepthInv
  <2>2. CASE BlockDone
    BY <1>15, <2>1, <2>2, <1>0, <1>a DEF PublishAcked, BlockDone, Message
  <2>3. CASE UNCHANGED <<pc, lastBlock, blockNum, batches>> /\ batch' = batch + 1
    BY <1>15, <2>1, <2>3, <1>0, <1>a DEF PublishAcked, Message
  <2> QED
    BY <1>15, <2>2, <2>3 DEF PublishAcked
<1>16. CASE PublishFails
  <2>1. /\ blockNum \in Int /\ blockNum + SafeBlockBuffer <= head
        /\ block = blockNum
    BY <1>16, <1>0, <1>a DEF PublishFails, ControlInv, DepthInv
  <2> QED
    BY <1>16, <2>1, <1>0, <1>a DEF PublishFails, BlockDone, Message
<1>17. CASE PersistOk
  BY <1>17, <1>0, <1>a DEF PersistOk, ResumeAt, EndTick, NoTick
<1>18. CASE PersistFails
  BY <1>18, <1>0, <1>a DEF PersistFails, ResumeAt, EndTick, NoTick
<1>19. CASE NothingToPersist
  BY <1>19, <1>0, <1>a DEF NothingToPersist, EndTick, NoTick
<1>20. CASE Shutdown
  BY <1>20, <1>0, <1>a DEF Shutdown, ProcessGone, NoTick
<1>21. CASE Cancel
  BY <1>21, <1>0, <1>a DEF Cancel
<1>22. CASE Crash
  BY <1>22, <1>0, <1>a DEF Crash, ProcessGone, NoTick
<1>23. CASE NewBlock
  BY <1>23, <1>0, <1>a DEF NewBlock
<1>24. CASE RetryTimerExpires
  BY <1>24, <1>0, <1>a DEF RetryTimerExpires
<1>25. ASSUME NEW w \in Wallets, Watch(w) PROVE ScanInv'
  BY <1>25, <1>0, <1>a DEF Watch
<1>26. ASSUME NEW w \in Wallets, Unwatch(w) PROVE ScanInv'
  BY <1>26, <1>0, <1>a DEF Unwatch
<1>27. CASE UNCHANGED vars
  BY <1>27 DEF vars
<1> QED
  BY <1>1, <1>2, <1>3, <1>4, <1>5, <1>6, <1>7, <1>8, <1>9, <1>10, <1>11,
     <1>12, <1>13, <1>14, <1>15, <1>16, <1>17, <1>18, <1>19, <1>20, <1>21,
     <1>22, <1>23, <1>24, <1>25, <1>26, <1>27 DEF Next, ProcessNext, EnvNext

-----------------------------------------------------------------------------
(* The refinement mapping of EvmListener's Scan, by name. *)
NextBlock ==
  IF lastBlock # NULL THEN lastBlock + 1
  ELSE IF fromBlock # NULL THEN fromBlock
  ELSE IF pc = "publish" THEN blockNum ELSE NULL
Total == IF pc = "publish" THEN batches ELSE 0
Sent == IF pc = "publish" THEN batch - 1 ELSE 0

(* A step that leaves the stream and the place alone is a stutter. *)
LEMMA Stutters ==
  ASSUME UNCHANGED <<runs, stream, fromBlock, lastBlock>>,
         pc # "publish", pc' # "publish"
  PROVE  UNCHANGED Scan!vars
BY DEF Scan!vars

LEMMA ScanInitial == Init => Scan!Init
BY DEF Init, Scan!Init

(* Leaving a block that is being published. *)
LEMMA LeavesBlock ==
  ASSUME TypeInv, DepthInv, ScanInv, pc = "publish", BlockDone,
         UNCHANGED <<runs, fromBlock>>
  PROVE  /\ NextBlock = blockNum /\ NextBlock' = blockNum + 1
         /\ Total = batches /\ Total # 0 /\ Total' = 0
         /\ Sent = batch - 1 /\ Sent' = 0
         /\ Message = Scan!Message
<1>1. /\ blockNum \in Int /\ batch \in Nat /\ NULL \notin Int /\ block = blockNum
      /\ lastBlock # NULL => blockNum = lastBlock + 1
      /\ lastBlock = NULL /\ fromBlock # NULL => blockNum = fromBlock
  BY ListenerAssumption DEF TypeInv, TypeOK, TickTypeOK, ControlInv, ScanInv,
     DepthInv, Busy
<1>2. NextBlock = blockNum /\ Total = batches /\ Sent = batch - 1
  BY <1>1 DEF NextBlock, Total, Sent
<1>3. batches # 0
  BY DEF ScanInv
<1>4. pc' # "publish" /\ lastBlock' = blockNum
  BY DEF BlockDone
<1>5. NextBlock' = blockNum + 1 /\ Total' = 0 /\ Sent' = 0
  BY <1>1, <1>4 DEF NextBlock, Total, Sent
<1>6. Message = Scan!Message
  BY <1>1, <1>2 DEF Message, Scan!Message, NextBlock, Total, Sent
<1> QED
  BY <1>2, <1>3, <1>5, <1>6

(* Every step of the listener is one of the scan, or a stutter. *)
LEMMA ScanStep ==
  NoLag /\ TypeInv /\ DepthInv /\ ScanInv /\ [Next]_vars
    => [Scan!Next]_(Scan!vars)
<1> SUFFICES ASSUME NoLag, TypeInv, DepthInv, ScanInv, [Next]_vars
             PROVE  [Scan!Next]_(Scan!vars)
  OBVIOUS
<1>0. /\ head \in Nat /\ stream \subseteq StreamMessage /\ runs \in Nat
      /\ fromBlock \in Int \cup {NULL} /\ lastBlock \in Int \cup {NULL}
      /\ safeBlock \in Int \cup {NULL} /\ blockNum \in Int \cup {NULL}
      /\ block \in Nat \cup {NULL} /\ batch \in Nat /\ batches \in Nat
      /\ ControlInv /\ SafeBlockBuffer \in Nat /\ NULL \notin Int
  BY ListenerAssumption DEF TypeInv, TypeOK, EnvTypeOK, StoreTypeOK, ProcTypeOK,
     TickTypeOK, ControlTypeOK
<1> USE DEF procVars
<1>1. CASE Start
  <2>1. Scan!Start
    BY <1>1, <1>0 DEF Start, Scan!Start, ScanInv, Undecided, dbVars
  <2> QED
    BY <2>1 DEF Scan!Next
<1>2. CASE StartHeaderOk
  <2>1. /\ NextBlock = NULL /\ NextBlock' = head - SafeBlockBuffer
        /\ Total = 0 /\ Total' = 0 /\ Sent' = 0
    BY <1>2, <1>0, HeadWithoutLag DEF StartHeaderOk, ScanInv, Undecided,
       NextBlock, Total, Sent
  <2>2. \A m \in stream : m.run < runs /\ m.block <= head - SafeBlockBuffer
    BY <1>2, <1>0 DEF StartHeaderOk, ScanInv, Undecided, DepthInv, SafeDepth,
       StreamMessage
  <2>3. Scan!Pass(NextBlock')
    BY <1>0, <1>2, <2>1, <2>2 DEF ControlInv, StartHeaderOk, Scan!Pass, Scan!From, Scan!Goto,
       NextBlock, Total, Sent
  <2> QED
    BY <2>1, <2>3, <1>0 DEF Scan!Next, NextBlock
<1>3. CASE StartHeaderFails
  BY <1>3, Stutters DEF StartHeaderFails
<1>4. CASE StartSessionOk
  BY <1>4, Stutters DEF StartSessionOk
<1>5. CASE StartSessionFails
  BY <1>5, Stutters DEF StartSessionFails
<1>6. ASSUME NEW back \in SUBSET unhealthy, Tick(back) PROVE UNCHANGED Scan!vars
  BY <1>6, Stutters DEF Tick
<1>7. CASE FetchHeaderOk
  BY <1>7, Stutters DEF FetchHeaderOk
<1>8. CASE FetchHeaderFails
  BY <1>8, Stutters DEF FetchHeaderFails, EndTick
<1>9. CASE QueryWalletsFails
  BY <1>9, Stutters DEF QueryWalletsFails, EndTick
<1>10. CASE NoWallets
  <2>1. safeBlock \in Int /\ Total = 0 /\ Total' = 0 /\ Sent' = 0
    BY <1>10, <1>0 DEF NoWallets, ControlInv, Total, Sent
  <2>2. NextBlock' = safeBlock + 1
    BY <1>10, <1>0, <2>1 DEF NoWallets, NextBlock
  <2>3. IF NextBlock = NULL
        THEN \A m \in stream : m.run < runs /\ m.block <= safeBlock + 1
        ELSE NextBlock <= safeBlock + 1
    <3>1. CASE NextBlock = NULL
      <4>1. Undecided
        BY <1>10, <3>1, <1>0 DEF NoWallets, Undecided, NextBlock
      <4>2. \A m \in stream : m.run < runs /\ m.block <= safeBlock /\ m.block \in Nat
        BY <1>10, <4>1, <1>0 DEF NoWallets, ScanInv, StreamMessage
      <4> QED
        BY <3>1, <4>2, <2>1
    <3>2. CASE NextBlock # NULL
      <4>1. CASE lastBlock # NULL
        <5>1. lastBlock \in Int /\ lastBlock <= safeBlock
          BY <1>10, <4>1, <1>0 DEF NoWallets, ScanInv
        <5> QED
          BY <3>2, <4>1, <5>1, <2>1, <1>0 DEF NextBlock
      <4>2. CASE lastBlock = NULL
        <5>1. fromBlock \in Int /\ fromBlock <= safeBlock
          BY <1>10, <3>2, <4>2, <1>0 DEF NoWallets, ScanInv, NextBlock
        <5> QED
          BY <3>2, <4>2, <5>1, <2>1, <1>0 DEF NextBlock
      <4> QED
        BY <4>1, <4>2
    <3> QED
      BY <3>1, <3>2
  <2>4. Scan!Pass(NextBlock')
    BY <1>0, <1>10, <2>1, <2>2, <2>3 DEF ControlInv, NoWallets, Scan!Pass, Scan!From, Scan!Goto,
       NextBlock, Total, Sent
  <2> QED
    BY <2>1, <2>2, <2>4 DEF Scan!Next, NextBlock
<1>11. CASE NothingNew
  BY <1>11, Stutters DEF NothingNew, EndTick
<1>12. CASE BeginScan
  BY <1>12, Stutters DEF BeginScan
<1>13. CASE FetchBlockOk
  <2>1. /\ blockNum \in Int /\ 0 <= blockNum
        /\ NextBlock \in {blockNum, NULL} /\ Total = 0 /\ Sent = 0
        /\ NextBlock = NULL => Undecided
    BY <1>13, <1>0 DEF FetchBlockOk, ControlInv, DepthInv, ScanInv, Busy,
       Undecided, NextBlock, Total, Sent
  <2>2. NextBlock = NULL => \A m \in stream : m.run < runs /\ m.block <= blockNum
    BY <1>13, <2>1 DEF FetchBlockOk, ScanInv, Busy
  <2>3. CASE BlockDone
    <3>1. NextBlock' = blockNum + 1 /\ Total' = 0 /\ Sent' = 0
      BY <2>1, <2>3, <1>0 DEF BlockDone, NextBlock, Total, Sent
    <3>2. IF NextBlock = NULL
          THEN \A m \in stream : m.run < runs /\ m.block <= blockNum + 1
          ELSE NextBlock <= blockNum + 1
      BY <2>1, <2>2, <1>0 DEF StreamMessage
    <3>3. Scan!Pass(NextBlock')
      BY <1>0, <1>13, <2>1, <3>1, <3>2 DEF ControlInv, FetchBlockOk, Scan!Pass, Scan!From,
         Scan!Goto, NextBlock, Total, Sent
    <3> QED
      BY <2>1, <3>1, <3>3 DEF Scan!Next, NextBlock
  <2>4. CASE /\ pc' = "publish" /\ batch' = 1 /\ batches' \in Nat \ {0}
             /\ UNCHANGED <<lastBlock, blockNum>>
    <3>1. NextBlock' = blockNum /\ Total' = batches' /\ Sent' = 0
      BY <1>13, <2>1, <2>4, <1>0 DEF FetchBlockOk, NextBlock, Total, Sent, Undecided,
         ScanInv, Busy
    <3>2. Scan!Open(NextBlock', Total')
      BY <1>13, <2>1, <2>2, <3>1, <1>0 DEF ControlInv, FetchBlockOk, Scan!Open, Scan!From,
         NextBlock, Total, Sent
    <3> QED
      BY <2>1, <2>4, <3>1, <3>2 DEF Scan!Next, NextBlock, Total
  <2> QED
    <3>1. \A n, logsOk :
            NumBatches(Cardinality(Found(n, addresses, logsOk))) \in Nat \ {0}
      BY FoundIsFinite, BatchesArePositive
    <3> QED
      BY <1>13, <2>3, <2>4, <3>1 DEF FetchBlockOk
<1>14. CASE FetchBlockFails
  BY <1>14, Stutters DEF FetchBlockFails
<1>15. CASE PublishAcked
  <2>1. CASE BlockDone
    <3>1. Scan!Store
      BY <1>15, <2>1, LeavesBlock DEF PublishAcked, Scan!Store, Scan!Goto,
         NextBlock, Total, Sent
    <3> QED
      BY <3>1 DEF Scan!Next
  <2>2. CASE /\ batch < batches /\ batch' = batch + 1
             /\ UNCHANGED <<pc, lastBlock, blockNum, batches>>
    <3>1. /\ NextBlock = blockNum /\ NextBlock' = blockNum
          /\ Total = batches /\ Total' = batches /\ Total # 0
          /\ Sent + 1 < Total /\ Sent' = Sent + 1
      BY <1>15, <2>2, <1>0 DEF PublishAcked, ScanInv, Busy, Undecided,
         ControlInv, NextBlock, Total, Sent
    <3>2. Message = Scan!Message
      BY <1>15, <3>1, <1>0 DEF PublishAcked, DepthInv, Message, Scan!Message,
         NextBlock, Total, Sent
    <3>3. Scan!Store
      BY <1>15, <3>1, <3>2 DEF PublishAcked, Scan!Store, NextBlock, Total, Sent
    <3> QED
      BY <3>3 DEF Scan!Next
  <2> QED
    BY <1>15, <2>1, <2>2 DEF PublishAcked
<1>16. CASE PublishFails
  <2>1. CASE stream' = stream \cup {Message}
    <3>1. Scan!Store
      BY <1>16, <2>1, LeavesBlock DEF PublishFails, Scan!Store, Scan!Goto,
         NextBlock, Total, Sent
    <3> QED
      BY <3>1 DEF Scan!Next
  <2>2. CASE UNCHANGED stream
    <3>1. Scan!GiveUp
      BY <1>16, <2>2, LeavesBlock DEF PublishFails, Scan!GiveUp, Scan!Goto,
         NextBlock, Total, Sent
    <3> QED
      BY <3>1 DEF Scan!Next
  <2> QED
    BY <1>16, <2>1, <2>2 DEF PublishFails
<1>17. CASE PersistOk
  BY <1>17, <1>0 DEF PersistOk, ResumeAt, EndTick, NoTick, Scan!vars
<1>18. CASE PersistFails
  BY <1>18, <1>0 DEF PersistFails, ResumeAt, EndTick, NoTick, Scan!vars
<1>19. CASE NothingToPersist
  BY <1>19, Stutters DEF NothingToPersist, EndTick
<1>20. CASE Shutdown
  <2>1. Scan!Stop
    BY <1>20 DEF Shutdown, ProcessGone, Scan!Stop, Scan!Goto
  <2> QED
    BY <2>1 DEF Scan!Next
<1>21. CASE Cancel
  BY <1>21 DEF Cancel, tickVars, Scan!vars
<1>22. CASE Crash
  <2>1. Scan!Stop
    BY <1>22 DEF Crash, ProcessGone, Scan!Stop, Scan!Goto
  <2> QED
    BY <2>1 DEF Scan!Next
<1>23. CASE NewBlock
  BY <1>23 DEF NewBlock, tickVars, Scan!vars
<1>24. CASE RetryTimerExpires
  BY <1>24 DEF RetryTimerExpires, tickVars, Scan!vars
<1>25. ASSUME NEW w \in Wallets, Watch(w) PROVE UNCHANGED Scan!vars
  BY <1>25 DEF Watch, tickVars, Scan!vars
<1>26. ASSUME NEW w \in Wallets, Unwatch(w) PROVE UNCHANGED Scan!vars
  BY <1>26 DEF Unwatch, tickVars, Scan!vars
<1>27. CASE UNCHANGED vars
  BY <1>27 DEF vars, tickVars, Scan!vars
<1> QED
  BY <1>1, <1>2, <1>3, <1>4, <1>5, <1>6, <1>7, <1>8, <1>9, <1>10, <1>11,
     <1>12, <1>13, <1>14, <1>15, <1>16, <1>17, <1>18, <1>19, <1>20, <1>21,
     <1>22, <1>23, <1>24, <1>25, <1>26, <1>27 DEF Next, ProcessNext, EnvNext

LEMMA ScanInvAlways ==
  ASSUME NoLag PROVE Spec => [](TypeInv /\ DepthInv /\ ScanInv)
<1>1. DeepChain
  BY DEF NoLag
<1>2. Init => TypeInv /\ DepthInv /\ ScanInv
  BY <1>1, TypeInit, DepthInit, ScanInvInit
<1>3. TypeInv /\ DepthInv /\ ScanInv /\ [Next]_vars
        => (TypeInv /\ DepthInv /\ ScanInv)'
  BY <1>1, NoLag, TypeNext, DepthNext, ScanInvNext
<1> QED
  BY <1>2, <1>3, PTL DEF Spec

(* With providers that never lag on a chain never younger than the buffer, *)
(* the listener goes through the chain as BlockScan says, for every number *)
(* of processes, blocks, batches and providers. *)
THEOREM Refinement == ASSUME NoLag PROVE Spec => ScansInOrder
<1>1. TypeInv /\ DepthInv /\ ScanInv /\ [Next]_vars => [Scan!Next]_(Scan!vars)
  BY NoLag, ScanStep
<1> QED
  BY <1>1, ScanInitial, ScanInvAlways, PTL DEF Spec, ScansInOrder, Scan!Spec

Proved == INSTANCE BlockScanProofs WITH
  next <- NextBlock, total <- Total, sent <- Sent

(* What BlockScan promises of its stream the listener's stream keeps. *)
THEOREM ListenerStreamOrder == ASSUME NoLag PROVE Spec => [](BatchPrefix /\ RunsOrdered)
<1>1. Init => Proved!IInv
  <2>1. Init => Proved!Init
    BY DEF Init, Proved!Init, NextBlock, Total, Sent
  <2> QED
    BY <2>1, Proved!ScanInit, ListenerAssumption DEF Proved!ScanAssumption
<1>2. Proved!IInv /\ [Scan!Next]_(Scan!vars) => Proved!IInv'
  <2>1. [Scan!Next]_(Scan!vars) => [Proved!Next]_(Proved!vars)
    BY DEF Scan!Next, Scan!vars, Scan!Start, Scan!Stop, Scan!Store, Scan!GiveUp,
       Scan!Pass, Scan!Open, Scan!From, Scan!Goto, Scan!Message,
       Proved!Next, Proved!vars, Proved!Start, Proved!Stop, Proved!Store,
       Proved!GiveUp, Proved!Pass, Proved!Open, Proved!From, Proved!Goto,
       Proved!Message, NextBlock, Total, Sent
  <2> QED
    BY <2>1, Proved!ScanNext, ListenerAssumption DEF Proved!ScanAssumption
<1>3. Proved!IInv => BatchPrefix /\ RunsOrdered
  BY DEF Proved!IInv, Proved!BatchPrefix, Proved!RunsOrdered, BatchPrefix,
     RunsOrdered, Scan!BatchPrefix, Scan!RunsOrdered
<1>4. TypeInv /\ DepthInv /\ ScanInv /\ [Next]_vars => [Scan!Next]_(Scan!vars)
  BY NoLag, ScanStep
<1> QED
  BY <1>1, <1>2, <1>3, <1>4, ScanInvAlways, PTL DEF Spec

-----------------------------------------------------------------------------
(***************************************************************************)
(* That a block of the stream lacks only its last batches needs nothing of *)
(* the providers: a block that comes back twice is published from its      *)
(* first batch each time.                                                  *)
(***************************************************************************)
PrefixInv ==
  /\ BatchPrefix
  /\ pc = "publish" =>
       /\ batch # 0
       /\ \A k \in 1..(batch - 1) : [Message EXCEPT !.batch = k] \in stream

LEMMA PrefixInit == Init => PrefixInv
BY DEF Init, PrefixInv, BatchPrefix, Scan!BatchPrefix

(* Steps that neither publish nor begin to. *)
LEMMA PrefixKept ==
  ASSUME PrefixInv, UNCHANGED stream,
         pc' # "publish" \/ UNCHANGED <<pc, runs, block, batch, batches>>
  PROVE  PrefixInv'
BY DEF PrefixInv, BatchPrefix, Scan!BatchPrefix, Message

(* A message that is stored has its block's earlier ones before it. *)
LEMMA StoredPrefix ==
  ASSUME TypeInv, PrefixInv, pc = "publish", stream' = stream \cup {Message}
  PROVE  /\ BatchPrefix'
         /\ \A k \in 1..batch : [Message EXCEPT !.batch = k] \in stream'
<1>1. /\ \A m \in stream : \A k \in 1..m.batch : [m EXCEPT !.batch = k] \in stream
      /\ \A k \in 1..(batch - 1) : [Message EXCEPT !.batch = k] \in stream
      /\ batch \in Nat \ {0}
  BY DEF PrefixInv, BatchPrefix, Scan!BatchPrefix, TypeInv, TypeOK, TickTypeOK
<1>2. \A k \in 1..batch : [Message EXCEPT !.batch = k] \in stream'
  <2> SUFFICES ASSUME NEW k \in 1..batch PROVE [Message EXCEPT !.batch = k] \in stream'
    OBVIOUS
  <2>1. CASE k \in 1..(batch - 1)
    BY <2>1, <1>1
  <2>2. CASE k = batch
    BY <2>2 DEF Message
  <2> QED
    BY <1>1, <2>1, <2>2
<1>3. ASSUME NEW m \in stream', NEW k \in 1..m.batch
      PROVE  [m EXCEPT !.batch = k] \in stream'
  <2>1. CASE m \in stream
    BY <2>1, <1>1
  <2>2. CASE m = Message
    <3>1. k \in 1..batch
      BY <2>2 DEF Message
    <3> QED
      BY <2>2, <3>1, <1>2
  <2> QED
    BY <2>1, <2>2
<1> QED
  BY <1>2, <1>3 DEF BatchPrefix, Scan!BatchPrefix

LEMMA PrefixNext == TypeInv /\ PrefixInv /\ [Next]_vars => PrefixInv'
<1> SUFFICES ASSUME TypeInv, PrefixInv, [Next]_vars PROVE PrefixInv'
  OBVIOUS
<1> USE DEF tickVars
<1>1. CASE \/ Start \/ StartHeaderOk \/ StartHeaderFails
           \/ StartSessionOk \/ StartSessionFails
  BY <1>1, PrefixKept DEF Start, StartHeaderOk, StartHeaderFails, StartSessionOk,
     StartSessionFails
<1>2. CASE \/ \E back \in SUBSET unhealthy : Tick(back)
           \/ FetchHeaderOk \/ FetchHeaderFails
  BY <1>2, PrefixKept DEF Tick, FetchHeaderOk, FetchHeaderFails, EndTick
<1>3. CASE QueryWalletsFails \/ NoWallets \/ NothingNew \/ BeginScan
  BY <1>3, PrefixKept DEF QueryWalletsFails, NoWallets, NothingNew, BeginScan, EndTick
<1>4. CASE FetchBlockOk
  <2>1. UNCHANGED stream
    BY <1>4 DEF FetchBlockOk
  <2>2. CASE pc' # "publish"
    BY <2>1, <2>2, PrefixKept
  <2>3. CASE pc' = "publish"
    <3>1. batch' = 1
      BY <1>4, <2>3 DEF FetchBlockOk, BlockDone
    <3>2. 1..(batch' - 1) = {}
      BY <3>1
    <3> QED
      BY <2>1, <3>1, <3>2 DEF PrefixInv, BatchPrefix, Scan!BatchPrefix
  <2> QED
    BY <2>2, <2>3
<1>5. CASE FetchBlockFails
  BY <1>5, PrefixKept DEF FetchBlockFails
<1>6. CASE PublishAcked
  <2>1. BatchPrefix' /\ \A k \in 1..batch : [Message EXCEPT !.batch = k] \in stream'
    BY <1>6, StoredPrefix DEF PublishAcked
  <2>2. CASE pc' # "publish"
    BY <2>1, <2>2 DEF PrefixInv
  <2>3. CASE pc' = "publish"
    <3>1. batch \in Nat /\ batch' = batch + 1 /\ UNCHANGED <<runs, block, batches>>
      BY <1>6, <2>3 DEF PublishAcked, BlockDone, TypeInv, TypeOK, TickTypeOK
    <3>2. \A k \in 1..(batch' - 1) : [Message EXCEPT !.batch = k]' \in stream'
      BY <2>1, <3>1 DEF Message
    <3> QED
      BY <2>1, <3>1, <3>2 DEF PrefixInv
  <2> QED
    BY <2>2, <2>3
<1>7. CASE PublishFails
  <2>1. pc' # "publish"
    BY <1>7 DEF PublishFails, BlockDone
  <2>2. CASE UNCHANGED stream
    BY <2>1, <2>2, PrefixKept
  <2>3. CASE stream' = stream \cup {Message}
    BY <1>7, <2>1, <2>3, StoredPrefix DEF PublishFails, PrefixInv
  <2> QED
    BY <1>7, <2>2, <2>3 DEF PublishFails
<1>8. CASE PersistOk \/ PersistFails \/ NothingToPersist \/ Shutdown \/ Crash
  BY <1>8, PrefixKept DEF PersistOk, PersistFails, NothingToPersist, Shutdown, Crash,
     EndTick, ProcessGone
<1>9. CASE \/ Cancel \/ NewBlock \/ RetryTimerExpires
           \/ \E w \in Wallets : Watch(w) \/ Unwatch(w)
  BY <1>9, PrefixKept DEF Cancel, NewBlock, RetryTimerExpires, Watch, Unwatch
<1>10. CASE UNCHANGED vars
  BY <1>10, PrefixKept DEF vars
<1> QED
  BY <1>1, <1>2, <1>3, <1>4, <1>5, <1>6, <1>7, <1>8, <1>9, <1>10
     DEF Next, ProcessNext, EnvNext

(* A block of the stream lacks only its last batches, also when providers  *)
(* lag behind or answer for another block. *)
THEOREM ListenerBatches == Spec => []BatchPrefix
<1>1. PrefixInv => BatchPrefix
  BY DEF PrefixInv
<1>2. TypeInv /\ PrefixInv /\ [Next]_vars => (TypeInv /\ PrefixInv)'
  BY TypeNext, PrefixNext
<1> QED
  BY <1>1, <1>2, TypeInit, PrefixInit, PTL DEF Spec

-----------------------------------------------------------------------------
(***************************************************************************)
(* A network without max-blocks-per-tick has a cap of 0, and every range   *)
(* ends before it begins.                                                  *)
(***************************************************************************)
NothingScanned == collected = {} /\ stream = {}

EmptyRange == ~Busy /\ NothingScanned

LEMMA EmptyRangeNext ==
  ASSUME MaxBlocksPerTick = 0, TypeInv, EmptyRange, [Next]_vars
  PROVE  EmptyRange'
<1> USE DEF EmptyRange, NothingScanned, Busy, tickVars, histVars
<1>1. CASE \/ Start \/ StartHeaderOk \/ StartHeaderFails
           \/ StartSessionOk \/ StartSessionFails
           \/ (\E back \in SUBSET unhealthy : Tick(back))
  BY <1>1 DEF Start, StartHeaderOk, StartHeaderFails, StartSessionOk,
     StartSessionFails, Tick
<1>2. CASE \/ FetchHeaderOk \/ FetchHeaderFails
           \/ QueryWalletsFails \/ NoWallets \/ NothingNew
  BY <1>2 DEF FetchHeaderOk, FetchHeaderFails, QueryWalletsFails, NoWallets,
     NothingNew, EndTick
<1>3. CASE BeginScan
  <2>1. ScanFrom(safeBlock) \in Int /\ safeBlock \in Int
    BY <1>3 DEF BeginScan, ScanFrom, TypeInv, TypeOK, TickTypeOK, ProcTypeOK,
       ControlInv
  <2>2. safeBlock' = ScanFrom(safeBlock) - 1
    BY <1>3, <2>1 DEF BeginScan, CappedEnd
  <2>3. pc' = "persist"
    BY <1>3, <2>1, <2>2 DEF BeginScan
  <2> QED
    BY <1>3, <2>3 DEF BeginScan
<1>4. CASE FetchBlockOk \/ FetchBlockFails \/ PublishAcked \/ PublishFails
  BY <1>4 DEF FetchBlockOk, FetchBlockFails, PublishAcked, PublishFails
<1>5. CASE PersistOk \/ PersistFails \/ NothingToPersist \/ Shutdown \/ Crash
  BY <1>5 DEF PersistOk, PersistFails, NothingToPersist, Shutdown, Crash,
     EndTick, ProcessGone
<1>6. CASE \/ Cancel \/ NewBlock \/ RetryTimerExpires
           \/ (\E w \in Wallets : Watch(w) \/ Unwatch(w))
  BY <1>6 DEF Cancel, NewBlock, RetryTimerExpires, Watch, Unwatch
<1>7. CASE UNCHANGED vars
  BY <1>7 DEF vars
<1> QED
  BY <1>1, <1>2, <1>3, <1>4, <1>5, <1>6, <1>7 DEF Next, ProcessNext, EnvNext

(* Without a cap in the configuration no block is ever fetched and no      *)
(* message published, in any behaviour: the listener runs for nothing.     *)
THEOREM NoCapNoScan == ASSUME MaxBlocksPerTick = 0 PROVE Spec => []NothingScanned
<1>1. Init => EmptyRange
  BY DEF Init, EmptyRange, NothingScanned, Busy
<1>2. TypeInv /\ EmptyRange /\ [Next]_vars => (TypeInv /\ EmptyRange)'
  BY MaxBlocksPerTick = 0, TypeNext, EmptyRangeNext
<1>3. EmptyRange => NothingScanned
  BY DEF EmptyRange
<1> QED
  BY <1>1, <1>2, <1>3, TypeInit, PTL DEF Spec

-----------------------------------------------------------------------------
(***************************************************************************)
(* A header that lags is below the head by MaxLag at most, and what was    *)
(* processed lies below the safe head.  So wherever the listener is about  *)
(* to go on, it is not further than MaxLag below the checkpoint and below  *)
(* the first block of the process, which may both have come from a         *)
(* provider that lagged less.                                              *)
(***************************************************************************)
NotFarBelow(mark) ==
  /\ fromBlock # NULL => fromBlock >= mark - MaxLag
  /\ lastBlock # NULL => lastBlock >= mark - MaxLag
  /\ pc = "wallets" => safeBlock >= mark - MaxLag
  /\ Busy => blockNum >= mark - MaxLag

CheckpointInv ==
  lastScanned > 0 =>
    /\ lastScanned + SafeBlockBuffer <= head
    /\ NotFarBelow(lastScanned)

RangeInv ==
  /\ IF startBlock = NULL THEN fromBlock = NULL
     ELSE startBlock + SafeBlockBuffer <= head /\ NotFarBelow(startBlock)
  /\ SessionRange

LEMMA HeadWithLag ==
  ASSUME head \in Nat, NEW h \in ReportedHeads
  PROVE  /\ SafeHead(h) \in Int
         /\ SafeHead(h) + SafeBlockBuffer <= head
         /\ SafeHead(h) >= head - SafeBlockBuffer - MaxLag
BY ListenerAssumption DEF ReportedHeads, SafeHead

(* Every step keeps the listener close to its checkpoint. *)
LEMMA CheckpointInvNext ==
  TypeInv /\ SnapshotInv /\ CheckpointInv /\ [Next]_vars => CheckpointInv'
<1> SUFFICES ASSUME TypeInv, SnapshotInv, CheckpointInv, [Next]_vars
             PROVE  CheckpointInv'
  OBVIOUS
<1>0. /\ head \in Nat /\ lastScanned \in Int /\ runs \in 0..MaxRuns
      /\ sessions \in [1..MaxRuns -> SessionRow \cup {NULL}]
      /\ sessionId \in (1..MaxRuns) \cup {NULL}
      /\ fromBlock \in Int \cup {NULL} /\ lastBlock \in Int \cup {NULL}
      /\ startBlock \in Int \cup {NULL}
      /\ safeBlock \in Int \cup {NULL} /\ blockNum \in Int \cup {NULL}
      /\ ControlInv /\ SafeBlockBuffer \in Nat /\ MaxLag \in Nat /\ MaxRuns \in Nat
      /\ NULL \notin Int /\ NULL \notin SessionRow
  BY ListenerAssumption DEF TypeInv, TypeOK, EnvTypeOK, StoreTypeOK, ProcTypeOK,
     TickTypeOK, ControlTypeOK
<1> USE DEF CheckpointInv, NotFarBelow, Busy, envVars, dbVars, procVars, tickVars
<1>1. CASE Start
  BY <1>1, <1>0 DEF Start
<1>2. CASE StartHeaderOk
  BY <1>2, <1>0, HeadWithLag DEF StartHeaderOk
<1>3. CASE StartHeaderFails
  BY <1>3, <1>0 DEF StartHeaderFails
<1>4. CASE StartSessionOk
  BY <1>4, <1>0 DEF StartSessionOk, Row
<1>5. CASE StartSessionFails
  BY <1>5, <1>0 DEF StartSessionFails, Row
<1>6. ASSUME NEW back \in SUBSET unhealthy, Tick(back) PROVE CheckpointInv'
  BY <1>6, <1>0 DEF Tick
<1>7. CASE FetchHeaderOk
  BY <1>7, <1>0, HeadWithLag DEF FetchHeaderOk
<1>8. CASE FetchHeaderFails
  BY <1>8, <1>0 DEF FetchHeaderFails, EndTick, NoTick
<1>9. CASE QueryWalletsFails
  BY <1>9, <1>0 DEF QueryWalletsFails, EndTick, NoTick
<1>10. CASE NoWallets
  BY <1>10, <1>0 DEF NoWallets, SnapshotInv, ControlInv
<1>11. CASE NothingNew
  BY <1>11, <1>0 DEF NothingNew, EndTick, NoTick
<1>12. CASE BeginScan
  BY <1>12, <1>0 DEF BeginScan, ScanFrom, ControlInv
<1>13. CASE FetchBlockOk
  BY <1>13, <1>0 DEF FetchBlockOk, BlockDone, SnapshotInv, ControlInv
<1>14. CASE FetchBlockFails
  BY <1>14, <1>0 DEF FetchBlockFails
<1>15. CASE PublishAcked
  BY <1>15, <1>0 DEF PublishAcked, BlockDone, SnapshotInv, ControlInv
<1>16. CASE PublishFails
  BY <1>16, <1>0 DEF PublishFails, BlockDone, SnapshotInv, ControlInv
<1>17. CASE PersistOk
  BY <1>17, <1>0 DEF PersistOk, EndTick, NoTick, ResumeAt, SnapshotInv
<1>18. CASE PersistFails
  <2>1. CASE lastScanned' = lastScanned
    BY <1>18, <1>0, <2>1 DEF PersistFails, EndTick, NoTick, ResumeAt, SnapshotInv
  <2>2. CASE lastScanned' = lastBlock
    BY <1>18, <1>0, <2>2 DEF PersistFails, EndTick, NoTick, ResumeAt, SnapshotInv
  <2> QED
    BY <1>18, <2>1, <2>2 DEF PersistFails
<1>19. CASE NothingToPersist
  BY <1>19, <1>0 DEF NothingToPersist, EndTick, NoTick
<1>20. CASE Shutdown
  BY <1>20, <1>0 DEF Shutdown, ProcessGone, NoTick
<1>21. CASE Cancel
  BY <1>21, <1>0 DEF Cancel
<1>22. CASE Crash
  BY <1>22, <1>0 DEF Crash, ProcessGone, NoTick
<1>23. CASE NewBlock
  BY <1>23, <1>0 DEF NewBlock
<1>24. CASE RetryTimerExpires
  BY <1>24, <1>0 DEF RetryTimerExpires
<1>25. ASSUME NEW w \in Wallets, Watch(w) PROVE CheckpointInv'
  BY <1>25, <1>0 DEF Watch
<1>26. ASSUME NEW w \in Wallets, Unwatch(w) PROVE CheckpointInv'
  BY <1>26, <1>0 DEF Unwatch
<1>27. CASE UNCHANGED vars
  BY <1>27 DEF vars
<1> QED
  BY <1>1, <1>2, <1>3, <1>4, <1>5, <1>6, <1>7, <1>8, <1>9, <1>10, <1>11,
     <1>12, <1>13, <1>14, <1>15, <1>16, <1>17, <1>18, <1>19, <1>20, <1>21,
     <1>22, <1>23, <1>24, <1>25, <1>26, <1>27 DEF Next, ProcessNext, EnvNext

(* Every step keeps the ranges of the process and of the rows in order. *)
LEMMA RangeInvNext ==
  TypeInv /\ CoverInv /\ RangeInv /\ [Next]_vars => RangeInv'
<1> SUFFICES ASSUME TypeInv, CoverInv, RangeInv, [Next]_vars PROVE RangeInv'
  OBVIOUS
<1>0. /\ head \in Nat /\ lastScanned \in Int /\ runs \in 0..MaxRuns
      /\ sessions \in [1..MaxRuns -> SessionRow \cup {NULL}]
      /\ sessionId \in (1..MaxRuns) \cup {NULL}
      /\ fromBlock \in Int \cup {NULL} /\ lastBlock \in Int \cup {NULL}
      /\ startBlock \in Int \cup {NULL}
      /\ safeBlock \in Int \cup {NULL} /\ blockNum \in Int \cup {NULL}
      /\ ControlInv /\ SafeBlockBuffer \in Nat /\ MaxLag \in Nat /\ MaxRuns \in Nat
      /\ NULL \notin Int /\ NULL \notin SessionRow
  BY ListenerAssumption DEF TypeInv, TypeOK, EnvTypeOK, StoreTypeOK, ProcTypeOK,
     TickTypeOK, ControlTypeOK
<1>a. SnapshotInv /\ PointerInv /\ RowInv
  BY DEF CoverInv
<1> USE DEF RangeInv, NotFarBelow, SessionRange, Busy, envVars, dbVars,
        procVars, tickVars, histVars
<1>1. CASE Start
  BY <1>1, <1>0 DEF Start
<1>2. CASE StartHeaderOk
  BY <1>2, <1>0, <1>a, HeadWithLag DEF StartHeaderOk, PointerInv
<1>3. CASE StartHeaderFails
  BY <1>3, <1>0 DEF StartHeaderFails
<1>4. CASE StartSessionOk
  BY <1>4, <1>0 DEF StartSessionOk, Row
<1>5. CASE StartSessionFails
  BY <1>5, <1>0 DEF StartSessionFails, Row
<1>6. ASSUME NEW back \in SUBSET unhealthy, Tick(back) PROVE RangeInv'
  BY <1>6, <1>0 DEF Tick
<1>7. CASE FetchHeaderOk
  BY <1>7, <1>0, HeadWithLag DEF FetchHeaderOk
<1>8. CASE FetchHeaderFails
  BY <1>8, <1>0 DEF FetchHeaderFails, EndTick, NoTick
<1>9. CASE QueryWalletsFails
  BY <1>9, <1>0 DEF QueryWalletsFails, EndTick, NoTick
<1>10. CASE NoWallets
  BY <1>10, <1>0, <1>a DEF NoWallets, SnapshotInv, ControlInv, PointerInv
<1>11. CASE NothingNew
  BY <1>11, <1>0 DEF NothingNew, EndTick, NoTick
<1>12. CASE BeginScan
  BY <1>12, <1>0 DEF BeginScan, ScanFrom, ControlInv
<1>13. CASE FetchBlockOk
  BY <1>13, <1>0, <1>a DEF FetchBlockOk, BlockDone, SnapshotInv, ControlInv, PointerInv
<1>14. CASE FetchBlockFails
  BY <1>14, <1>0 DEF FetchBlockFails
<1>15. CASE PublishAcked
  BY <1>15, <1>0, <1>a DEF PublishAcked, BlockDone, SnapshotInv, ControlInv, PointerInv
<1>16. CASE PublishFails
  BY <1>16, <1>0, <1>a DEF PublishFails, BlockDone, SnapshotInv, ControlInv, PointerInv
<1>17. CASE PersistOk
  BY <1>17, <1>0 DEF PersistOk, EndTick, NoTick, ResumeAt, PointerInv
<1>18. CASE PersistFails
  BY <1>18, <1>0 DEF PersistFails, EndTick, NoTick, ResumeAt, PointerInv
<1>19. CASE NothingToPersist
  BY <1>19, <1>0 DEF NothingToPersist, EndTick, NoTick
<1>20. CASE Shutdown
  <2>1. startBlock' = NULL /\ fromBlock' = NULL
    BY <1>20 DEF Shutdown, ProcessGone
  <2>2. SUFFICES ASSUME NEW r \in 1..MaxRuns, sessions'[r] # NULL,
                        sessions'[r].status = "CLOSED", sessions'[r].to # NULL
                 PROVE  sessions'[r].from - MaxLag <= sessions'[r].to
    BY <2>1, <1>20 DEF Shutdown
  <2>3. CASE sessions'[r] = sessions[r]
    BY <2>2, <2>3
  <2>4. CASE sessions'[r] # sessions[r]
    <3>1. /\ r = sessionId /\ sessions[r] # NULL
          /\ sessions'[r] = [sessions[r] EXCEPT !.to = lastBlock, !.status = "CLOSED"]
      BY <1>20, <1>0, <2>4 DEF Shutdown, ControlInv
    <3>2. sessions'[r].from = startBlock /\ sessions'[r].to = lastBlock
      BY <1>0, <1>a, <3>1 DEF RowInv, SessionRow
    <3> QED
      BY <1>0, <1>a, <2>2, <3>2 DEF PointerInv
  <2> QED
    BY <2>3, <2>4
<1>21. CASE Cancel
  BY <1>21, <1>0 DEF Cancel
<1>22. CASE Crash
  BY <1>22, <1>0 DEF Crash, ProcessGone, NoTick
<1>23. CASE NewBlock
  BY <1>23, <1>0 DEF NewBlock
<1>24. CASE RetryTimerExpires
  BY <1>24, <1>0 DEF RetryTimerExpires
<1>25. ASSUME NEW w \in Wallets, Watch(w) PROVE RangeInv'
  BY <1>25, <1>0 DEF Watch
<1>26. ASSUME NEW w \in Wallets, Unwatch(w) PROVE RangeInv'
  BY <1>26, <1>0 DEF Unwatch
<1>27. CASE UNCHANGED vars
  BY <1>27 DEF vars
<1> QED
  BY <1>1, <1>2, <1>3, <1>4, <1>5, <1>6, <1>7, <1>8, <1>9, <1>10, <1>11,
     <1>12, <1>13, <1>14, <1>15, <1>16, <1>17, <1>18, <1>19, <1>20, <1>21,
     <1>22, <1>23, <1>24, <1>25, <1>26, <1>27 DEF Next, ProcessNext, EnvNext

(* Only the end of a range stores a checkpoint, and not a much lower one. *)
LEMMA CheckpointStep ==
  TypeInv /\ CheckpointInv /\ [Next]_vars
    => [lastScanned > 0 => lastScanned' >= lastScanned - MaxLag]_lastScanned
<1> SUFFICES ASSUME TypeInv, CheckpointInv, [Next]_vars, lastScanned' # lastScanned,
                    lastScanned > 0
             PROVE  lastScanned' >= lastScanned - MaxLag
  OBVIOUS
<1>1. PersistOk \/ PersistFails
  BY DEF Next, ProcessNext, EnvNext, vars, envVars, dbVars, procVars, tickVars,
     histVars, Start, StartHeaderOk, StartHeaderFails, StartSessionOk,
     StartSessionFails, Tick, FetchHeaderOk, FetchHeaderFails,
     QueryWalletsFails, NoWallets, NothingNew, BeginScan, FetchBlockOk,
     FetchBlockFails, PublishAcked, PublishFails, NothingToPersist, Shutdown,
     Cancel, Crash, NewBlock, RetryTimerExpires, Watch, Unwatch
<1> QED
  BY <1>1 DEF PersistOk, PersistFails, CheckpointInv, NotFarBelow

(* No step lowers the checkpoint by more than a provider lags behind. *)
THEOREM Checkpoint == Spec => CheckpointHolds
<1>1. Init => TypeInv /\ CoverInv /\ CheckpointInv
  BY TypeInit, CoverInit DEF Init, CheckpointInv
<1>2. TypeInv /\ CoverInv /\ CheckpointInv /\ [Next]_vars
        => (TypeInv /\ CoverInv /\ CheckpointInv)'
  BY TypeNext, CoverNext, CheckpointInvNext DEF CoverInv
<1>3. TypeInv /\ CheckpointInv /\ [Next]_vars
        => [lastScanned > 0 => lastScanned' >= lastScanned - MaxLag]_lastScanned
  BY CheckpointStep
<1> QED
  BY <1>1, <1>2, <1>3, PTL DEF Spec, CheckpointHolds

(* A closed row ends before its first block by no more than a provider     *)
(* lags behind.                                                            *)
THEOREM SessionsForward == Spec => []SessionRange
<1>1. Init => TypeInv /\ CoverInv /\ RangeInv
  BY TypeInit, CoverInit DEF Init, RangeInv, SessionRange
<1>2. TypeInv /\ CoverInv /\ RangeInv /\ [Next]_vars
        => (TypeInv /\ CoverInv /\ RangeInv)'
  BY TypeNext, CoverNext, RangeInvNext
<1>3. RangeInv => SessionRange
  BY DEF RangeInv
<1> QED
  BY <1>1, <1>2, <1>3, PTL DEF Spec
=============================================================================
