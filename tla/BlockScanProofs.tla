-------------------------- MODULE BlockScanProofs --------------------------
(***************************************************************************)
(* What BlockScan promises holds for any number of processes, blocks and   *)
(* messages.                                                               *)
(***************************************************************************)
EXTENDS BlockScan, TLAPS

(* The stream holds nothing of a later process or above the next block,    *)
(* and of the next block exactly the messages sent. *)
PlaceInv ==
  /\ next = NULL => total = 0
  /\ total = 0 => sent = 0
  /\ total # 0 => sent < total
  /\ \A m \in stream : m.run <= runs
  /\ next # NULL => \A m \in stream : m.block <= next
  /\ \A k \in 1..sent :
       [run |-> runs, block |-> next, batch |-> k, total |-> total] \in stream

IInv == TypeOK /\ PlaceInv /\ PublishOrder /\ BatchPrefix /\ RunsOrdered

-----------------------------------------------------------------------------
LEMMA ScanInit == ScanAssumption /\ Init => IInv
BY DEF ScanAssumption, Init, IInv, TypeOK, PlaceInv, PublishOrder, BatchPrefix,
   RunsOrdered

(* Going to a later block, or to none, keeps the stream and its order. *)
LEMMA GotoKeeps ==
  ASSUME IInv, NEW b \in Int \cup {NULL}, Goto(b), UNCHANGED <<runs, stream>>,
         b # NULL => /\ \A m \in stream : m.block <= b
                     /\ \A m \in stream : m.run = runs => m.block < b
  PROVE  IInv'
<1>1. TypeOK'
  BY DEF IInv, TypeOK, Goto
<1>2. PlaceInv'
  BY DEF IInv, TypeOK, PlaceInv, Goto
<1>3. PublishOrder'
  BY DEF IInv, TypeOK, PublishOrder, Goto
<1>4. BatchPrefix' /\ RunsOrdered'
  BY DEF IInv, BatchPrefix, RunsOrdered
<1> QED
  BY <1>1, <1>2, <1>3, <1>4 DEF IInv

(* The message stored is the next one, of the last process and the highest *)
(* block. *)
LEMMA StoreKeeps ==
  ASSUME ScanAssumption, IInv, total # 0, stream' = stream \cup {Message}, UNCHANGED runs
  PROVE  /\ stream' \subseteq ScanMessage
         /\ \A m \in stream' : m.run <= runs /\ m.block <= next
         /\ BatchPrefix' /\ RunsOrdered'
<1>1. /\ runs \in Nat /\ next \in Int /\ total \in Nat /\ sent \in Nat
      /\ stream \subseteq ScanMessage
  BY DEF ScanAssumption, IInv, TypeOK, PlaceInv
<1>2. /\ Message \in ScanMessage
      /\ Message.run = runs /\ Message.block = next /\ Message.batch = sent + 1
  BY <1>1 DEF Message, ScanMessage
<1>3. \A m \in stream : m.run <= runs /\ m.block <= next
  BY <1>1 DEF ScanAssumption, IInv, PlaceInv
<1>4. stream' \subseteq ScanMessage /\ \A m \in stream' : m.run <= runs /\ m.block <= next
  BY <1>1, <1>2, <1>3
<1>5. BatchPrefix'
  <2> SUFFICES ASSUME NEW m \in stream', NEW k \in 1..m.batch
               PROVE  [m EXCEPT !.batch = k] \in stream'
    BY DEF BatchPrefix
  <2>1. CASE m \in stream
    BY <2>1 DEF IInv, BatchPrefix
  <2>2. CASE m = Message
    <3>1. [m EXCEPT !.batch = k] = [run |-> runs, block |-> next, batch |-> k, total |-> total]
      BY <2>2 DEF Message
    <3>2. k \in 1..sent \/ k = sent + 1
      BY <2>2, <1>1, <1>2
    <3> QED
      BY <3>1, <3>2 DEF IInv, PlaceInv, Message
  <2> QED
    BY <2>1, <2>2
<1>6. RunsOrdered'
  <2> SUFFICES ASSUME NEW m \in stream', NEW n \in stream', m.run < n.run
               PROVE  m.block <= n.block
    BY DEF RunsOrdered
  <2>1. m.run \in Nat /\ n.run \in Nat /\ m.run <= runs /\ n.run <= runs
    BY <1>1, <1>2, <1>4 DEF ScanMessage
  <2>2. m \in stream
    BY <1>1, <1>2, <2>1
  <2> QED
    BY <1>2, <1>3, <2>2 DEF IInv, RunsOrdered
<1> QED
  BY <1>4, <1>5, <1>6

(* Every step keeps the order of the stream. *)
LEMMA ScanNext == ScanAssumption /\ IInv /\ [Next]_vars => IInv'
<1> SUFFICES ASSUME ScanAssumption, IInv, [Next]_vars PROVE IInv'
  OBVIOUS
<1>0. /\ runs \in 0..MaxRuns /\ next \in Int \cup {NULL} /\ total \in Nat
      /\ sent \in Nat /\ stream \subseteq ScanMessage /\ MaxRuns \in Nat
      /\ NULL \notin Int
  BY DEF ScanAssumption, IInv, TypeOK
<1>1. CASE Start
  <2>1. TypeOK'
    BY <1>1, <1>0 DEF Start, TypeOK
  <2>2. PlaceInv'
    BY <1>1, <1>0 DEF Start, IInv, PlaceInv, ScanMessage
  <2>3. PublishOrder' /\ BatchPrefix' /\ RunsOrdered'
    BY <1>1, <1>0 DEF Start, IInv, PublishOrder, BatchPrefix, RunsOrdered
  <2> QED
    BY <2>1, <2>2, <2>3 DEF IInv
<1>2. CASE Stop
  BY <1>2, GotoKeeps DEF Stop
<1>3. CASE Store
  <2>1. /\ stream' \subseteq ScanMessage
        /\ \A m \in stream' : m.run <= runs /\ m.block <= next
        /\ BatchPrefix' /\ RunsOrdered'
    BY <1>3, StoreKeeps DEF Store
  <2>2. next \in Int /\ sent < total
    BY <1>3, <1>0 DEF Store, IInv, PlaceInv
  <2>3. runs' = runs /\ stream' = stream \cup {Message}
    BY <1>3 DEF Store
  <2>4. CASE sent' = sent + 1 /\ UNCHANGED <<next, total>> /\ sent + 1 < total
    <3>1. TypeOK'
      BY <2>1, <2>3, <2>4, <1>0 DEF TypeOK
    <3>2. \A k \in 1..sent' :
            [run |-> runs, block |-> next, batch |-> k, total |-> total] \in stream'
      <4> SUFFICES ASSUME NEW k \in 1..sent'
                   PROVE  [run |-> runs, block |-> next, batch |-> k, total |-> total] \in stream'
        OBVIOUS
      <4>1. k \in 1..sent \/ k = sent + 1
        BY <2>4, <1>0
      <4> QED
        BY <4>1, <2>3 DEF IInv, PlaceInv, Message
    <3>3. PlaceInv'
      BY <2>1, <2>2, <2>3, <2>4, <3>2, <1>0 DEF PlaceInv
    <3>4. PublishOrder'
      BY <2>2, <2>3, <2>4, <1>0 DEF PublishOrder, IInv, Message, ScanMessage
    <3> QED
      BY <3>1, <3>3, <3>4, <2>1 DEF IInv
  <2>5. CASE Goto(next + 1)
    <3>1. TypeOK'
      BY <2>1, <2>2, <2>3, <2>5, <1>0 DEF TypeOK, Goto
    <3>2. \A m \in stream' : m.block \in Int /\ m.block < next + 1
      BY <2>1, <2>2 DEF ScanMessage
    <3>3. PlaceInv'
      BY <2>1, <2>2, <2>3, <2>5, <3>2, <1>0 DEF PlaceInv, Goto
    <3>4. PublishOrder'
      BY <2>5, <3>2 DEF PublishOrder, Goto
    <3> QED
      BY <3>1, <3>3, <3>4, <2>1 DEF IInv
  <2> QED
    BY <1>3, <2>4, <2>5 DEF Store
<1>4. CASE GiveUp
  <2>1. next \in Int
    BY <1>4, <1>0 DEF GiveUp, IInv, PlaceInv
  <2>2. \A m \in stream : m.block \in Int /\ m.block <= next
    BY <2>1, <1>0 DEF IInv, PlaceInv, ScanMessage
  <2>3. \A m \in stream : m.block < next + 1
    BY <2>1, <2>2
  <2>4. \A m \in stream : m.block <= next + 1
    BY <2>1, <2>2
  <2> QED
    BY <1>4, <2>1, <2>3, <2>4, GotoKeeps DEF GiveUp
<1>5. CASE next' \in Int /\ Pass(next')
  <2>1. CASE next = NULL
    BY <1>5, <2>1, <1>0, GotoKeeps DEF Pass, From, ScanMessage
  <2>2. CASE next # NULL
    <3>1. sent = 0 /\ next \in Int /\ next <= next'
      BY <1>5, <2>2, <1>0 DEF Pass, From, IInv, PlaceInv
    <3>2. \A m \in stream : /\ m.block \in Int /\ m.block <= next
                            /\ m.batch \in Nat \ {0}
      BY <3>1, <1>0 DEF IInv, PlaceInv, ScanMessage
    <3> QED
      BY <1>5, <3>1, <3>2, <1>0, GotoKeeps DEF Pass, IInv, PublishOrder
  <2> QED
    BY <2>1, <2>2
<1>6. CASE next' \in Int /\ total' \in Nat \ {0} /\ Open(next', total')
  <2>1. sent = 0 /\ sent' = 0 /\ total = 0
    BY <1>6 DEF Open, IInv, PlaceInv
  <2>2. TypeOK'
    BY <1>6, <1>0, <2>1 DEF Open, TypeOK
  <2>3. \A m \in stream : m.block <= next'
    BY <1>6, <1>0 DEF Open, From, IInv, PlaceInv
  <2>4. PlaceInv'
    BY <1>6, <1>0, <2>1, <2>3 DEF Open, IInv, PlaceInv
  <2>5. PublishOrder'
    BY <1>6, <1>0, <2>1 DEF Open, From, IInv, PublishOrder, ScanMessage
  <2>6. BatchPrefix' /\ RunsOrdered'
    BY <1>6 DEF Open, IInv, BatchPrefix, RunsOrdered
  <2> QED
    BY <2>2, <2>4, <2>5, <2>6 DEF IInv
<1>7. CASE UNCHANGED vars
  BY <1>7 DEF vars, IInv, TypeOK, PlaceInv, PublishOrder, BatchPrefix, RunsOrdered
<1> QED
  BY <1>1, <1>2, <1>3, <1>4, <1>5, <1>6, <1>7 DEF Next

(* One process stores messages in ascending order and none twice, a block  *)
(* lacks only its last messages, and a later process repeats at most the   *)
(* last block of an earlier one. *)
THEOREM StreamOrder ==
  ASSUME ScanAssumption PROVE Spec => [](PublishOrder /\ BatchPrefix /\ RunsOrdered)
<1>1. IInv => PublishOrder /\ BatchPrefix /\ RunsOrdered
  BY DEF IInv
<1> QED
  BY <1>1, ScanAssumption, ScanInit, ScanNext, PTL DEF Spec
=============================================================================
