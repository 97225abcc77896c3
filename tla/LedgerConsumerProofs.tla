----------------------- MODULE LedgerConsumerProofs -----------------------
(***************************************************************************)
(* Theorems about LedgerConsumer, for every number of messages, every      *)
(* batch, every set of constraint violations and every number of crashes.  *)
(***************************************************************************)
EXTENDS LedgerConsumer, TLAPS

(* A message being handled is a message, and one about to be acked is in   *)
(* the table: nothing ever removes a row.                                  *)
HandlingInv ==
  /\ pc \in {"process", "ack", "nak"} => cur \in 1..stored
  /\ pc = "ack" => NewRows(cur) \subseteq rows

(* A row is of an event of the message it came with. *)
RowInv == \A r \in rows : r \in NewRows(r.msg)

IInv ==
  /\ TypeOK
  /\ HandlingInv
  /\ RowInv
  /\ AckedPersisted
  /\ WholeBatch
  /\ NothingSkipped

LEMMA IInvInit == Init => IInv
<1> SUFFICES ASSUME Init PROVE IInv
  OBVIOUS
<1>1. TypeOK
  BY LedgerAssumption DEF LedgerParameters, Init, TypeOK, stored
<1>2. HandlingInv /\ RowInv /\ AckedPersisted /\ WholeBatch /\ NothingSkipped
  BY DEF Init, HandlingInv, RowInv, AckedPersisted, WholeBatch, NothingSkipped, stored,
     created
<1> QED
  BY <1>1, <1>2 DEF IInv

(* Rows of a message are rows of the table's type. *)
LEMMA NewRowsType ==
  ASSUME TypeOK, NEW s \in 1..stored
  PROVE  NewRows(s) \subseteq Row
<1>1. stream[s] \subseteq Events
  BY DEF TypeOK, stored
<1> QED
  BY <1>1 DEF NewRows, Mapped, Row

(* A step that touches neither stream nor table nor acks changes nothing   *)
(* in what the table holds of whom.                                        *)
LEMMA TableKept ==
  ASSUME RowInv, AckedPersisted, WholeBatch, UNCHANGED <<stream, rows, acked>>
  PROVE  RowInv' /\ AckedPersisted' /\ WholeBatch'
BY DEF RowInv, AckedPersisted, WholeBatch, NewRows, Mapped, stored

(* What is delivered stays accounted for as long as nothing pending is     *)
(* dropped and the consumer keeps its place.                               *)
LEMMA PlaceKept ==
  ASSUME NothingSkipped, UNCHANGED <<stream, first, nextSeq>>,
         acked \cup pending \subseteq acked' \cup pending'
  PROVE  NothingSkipped'
BY DEF NothingSkipped, created, stored

(* A message published later leaves the batches of the earlier ones alone. *)
LEMMA StoreKeeps ==
  ASSUME TypeOK, NEW batch \in SUBSET Events, Store(batch)
  PROVE  /\ stream' \in Seq(SUBSET Events)
         /\ stored' = stored + 1
         /\ \A s \in 1..stored : s \in 1..stored' /\ NewRows(s)' = NewRows(s)
         /\ \A s : s = stored + 1 => NewRows(s)' \cap rows = {}
<1>1. stream' \in Seq(SUBSET Events) /\ stored' = stored + 1
  BY DEF Store, TypeOK, stored
<1>2. \A s \in 1..stored : stream'[s] = stream[s]
  BY DEF Store, TypeOK, stored
<1>4. \A s \in 1..stored : s \in 1..stored' /\ NewRows(s)' = NewRows(s)
  BY <1>1, <1>2 DEF NewRows, Mapped, stored, TypeOK
<1>3. \A r \in rows : r.msg \in 1..stored
  BY DEF TypeOK, Row
<1>5. \A s : s = stored + 1 => NewRows(s)' \cap rows = {}
  BY <1>1, <1>3 DEF NewRows, stored, TypeOK
<1> QED
  BY <1>1, <1>4, <1>5

(* A message, whatever its batch, keeps the invariant. *)
LEMMA StoreStep ==
  ASSUME IInv, NEW batch \in SUBSET Events, stored < NumMessages, Store(batch)
  PROVE  IInv'
<1>0. /\ TypeOK /\ HandlingInv /\ RowInv /\ AckedPersisted /\ WholeBatch
      /\ NothingSkipped
  BY DEF IInv
<1>1. /\ stream' \in Seq(SUBSET Events)
      /\ stored' = stored + 1
      /\ \A s \in 1..stored : s \in 1..stored' /\ NewRows(s)' = NewRows(s)
      /\ \A s : s = stored + 1 => NewRows(s)' \cap rows = {}
  BY <1>0, StoreKeeps
<1>n. stored \in Nat
  BY <1>0 DEF TypeOK, stored
<1> USE LedgerAssumption DEF LedgerParameters, serverVars, processVars, boundVars, Row
<1>2. TypeOK'
  BY <1>0, <1>1, <1>n DEF Store, TypeOK, created
<1>3. HandlingInv'
  BY <1>0, <1>1, <1>n DEF Store, HandlingInv
<1>4. AckedPersisted'
  BY <1>0, <1>1, <1>n DEF Store, AckedPersisted, TypeOK
<1>5. WholeBatch'
  <2> SUFFICES ASSUME NEW s \in 1..stored'
               PROVE  NewRows(s)' \subseteq rows' \/ NewRows(s)' \cap rows' = {}
    BY DEF WholeBatch
  <2>1. CASE s \in 1..stored
    BY <2>1, <1>0, <1>1 DEF Store, WholeBatch
  <2>2. CASE s = stored + 1
    BY <2>2, <1>1 DEF Store
  <2> QED
    BY <2>1, <2>2, <1>1, <1>n
<1>6. NothingSkipped'
  BY <1>0, <1>1, <1>n DEF Store, NothingSkipped, created, TypeOK
<1>7. RowInv'
  BY <1>0, <1>1 DEF Store, RowInv, TypeOK
<1> QED
  BY <1>2, <1>3, <1>4, <1>5, <1>6, <1>7 DEF IInv

(* Saving the message being handled keeps the invariant's table part.      *)
LEMMA SaveKeeps ==
  ASSUME TypeOK, RowInv, AckedPersisted, WholeBatch, cur \in 1..stored,
         rows' = rows \cup NewRows(cur), UNCHANGED <<stream, acked>>
  PROVE  rows' \subseteq Row' /\ RowInv' /\ AckedPersisted' /\ WholeBatch'
<1>1. rows' \subseteq Row'
  BY NewRowsType DEF TypeOK, Row, stored
<1>2. \A s \in 1..stored : NewRows(s)' = NewRows(s)
  BY DEF NewRows, Mapped
<1>3. AckedPersisted'
  BY <1>2 DEF AckedPersisted, TypeOK
<1>4. WholeBatch'
  <2> SUFFICES ASSUME NEW s \in 1..stored
               PROVE  NewRows(s) \subseteq rows' \/ NewRows(s) \cap rows' = {}
    BY <1>2 DEF WholeBatch, stored
  <2>1. CASE s = cur
    BY <2>1
  <2>2. CASE s # cur
    <3>1. NewRows(s) \cap NewRows(cur) = {}
      BY <2>2 DEF NewRows
    <3> QED
      BY <3>1 DEF WholeBatch
  <2> QED
    BY <2>1, <2>2
<1>5. RowInv'
  BY DEF RowInv, NewRows, Mapped
<1> QED
  BY <1>1, <1>3, <1>4, <1>5

LEMMA IInvNext == IInv /\ [Next]_vars => IInv'
<1> SUFFICES ASSUME IInv, [Next]_vars PROVE IInv'
  OBVIOUS
<1>0. /\ TypeOK /\ HandlingInv /\ RowInv /\ AckedPersisted /\ WholeBatch
      /\ NothingSkipped
  BY DEF IInv
<1> USE LedgerAssumption DEF LedgerParameters, serverVars, processVars, boundVars, stored, Row
<1>1. CASE Publish
  <2>1. PICK batch \in Offered[stored + 1] : stored < NumMessages /\ Store(batch)
    BY <1>1 DEF Publish
  <2>2. stored + 1 \in Messages
    BY <2>1, <1>0 DEF TypeOK, Messages
  <2>3. batch \in SUBSET Events
    BY <2>1, <2>2
  <2> QED
    BY <2>1, <2>3, StoreStep
<1>2. CASE Deliver
  <2>1. TypeOK'
    BY <1>2, <1>0 DEF Deliver, TypeOK
  <2>2. HandlingInv'
    BY <1>2, <1>0 DEF Deliver, HandlingInv, NewRows, Mapped
  <2>3. NothingSkipped'
    BY <1>2, <1>0 DEF Deliver, NothingSkipped, created, TypeOK
  <2> QED
    BY <2>1, <2>2, <2>3, <1>2, <1>0, TableKept DEF Deliver, IInv
<1>3. ASSUME NEW s \in Messages, Redeliver(s) PROVE IInv'
  <2>1. TypeOK'
    BY <1>3, <1>0 DEF Redeliver, TypeOK
  <2>2. HandlingInv'
    BY <1>3, <1>0 DEF Redeliver, HandlingInv, NewRows, Mapped
  <2> QED
    BY <2>1, <2>2, <1>3, <1>0, TableKept, PlaceKept DEF Redeliver, IInv
<1>4. ASSUME NEW s \in Messages, AckWaitExpires(s) PROVE IInv'
  <2>1. TypeOK'
    BY <1>4, <1>0 DEF AckWaitExpires, TypeOK
  <2>2. HandlingInv'
    BY <1>4, <1>0 DEF AckWaitExpires, HandlingInv, NewRows, Mapped
  <2> QED
    BY <2>1, <2>2, <1>4, <1>0, TableKept, PlaceKept DEF AckWaitExpires, IInv
<1>5. CASE Subscribe
  <2>1. TypeOK'
    BY <1>5, <1>0 DEF Subscribe, TypeOK, created
  <2>2. HandlingInv'
    BY <1>5, <1>0 DEF Subscribe, HandlingInv
  <2>3. NothingSkipped'
    BY <1>5, <1>0 DEF Subscribe, NothingSkipped, created, TypeOK
  <2> QED
    BY <2>1, <2>2, <2>3, <1>5, <1>0, TableKept DEF Subscribe, IInv
<1>6. CASE Take
  <2>1. TypeOK'
    BY <1>6, <1>0 DEF Take, TypeOK
  <2>2. HandlingInv'
    BY <1>6, <1>0 DEF Take, HandlingInv, TypeOK
  <2> QED
    BY <2>1, <2>2, <1>6, <1>0, TableKept, PlaceKept DEF Take, IInv
<1>7. CASE PersistOk
  <2>1. rows' \subseteq Row' /\ RowInv' /\ AckedPersisted' /\ WholeBatch'
    BY <1>7, <1>0, SaveKeeps DEF PersistOk, HandlingInv
  <2>2. TypeOK'
    BY <1>7, <1>0, <2>1 DEF PersistOk, TypeOK
  <2>3. HandlingInv'
    BY <1>7, <1>0 DEF PersistOk, HandlingInv, NewRows, Mapped
  <2> QED
    BY <2>1, <2>2, <2>3, <1>7, <1>0, PlaceKept DEF PersistOk, IInv
<1>8. CASE PersistFails
  <2>1. TypeOK'
    BY <1>8, <1>0 DEF PersistFails, TypeOK
  <2>2. HandlingInv'
    BY <1>8, <1>0 DEF PersistFails, HandlingInv
  <2> QED
    BY <2>1, <2>2, <1>8, <1>0, TableKept, PlaceKept DEF PersistFails, IInv
<1>9. CASE CommitAnswerLost
  <2>1. rows' \subseteq Row' /\ RowInv' /\ AckedPersisted' /\ WholeBatch'
    BY <1>9, <1>0, SaveKeeps DEF CommitAnswerLost, HandlingInv
  <2>2. TypeOK'
    BY <1>9, <1>0, <2>1 DEF CommitAnswerLost, TypeOK
  <2>3. HandlingInv'
    BY <1>9, <1>0 DEF CommitAnswerLost, HandlingInv
  <2> QED
    BY <2>1, <2>2, <2>3, <1>9, <1>0, PlaceKept DEF CommitAnswerLost, IInv
<1>10. CASE Ack
  <2>1. TypeOK'
    BY <1>10, <1>0 DEF Ack, Settle, TypeOK, HandlingInv
  <2>2. HandlingInv'
    BY <1>10, <1>0 DEF Ack, Settle, HandlingInv
  <2>3. RowInv' /\ AckedPersisted' /\ WholeBatch'
    BY <1>10, <1>0 DEF Ack, Settle, HandlingInv, RowInv, AckedPersisted,
       WholeBatch, NewRows, Mapped
  <2> QED
    BY <2>1, <2>2, <2>3, <1>10, <1>0, PlaceKept DEF Ack, IInv
<1>11. CASE Nak
  <2>1. TypeOK'
    BY <1>11, <1>0 DEF Nak, Settle, TypeOK, HandlingInv
  <2>2. HandlingInv'
    BY <1>11, <1>0 DEF Nak, Settle, HandlingInv
  <2> QED
    BY <2>1, <2>2, <1>11, <1>0, TableKept, PlaceKept DEF Nak, IInv
<1>12. CASE LoseAnswer
  <2>1. TypeOK'
    BY <1>12, <1>0 DEF LoseAnswer, Settle, TypeOK
  <2>2. HandlingInv'
    BY <1>12, <1>0 DEF LoseAnswer, Settle, HandlingInv
  <2> QED
    BY <2>1, <2>2, <1>12, <1>0, TableKept, PlaceKept DEF LoseAnswer, IInv
<1>13. CASE Crash
  <2>1. TypeOK'
    BY <1>13, <1>0 DEF Crash, TypeOK
  <2>2. HandlingInv'
    BY <1>13, <1>0 DEF Crash, HandlingInv
  <2> QED
    BY <2>1, <2>2, <1>13, <1>0, TableKept, PlaceKept DEF Crash, IInv
<1>14. CASE UNCHANGED vars
  <2>1. TypeOK' /\ HandlingInv'
    BY <1>14, <1>0 DEF vars, TypeOK, Row, HandlingInv, NewRows, Mapped
  <2> QED
    BY <2>1, <1>14, <1>0, TableKept, PlaceKept DEF vars, IInv
<1> QED
  BY <1>1, <1>2, <1>3, <1>4, <1>5, <1>6, <1>7, <1>8, <1>9, <1>10, <1>11,
     <1>12, <1>13, <1>14 DEF Next, Consume

(* The invariant holds in every reachable state. *)
LEMMA IInvAlways == Spec => []IInv
BY IInvInit, IInvNext, PTL DEF Spec

(* The consumer's and the dispatcher's state keep their types. *)
THEOREM LedgerTypeCorrect == Spec => []TypeOK
<1>1. IInv => TypeOK
  BY DEF IInv
<1> QED
  BY <1>1, IInvAlways, PTL

(* No message is forgotten before its events are in the table. *)
THEOREM LedgerSafety == Spec => []AckedPersisted
<1>1. IInv => AckedPersisted
  BY DEF IInv
<1> QED
  BY <1>1, IInvAlways, PTL

(* No batch is ever in the table in part. *)
THEOREM LedgerAtomicity == Spec => []WholeBatch
<1>1. IInv => WholeBatch
  BY DEF IInv
<1> QED
  BY <1>1, IInvAlways, PTL

(* From the ledger's first start on no message is passed over. *)
THEOREM LedgerCompleteness == Spec => []NothingSkipped
<1>1. IInv => NothingSkipped
  BY DEF IInv
<1> QED
  BY <1>1, IInvAlways, PTL

(* The rows a message collides with came with another message, and that    *)
(* message has all its rows in the table. *)
LEMMA Refusal == IInv => RefusedForReason
<1> SUFFICES ASSUME IInv, NEW s \in 1..stored, Fits(s), ~Insertable(s)
             PROVE  Arrived(s) \/ Mixed(s)
  BY DEF RefusedForReason
<1>1. PICK e \in Mapped(s) : KeyOf[e] \in Keys(rows)
  BY DEF Insertable
<1>2. PICK r \in rows : KeyOf[r.event] = KeyOf[e]
  BY <1>1 DEF Keys
<1>3. r.msg \in 1..stored /\ r \in NewRows(r.msg)
  BY DEF IInv, TypeOK, Row, RowInv
<1>4. r.event \in Mapped(r.msg)
  BY <1>3 DEF NewRows
<1>5. NewRows(r.msg) \subseteq rows
  BY <1>3 DEF IInv, WholeBatch
<1>6. KeysOf(r.msg) \subseteq Keys(rows)
  <2> SUFFICES ASSUME NEW f \in Mapped(r.msg) PROVE KeyOf[f] \in Keys(rows)
    BY DEF KeysOf
  <2>1. [event |-> f, msg |-> r.msg] \in rows
    BY <1>5 DEF NewRows
  <2> QED
    BY <2>1 DEF Keys
<1>7. KeyOf[e] \in KeysOf(s) \cap KeysOf(r.msg)
  BY <1>1, <1>2, <1>4 DEF KeysOf
<1> QED
  BY <1>3, <1>6, <1>7 DEF Arrived, Mixed

(* A message that fits the table is refused only when its events are there *)
(* already, or mixed with those of another message. *)
THEOREM LedgerRefusals == Spec => []RefusedForReason
BY Refusal, IInvAlways, PTL

-----------------------------------------------------------------------------
(* chainops-nats.md:154: no row has the key of another, so that an event   *)
(* has one row at most, in however many messages it comes.                 *)
KeysUnique == \A q, r \in rows : KeyOf[q.event] = KeyOf[r.event] => q = r

(* The rows of a message the table takes have keys of their own, and none  *)
(* that is there. *)
LEMMA TakenUnique ==
  ASSUME KeysUnique, NEW s, Insertable(s)
  PROVE  \A q, r \in rows \cup NewRows(s) :
           KeyOf[q.event] = KeyOf[r.event] => q = r
<1>1. \A q \in NewRows(s) : /\ q.event \in Mapped(s)
                            /\ q = [event |-> q.event, msg |-> s]
  BY DEF NewRows
<1>2. \A q, r \in NewRows(s) : KeyOf[q.event] = KeyOf[r.event] => q = r
  <2>1. \A e, f \in Mapped(s) : KeyOf[e] = KeyOf[f] => e = f
    BY DEF Insertable, Fits
  <2> QED
    BY <1>1, <2>1
<1>3. \A q \in NewRows(s), r \in rows : KeyOf[q.event] # KeyOf[r.event]
  BY <1>1 DEF Insertable, Keys
<1> QED
  BY <1>2, <1>3 DEF KeysUnique

LEMMA KeysUniqueNext == KeysUnique /\ [Next]_vars => KeysUnique'
<1> SUFFICES ASSUME KeysUnique, [Next]_vars PROVE KeysUnique'
  OBVIOUS
<1>1. CASE UNCHANGED rows
  BY <1>1 DEF KeysUnique
<1>2. CASE PersistOk \/ CommitAnswerLost
  <2>1. Insertable(cur) /\ rows' = rows \cup NewRows(cur)
    BY <1>2 DEF PersistOk, CommitAnswerLost
  <2> QED
    BY <2>1, TakenUnique DEF KeysUnique
<1>3. PersistOk \/ CommitAnswerLost \/ UNCHANGED rows
  BY DEF Next, Consume, Publish, Store, Deliver, Redeliver, AckWaitExpires,
     Subscribe, Take, PersistFails, Ack, Nak, LoseAnswer, Crash, vars
<1> QED
  BY <1>1, <1>2, <1>3

(* An event has at most one row, whatever is published or delivered again. *)
THEOREM LedgerNoDuplicates == Spec => []KeysUnique
<1>1. Init => KeysUnique
  BY DEF Init, KeysUnique
<1> QED
  BY <1>1, KeysUniqueNext, PTL DEF Spec
=============================================================================
