-------------------------- MODULE LedgerConsumer --------------------------
(***************************************************************************)
(* The ledger's end of the stream: BlockActivityListener.handle, which     *)
(* hands every message to WalletActivityService.persistAll and then acks   *)
(* or naks it, against the JetStream consumer (durable, explicit acks)     *)
(* and the wallet_activities table with its UNIQUE constraint.             *)
(*                                                                         *)
(* The dispatcher calls handle for one message at a time, from an inbox    *)
(* that may hold the same message twice: the server delivers again what    *)
(* was naked or not acked in time.                                         *)
(***************************************************************************)
EXTENDS Integers, Sequences, FiniteSets

CONSTANTS
  NumMessages,    \* bound: messages the listener publishes, numbered from 1
  Events,         \* the events of all messages
  Offered,        \* the batches each message may be
  KeyOf,          \* an event's tx_hash, wallet and activity_type
  Unmappable,     \* events toEntity skips: unknown wallet, bad enum or number
  Overflowing,    \* events whose amount NUMERIC(38,18) cannot hold
  MaxAckPending,  \* messages delivered and not acked, at most
  MaxCopies,      \* bound: copies of one message in the process
  MaxCrashes,     \* bound: how often the process dies or is stopped
  MaxLost,        \* bound: acks, naks and answers to a commit that are lost
  NULL

Messages == 1..NumMessages

LedgerParameters ==
  /\ NumMessages \in Nat
  /\ Offered \in [Messages -> SUBSET SUBSET Events]
  /\ Unmappable \subseteq Events
  /\ Overflowing \subseteq Events
  /\ MaxAckPending \in Nat \ {0}
  /\ MaxCopies \in Nat \ {0}
  /\ MaxCrashes \in Nat
  /\ MaxLost \in Nat
  /\ NULL \notin Messages

ASSUME LedgerAssumption == LedgerParameters

VARIABLES
  \* the JetStream server
  stream,    \* the batch of every message published
  first,     \* the message the durable consumer began at, NULL without one
  nextSeq,   \* the first message it has not delivered yet
  pending,   \* delivered and not acked
  due,       \* pending messages to be delivered again
  acked,     \* history: messages the server saw an ack of
  \* the database
  rows,      \* wallet_activities, as the event and the message it came with
  \* the process
  pc,        \* what the dispatcher thread is at
  inbox,     \* messages waiting for the dispatcher thread
  cur,       \* the message being handled
  \* bounds
  crashes, lost

serverVars == <<stream, first, nextSeq, pending, due, acked>>
processVars == <<pc, inbox, cur>>
boundVars == <<crashes, lost>>
vars == <<serverVars, rows, processVars, boundVars>>

-----------------------------------------------------------------------------
stored == Len(stream)

created == first # NULL

(* The entities persistAll saves for a message. *)
Mapped(s) == stream[s] \ Unmappable

NewRows(s) == {[event |-> e, msg |-> s] : e \in Mapped(s)}

Keys(rs) == {KeyOf[r.event] : r \in rs}

(* What the table takes of message s when it holds none of it: every       *)
(* amount fits, and no two events have the same key. *)
Fits(s) ==
  /\ Mapped(s) \cap Overflowing = {}
  /\ \A e, f \in Mapped(s) : KeyOf[e] = KeyOf[f] => e = f

(* Mutant: an event that cannot be mapped fails its batch. *)
Insertable_AllMapped(s) ==
  /\ Fits(s)
  /\ Mapped(s) = stream[s]
  /\ \A e \in Mapped(s) : KeyOf[e] \notin Keys(rows)

(* Whether the INSERTs of one transaction all pass, which is up to         *)
(* uq_wallet_activity: within the batch and against the table.             *)
Insertable(s) ==
  /\ Fits(s)
  /\ \A e \in Mapped(s) : KeyOf[e] \notin Keys(rows)

(* How often message s is in the process. *)
Copies(s) ==
  Cardinality({i \in DOMAIN inbox : inbox[i] = s}) + (IF cur = s THEN 1 ELSE 0)

-----------------------------------------------------------------------------
(* The server. *)

(* Interest retention: with no consumer yet the message is gone at once.   *)
Store(batch) ==
  /\ stream' = Append(stream, batch)
  /\ nextSeq' = IF created THEN nextSeq ELSE stored + 2
  /\ UNCHANGED <<first, pending, due, acked, rows, processVars, boundVars>>

Publish ==
  /\ stored < NumMessages
  /\ \E batch \in Offered[stored + 1] : Store(batch)

Deliver ==
  /\ pc # "off"
  /\ created
  /\ nextSeq <= stored
  /\ Cardinality(pending) < MaxAckPending
  /\ inbox' = Append(inbox, nextSeq)
  /\ pending' = pending \cup {nextSeq}
  /\ nextSeq' = nextSeq + 1
  /\ UNCHANGED <<stream, first, due, acked, rows, pc, cur, boundVars>>

Redeliver(s) ==
  /\ pc # "off"
  /\ s \in due
  /\ inbox' = Append(inbox, s)
  /\ due' = due \ {s}
  /\ UNCHANGED <<stream, first, nextSeq, pending, acked, rows, pc, cur,
                 boundVars>>

(* The ack wait of the message is over, whatever the process does with it. *)
AckWaitExpires(s) ==
  /\ s \in pending \ due
  /\ Copies(s) < MaxCopies
  /\ due' = due \cup {s}
  /\ UNCHANGED <<stream, first, nextSeq, pending, acked, rows, processVars,
                 boundVars>>

-----------------------------------------------------------------------------
(* The process. *)

(* Mutant: a consumer without a durable name begins anew at every start.   *)
Subscribe_Ephemeral ==
  /\ pc = "off"
  /\ pc' = "idle"
  /\ first' = IF created THEN first ELSE stored + 1
  /\ nextSeq' = stored + 1
  /\ UNCHANGED <<stream, pending, due, acked, rows, inbox, cur, boundVars>>

(* start: the first subscription creates the consumer, DeliverPolicy.New.  *)
Subscribe ==
  /\ pc = "off"
  /\ pc' = "idle"
  /\ first' = IF created THEN first ELSE stored + 1
  /\ nextSeq' = IF created THEN nextSeq ELSE stored + 1
  /\ UNCHANGED <<stream, pending, due, acked, rows, inbox, cur, boundVars>>

Take ==
  /\ pc = "idle"
  /\ inbox # <<>>
  /\ cur' = Head(inbox)
  /\ inbox' = Tail(inbox)
  /\ pc' = "process"
  /\ UNCHANGED <<serverVars, rows, boundVars>>

(* persistAll commits; with no event to save it returns at once. *)
PersistOk ==
  /\ pc = "process"
  /\ Insertable(cur)
  /\ rows' = rows \cup NewRows(cur)
  /\ pc' = "ack"
  /\ UNCHANGED <<serverVars, inbox, cur, boundVars>>

(* Mutant: no @Transactional, a failing save leaves the earlier ones. *)
PersistFails_KeepsSaved ==
  /\ pc = "process"
  /\ \E saved \in SUBSET NewRows(cur) :
       /\ \A r \in saved : KeyOf[r.event] \notin Keys(rows)
       /\ rows' = rows \cup saved
  /\ pc' = "nak"
  /\ UNCHANGED <<serverVars, inbox, cur, boundVars>>

(* Mutant: the catch block of persistAll does not throw again. *)
PersistFails_Swallowed ==
  /\ pc = "process"
  /\ pc' = "ack"
  /\ UNCHANGED <<serverVars, rows, inbox, cur, boundVars>>

(* An exception, of a constraint or of the database: all is rolled back. *)
PersistFails ==
  /\ pc = "process"
  /\ pc' = "nak"
  /\ UNCHANGED <<serverVars, rows, inbox, cur, boundVars>>

(* The commit is done, but the database's answer never arrives. *)
CommitAnswerLost ==
  /\ pc = "process"
  /\ Insertable(cur)
  /\ lost < MaxLost
  /\ lost' = lost + 1
  /\ rows' = rows \cup NewRows(cur)
  /\ pc' = "nak"
  /\ UNCHANGED <<serverVars, inbox, cur, crashes>>

Settle == pc' = "idle" /\ cur' = NULL

(* Mutant: handle returns without acking. *)
Ack_Forgotten ==
  /\ pc = "ack"
  /\ Settle
  /\ UNCHANGED <<serverVars, rows, inbox, boundVars>>

Ack ==
  /\ pc = "ack"
  /\ pending' = pending \ {cur}
  /\ due' = due \ {cur}
  /\ acked' = acked \cup {cur}
  /\ Settle
  /\ UNCHANGED <<stream, first, nextSeq, rows, inbox, boundVars>>

(* Mutant: a nak brings back a message that is acked already. *)
Nak_Blind ==
  /\ pc = "nak"
  /\ due' = due \cup {cur}
  /\ Settle
  /\ UNCHANGED <<stream, first, nextSeq, pending, acked, rows, inbox,
                 boundVars>>

(* A nak of a message that another copy acked meanwhile has no effect. *)
Nak ==
  /\ pc = "nak"
  /\ due' = IF cur \in pending THEN due \cup {cur} ELSE due
  /\ Settle
  /\ UNCHANGED <<stream, first, nextSeq, pending, acked, rows, inbox,
                 boundVars>>

(* ack and nak are fire-and-forget: a lost connection loses them. *)
LoseAnswer ==
  /\ pc \in {"ack", "nak"}
  /\ lost < MaxLost
  /\ lost' = lost + 1
  /\ Settle
  /\ UNCHANGED <<serverVars, rows, inbox, crashes>>

(* stop or a crash: inbox and open transaction are gone. *)
Crash ==
  /\ pc # "off"
  /\ crashes < MaxCrashes
  /\ crashes' = crashes + 1
  /\ pc' = "off"
  /\ inbox' = <<>>
  /\ cur' = NULL
  /\ UNCHANGED <<serverVars, rows, lost>>

-----------------------------------------------------------------------------
Init ==
  /\ stream = <<>>
  /\ first = NULL
  /\ nextSeq = 1
  /\ pending = {}
  /\ due = {}
  /\ acked = {}
  /\ rows = {}
  /\ pc = "off"
  /\ inbox = <<>>
  /\ cur = NULL
  /\ crashes = 0
  /\ lost = 0

(* All but the listener's part. *)
Consume ==
  \/ Deliver
  \/ \E s \in Messages : Redeliver(s) \/ AckWaitExpires(s)
  \/ Subscribe \/ Take \/ PersistOk \/ PersistFails \/ CommitAnswerLost
  \/ Ack \/ Nak \/ LoseAnswer \/ Crash

Next == Publish \/ Consume

Spec == Init /\ [][Next]_vars

(* The server delivers and its ack waits expire, the dispatcher thread     *)
(* runs, a stopped ledger is started again, and the database does not fail *)
(* every attempt at a message that can be saved.                           *)
Fairness ==
  /\ WF_vars(Subscribe)
  /\ WF_vars(Deliver)
  /\ WF_vars(Take)
  /\ WF_vars(PersistOk \/ PersistFails)
  /\ WF_vars(Ack \/ Nak)
  /\ \A s \in Messages :
       /\ WF_vars(Redeliver(s))
       /\ WF_vars(AckWaitExpires(s))
       /\ SF_vars(cur = s /\ PersistOk)

FairSpec == Spec /\ Fairness

-----------------------------------------------------------------------------
(* Properties. *)

Row == [event : Events, msg : 1..stored]

(* Every variable keeps its type. *)
TypeOK ==
  /\ stream \in Seq(SUBSET Events)
  /\ stored <= NumMessages
  /\ first \in 1..(stored + 1) \cup {NULL}
  /\ nextSeq \in 1..(stored + 1)
  /\ pending \subseteq 1..stored
  /\ due \subseteq pending
  /\ acked \subseteq 1..stored
  /\ rows \subseteq Row
  /\ pc \in {"off", "idle", "process", "ack", "nak"}
  /\ inbox \in Seq(1..stored)
  /\ cur \in 1..stored \cup {NULL}
  /\ crashes \in 0..MaxCrashes
  /\ lost \in 0..MaxLost

(* chainops-nats.md:23: a message the server may forget has all its        *)
(* events in the table, whatever crashes, redeliveries and lost answers    *)
(* came before (BlockActivityListener.java:89-93: ack after the commit).   *)
AckedPersisted == \A s \in acked : NewRows(s) \subseteq rows

(* WalletActivityService.java:32: a batch is in the table as a whole or    *)
(* not at all, so a later delivery finds nothing half done.                *)
WholeBatch ==
  \A s \in 1..stored :
    NewRows(s) \subseteq rows \/ NewRows(s) \cap rows = {}

(* chainops-nats.md:28: from the first start of the ledger on, every       *)
(* message is acked, still to be settled or still to be delivered, however *)
(* often the ledger is stopped meanwhile.                                  *)
NothingSkipped ==
  created => \A s \in first..stored : s \in acked \cup pending \/ s >= nextSeq

KeysOf(s) == {KeyOf[e] : e \in Mapped(s)}

Arrived(s) == KeysOf(s) \subseteq Keys(rows)

(* Another message has some of the message's events, but not all. *)
Mixed(s) ==
  \E t \in 1..stored :
    KeysOf(s) \cap KeysOf(t) # {} /\ ~(KeysOf(s) \subseteq KeysOf(t))

(* chainops-nats.md:154: the table refuses a message that is not at fault  *)
(* itself only when it has all the message's events already, or when       *)
(* another message brought some of them and not the others.                *)
RefusedForReason ==
  \A s \in 1..stored : Fits(s) /\ ~Insertable(s) => Arrived(s) \/ Mixed(s)

(* A message the table takes whenever it is handled. *)
Savable(s) == [](cur = s /\ pc = "process" /\ s \in pending => Insertable(s))

(* chainops-nats.md:183: every message delivered is acked in the end, and  *)
(* with interest retention deleted, through redeliveries, crashes and lost *)
(* answers, unless the table refuses it.                                   *)
Settles == \A s \in Messages : Savable(s) => (s \in pending ~> s \in acked)
=============================================================================
