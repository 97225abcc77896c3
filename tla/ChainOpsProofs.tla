--------------------------- MODULE ChainOpsProofs ---------------------------
(***************************************************************************)
(* Theorems about the system of listener and ledger, for every chain,      *)
(* every collection of its blocks, every batch size and every fault of the *)
(* ledger.                                                                 *)
(***************************************************************************)
EXTENDS ChainOps, SequenceTheorems, WellFoundedInduction, TLAPS

-----------------------------------------------------------------------------
(* Arithmetic. *)

(* Induction, as a fact about sets of numbers. *)
LEMMA LeastNumber ==
  ASSUME NEW T, T \subseteq Nat, T # {}
  PROVE  \E n \in T : \A k \in T : n <= k
<1> DEFINE Less == {p \in Nat \X Nat : p[1] < p[2]}
<1>1. IsWellFoundedOn(Less, Nat)
  BY NatLessThanWellFounded DEF OpToRel
<1>2. PICK n \in T : \A k \in T : <<k, n>> \notin Less
  BY <1>1, WFMin, Zenon
<1>3. ASSUME NEW k \in T PROVE n <= k
  <2>1. <<k, n>> \in Nat \X Nat
    OBVIOUS
  <2>2. ~(<<k, n>>[1] < <<k, n>>[2])
    BY <1>2, <2>1
  <2> QED
    BY <2>2
<1> QED
  BY <1>3

LEMMA Division ==
  ASSUME NEW a \in Nat, NEW b \in Nat \ {0}
  PROVE  a \div b \in Nat /\ (a \div b) * b <= a /\ a < (a \div b) * b + b
OBVIOUS

LEMMA ProductMonotone ==
  ASSUME NEW i \in Nat, NEW j \in Nat, NEW b \in Nat, i <= j
  PROVE  i * b \in Nat /\ j * b \in Nat /\ i * b <= j * b
<1>1. i * b \in Nat /\ j * b \in Nat /\ (j - i) * b = j * b - i * b
  OBVIOUS
<1>2. j - i \in Nat
  OBVIOUS
<1>3. (j - i) * b >= 0
  BY <1>2
<1> QED
  BY <1>1, <1>3

-----------------------------------------------------------------------------
(* What chunk does. *)

Count(n) == (n + BatchSize - 1) \div BatchSize

Start(i) == (i - 1) * BatchSize

End(n, i) == Least(i * BatchSize, n)

(* Where the batches of n events begin and end. *)
LEMMA BatchBounds ==
  ASSUME NEW n \in Nat, n > BatchSize, NEW i \in 1..Count(n)
  PROVE  /\ Count(n) \in Nat \ {0}
         /\ Start(i) \in Nat /\ Start(i) < n
         /\ End(n, i) \in (Start(i) + 1)..n
         /\ End(n, i) <= Start(i) + BatchSize
         /\ i # Count(n) => End(n, i) = Start(i + 1)
         /\ i = Count(n) => End(n, i) = n
<1> DEFINE k == Count(n)
<1>0. BatchSize \in Nat \ {0}
  BY SystemAssumption
<1>1. n + BatchSize - 1 \in Nat
  BY <1>0
<1>2. k \in Nat /\ k * BatchSize <= n + BatchSize - 1 /\ n + BatchSize - 1 < k * BatchSize + BatchSize
  BY <1>0, <1>1, Division DEF Count
<1> HIDE DEF k
<1>3. i \in Nat /\ i - 1 \in Nat /\ i <= k /\ i >= 1
  BY <1>2 DEF k
<1>4. k - 1 \in Nat
  BY <1>2, <1>3
<1>5. Start(i) \in Nat /\ Start(i) <= (k - 1) * BatchSize
  <2>1. i - 1 <= k - 1 /\ BatchSize \in Nat
    BY <1>0, <1>2, <1>3
  <2> QED
    BY <2>1, <1>3, <1>4, ProductMonotone DEF Start
<1>6. i * BatchSize = Start(i) + BatchSize /\ (k - 1) * BatchSize = k * BatchSize - BatchSize
  BY <1>0, <1>2, <1>3 DEF Start
<1>7. k * BatchSize \in Nat /\ i * BatchSize \in Nat
  BY <1>0, <1>2, <1>3
<1>8. Start(i) < n
  BY <1>0, <1>2, <1>5, <1>6, <1>7
<1>9. End(n, i) \in (Start(i) + 1)..n /\ End(n, i) <= Start(i) + BatchSize
  BY <1>0, <1>5, <1>6, <1>7, <1>8 DEF End, Least
<1>10. ASSUME i # k PROVE End(n, i) = Start(i + 1)
  <2>1. i <= k - 1
    BY <1>2, <1>3, <1>10
  <2>2. i * BatchSize <= (k - 1) * BatchSize
    BY <2>1, <1>0, <1>3, <1>4, ProductMonotone
  <2>3. i * BatchSize < n
    BY <2>2, <1>0, <1>2, <1>6, <1>7
  <2>4. Start(i + 1) = i * BatchSize
    BY <1>3 DEF Start
  <2> QED
    BY <2>3, <2>4 DEF End, Least
<1>11. ASSUME i = k PROVE End(n, i) = n
  <2>1. i * BatchSize >= n
    BY <1>11, <1>0, <1>2, <1>7
  <2> QED
    BY <2>1, <1>7 DEF End, Least
<1>12. k = Count(n)
  BY DEF k
<1> QED
  BY <1>2, <1>4, <1>5, <1>8, <1>9, <1>10, <1>11, <1>12

LEMMA ChunkOne ==
  ASSUME NEW msg, Len(msg) <= BatchSize
  PROVE  Chunk(msg) = <<msg>>
BY DEF Chunk

LEMMA ChunkMany ==
  ASSUME NEW S, NEW msg \in Seq(S), Len(msg) > BatchSize
  PROVE  /\ Count(Len(msg)) \in Nat \ {0}
         /\ Chunk(msg) \in Seq(Seq(S))
         /\ Len(Chunk(msg)) = Count(Len(msg))
         /\ \A i \in 1..Count(Len(msg)) :
              /\ Chunk(msg)[i] = SubSeq(msg, Start(i) + 1, End(Len(msg), i))
              /\ Chunk(msg)[i] \in Seq(S)
              /\ Len(Chunk(msg)[i]) = End(Len(msg), i) - Start(i)
<1> DEFINE n == Len(msg)
           k == Count(n)
           Batch(i) == SubSeq(msg, Start(i) + 1, End(n, i))
<1>0. n \in Nat /\ BatchSize \in Nat \ {0}
  BY SystemAssumption
<1>1. k \in Nat \ {0}
  <2>1. n - 1 \in Nat /\ n + BatchSize - 1 = (n - 1) + BatchSize
    BY <1>0
  <2>2. \A a \in Nat, b \in Nat \ {0} : (a + b) \div b \in Nat \ {0}
    OBVIOUS
  <2> QED
    BY <1>0, <2>1, <2>2 DEF Count
<1>2. Chunk(msg) = [i \in 1..k |-> Batch(i)]
  BY <1>0 DEF Chunk, Batches, Count, Start, End
<1>3. ASSUME NEW i \in 1..k
      PROVE  Batch(i) \in Seq(S) /\ Len(Batch(i)) = End(n, i) - Start(i)
  <2>1. /\ Start(i) \in Nat /\ End(n, i) \in (Start(i) + 1)..n
    BY <1>0, <1>3, BatchBounds
  <2>2. \A j \in (Start(i) + 1)..End(n, i) : msg[j] \in S
    BY <2>1
  <2> HIDE DEF n
  <2>3. Start(i) + 1 \in Int /\ End(n, i) \in Int
    BY <2>1
  <2>4. /\ Batch(i) \in Seq(S)
        /\ Len(Batch(i)) = IF Start(i) + 1 <= End(n, i)
                           THEN End(n, i) - (Start(i) + 1) + 1 ELSE 0
    BY <2>2, <2>3, SubSeqProperties
  <2> QED
    BY <2>1, <2>4
<1> HIDE DEF n, k, Batch
<1>4. Chunk(msg) \in Seq(Seq(S)) /\ Len(Chunk(msg)) = k
  BY <1>1, <1>2, <1>3
<1> QED
  BY <1>1, <1>2, <1>3, <1>4 DEF n, k, Batch

(* No batch is empty or too large. *)
LEMMA ChunkSizes ==
  ASSUME NEW S, NEW msg \in Seq(S), msg # <<>>
  PROVE  /\ Chunk(msg) \in Seq(Seq(S))
         /\ Len(Chunk(msg)) \in Nat \ {0}
         /\ \A i \in 1..Len(Chunk(msg)) : Len(Chunk(msg)[i]) \in 1..BatchSize
<1>0. Len(msg) \in Nat \ {0} /\ BatchSize \in Nat \ {0}
  BY SystemAssumption
<1>1. CASE Len(msg) <= BatchSize
  <2>1. /\ <<msg>> \in Seq(Seq(S)) /\ Len(<<msg>>) = 1
        /\ \A i \in 1..1 : <<msg>>[i] = msg
    OBVIOUS
  <2>2. Len(msg) \in 1..BatchSize
    BY <1>0, <1>1
  <2>3. Chunk(msg) = <<msg>>
    BY <1>1, ChunkOne
  <2> QED
    BY <2>1, <2>2, <2>3
<1>2. CASE Len(msg) > BatchSize
  <2>1. /\ Count(Len(msg)) \in Nat \ {0} /\ Chunk(msg) \in Seq(Seq(S))
        /\ Len(Chunk(msg)) = Count(Len(msg))
        /\ \A i \in 1..Count(Len(msg)) :
             Len(Chunk(msg)[i]) = End(Len(msg), i) - Start(i)
    BY <1>2, ChunkMany
  <2>2. \A i \in 1..Count(Len(msg)) : End(Len(msg), i) - Start(i) \in 1..BatchSize
    BY <1>0, <1>2, BatchBounds
  <2> QED
    BY <2>1, <2>2
<1> QED
  BY <1>0, <1>1, <1>2

(* The equation that FlattenSeq solves: all batches up to each one. *)
Flattens(f, seqs) ==
  f = [i \in 1..Len(seqs) |-> IF i = 1 THEN seqs[i] ELSE f[i - 1] \o seqs[i]]

LEMMA FlattensStep ==
  ASSUME NEW seqs, NEW f, Flattens(f, seqs), NEW i \in 1..Len(seqs)
  PROVE  f[i] = IF i = 1 THEN seqs[i] ELSE f[i - 1] \o seqs[i]
<1> DEFINE Right == [j \in 1..Len(seqs) |-> IF j = 1 THEN seqs[j] ELSE f[j - 1] \o seqs[j]]
<1>1. Right[i] = IF i = 1 THEN seqs[i] ELSE f[i - 1] \o seqs[i]
  OBVIOUS
<1>2. f = Right
  BY DEF Flattens
<1> HIDE DEF Right
<1> QED
  BY <1>1, <1>2, Zenon

(* It has no other solution. *)
LEMMA FlattenSeqIs ==
  ASSUME NEW seqs, NEW n \in Nat \ {0}, n = Len(seqs), NEW f, Flattens(f, seqs)
  PROVE  FlattenSeq(seqs) = f[n]
<1> DEFINE g == CHOOSE h : Flattens(h, seqs)
<1>1. FlattenSeq(seqs) = g[n]
  BY DEF FlattenSeq, Flattens
<1>2. Flattens(g, seqs)
  OBVIOUS
<1> HIDE DEF g
<1>3. g[1] = f[1]
  BY <1>2, FlattensStep
<1>4. ASSUME NEW i \in 1..n, i # 1, g[i - 1] = f[i - 1] PROVE g[i] = f[i]
  BY <1>2, <1>4, FlattensStep
<1> DEFINE T == {i \in 1..n : g[i] # f[i]}
<1>5. ASSUME T # {} PROVE FALSE
  <2>1. T \subseteq Nat
    OBVIOUS
  <2>2. PICK i \in T : \A j \in T : i <= j
    <3> HIDE DEF T
    <3> QED
      BY <1>5, <2>1, LeastNumber
  <2>3. i \in 1..n /\ g[i] # f[i] /\ i # 1
    BY <1>3
  <2>4. i - 1 \in 1..n /\ i - 1 \notin T
    BY <2>2, <2>3
  <2> QED
    BY <1>4, <2>3, <2>4
<1> QED
  BY <1>1, <1>5

(* Put together again, the batches are the events, in their order. *)
LEMMA ChunkFlattens ==
  ASSUME NEW S, NEW msg \in Seq(S)
  PROVE  FlattenSeq(Chunk(msg)) = msg
<1>0. Len(msg) \in Nat /\ BatchSize \in Nat \ {0}
  BY SystemAssumption
<1>1. CASE Len(msg) <= BatchSize
  <2>1. Flattens(<<msg>>, <<msg>>)
    BY DEF Flattens
  <2>2. Len(<<msg>>) = 1 /\ <<msg>>[1] = msg /\ 1 \in Nat \ {0}
    OBVIOUS
  <2>3. FlattenSeq(<<msg>>) = <<msg>>[1]
    BY <2>1, <2>2, FlattenSeqIs, Zenon
  <2> QED
    BY <1>1, <2>2, <2>3, ChunkOne, Zenon
<1>2. CASE Len(msg) > BatchSize
  <2> DEFINE n == Len(msg)
             k == Count(n)
             f == [i \in 1..k |-> SubSeq(msg, 1, End(n, i))]
  <2>1. /\ k \in Nat \ {0} /\ Len(Chunk(msg)) = k
        /\ \A i \in 1..k : Chunk(msg)[i] = SubSeq(msg, Start(i) + 1, End(n, i))
    BY <1>2, ChunkMany
  <2>2. \A i \in 1..k :
          /\ Start(i) \in Nat /\ Start(i) < n
          /\ End(n, i) \in (Start(i) + 1)..n
          /\ i # k => End(n, i) = Start(i + 1)
          /\ i = k => End(n, i) = n
    BY <1>0, <1>2, BatchBounds
  <2>3. Start(1) = 0
    BY <1>0 DEF Start
  <2> HIDE DEF n, k
  <2>n. n \in Nat /\ n = Len(msg)
    BY <1>0 DEF n
  <2>4. \A i \in 1..k :
          SubSeq(msg, 1, End(n, i))
            = IF i = 1 THEN Chunk(msg)[i] ELSE SubSeq(msg, 1, End(n, i - 1)) \o Chunk(msg)[i]
    <3>0. 1 \in 1..k /\ SubSeq(msg, 1, End(n, 1)) = Chunk(msg)[1]
      <4>1. 1 \in 1..k /\ Start(1) + 1 = 1
        BY <2>1, <2>3
      <4> QED
        BY <2>1, <4>1
    <3> SUFFICES ASSUME NEW i \in 1..k, i # 1
                 PROVE  SubSeq(msg, 1, End(n, i))
                          = SubSeq(msg, 1, End(n, i - 1)) \o Chunk(msg)[i]
      BY <3>0
    <3>1. i - 1 \in 1..k /\ i - 1 # k /\ i - 1 + 1 = i
      BY <2>1
    <3>2. End(n, i - 1) = Start(i)
      BY <2>2, <3>1
    <3>3. /\ Start(i) \in 0..Len(msg) /\ End(n, i) \in Start(i)..Len(msg)
          /\ 1 \in 1..(Len(msg) + 1) /\ Start(i) \in (1 - 1)..Len(msg)
      BY <2>2, <2>n
    <3>4. SubSeq(msg, 1, Start(i)) \o SubSeq(msg, Start(i) + 1, End(n, i))
            = SubSeq(msg, 1, End(n, i))
      BY <3>3, ConcatAdjacentSubSeq, Zenon
    <3> QED
      BY <2>1, <3>2, <3>4
  <2>5. Flattens(f, Chunk(msg))
    <3>1. ASSUME NEW i \in 1..k, i # 1
          PROVE  f[i - 1] = SubSeq(msg, 1, End(n, i - 1))
      <4>1. i - 1 \in 1..k
        BY <2>1, <3>1
      <4> QED
        BY <4>1
    <3>2. f = [i \in 1..k |-> IF i = 1 THEN Chunk(msg)[i] ELSE f[i - 1] \o Chunk(msg)[i]]
      BY <2>4, <3>1
    <3> HIDE DEF f
    <3> QED
      BY <2>1, <3>2 DEF Flattens
  <2>6. FlattenSeq(Chunk(msg)) = f[k]
    <3> HIDE DEF f
    <3> QED
      BY <2>1, <2>5, FlattenSeqIs
  <2>7. f[k] = SubSeq(msg, 1, n)
    BY <2>1, <2>2
  <2> QED
    BY <2>6, <2>7, <2>n, SubSeqFull
<1> QED
  BY <1>0, <1>1, <1>2

(* The batches together hold exactly the events. *)
LEMMA ChunkCovers ==
  ASSUME NEW S, NEW msg \in Seq(S)
  PROVE  Range(msg) = UNION {Range(Chunk(msg)[i]) : i \in 1..Len(Chunk(msg))}
<1>0. Len(msg) \in Nat /\ BatchSize \in Nat \ {0}
  BY SystemAssumption
<1>1. CASE Len(msg) <= BatchSize
  <2>1. Len(<<msg>>) = 1 /\ <<msg>>[1] = msg
    OBVIOUS
  <2> QED
    BY <1>1, <2>1, ChunkOne
<1>2. CASE Len(msg) > BatchSize
  <2> DEFINE n == Len(msg)
             k == Count(n)
             Batch(i) == SubSeq(msg, Start(i) + 1, End(n, i))
  <2>1. /\ k \in Nat \ {0} /\ Len(Chunk(msg)) = k
        /\ \A i \in 1..k : /\ Chunk(msg)[i] = Batch(i)
                           /\ Chunk(msg)[i] \in Seq(S)
                           /\ Len(Chunk(msg)[i]) = End(n, i) - Start(i)
    BY <1>2, ChunkMany
  <2>2. ASSUME NEW i \in 1..k
        PROVE  /\ Start(i) \in Nat /\ End(n, i) \in (Start(i) + 1)..n
               /\ \A j \in 1..(End(n, i) - Start(i)) : Batch(i)[j] = msg[Start(i) + j]
    <3>1. Start(i) \in Nat /\ End(n, i) \in (Start(i) + 1)..n
      BY <1>0, <1>2, BatchBounds
    <3>2. \A j \in (Start(i) + 1)..End(n, i) : msg[j] \in S
      BY <3>1
    <3>3. \A j \in 1..(End(n, i) - (Start(i) + 1) + 1) :
            Batch(i)[j] = msg[Start(i) + 1 + j - 1]
      BY <3>1, <3>2, SubSeqProperties
    <3> QED
      BY <3>1, <3>3
  <2>3. ASSUME NEW i \in 1..k, NEW e \in Range(Chunk(msg)[i]) PROVE e \in Range(msg)
    <3>0. Chunk(msg)[i] \in Seq(S)
      BY <2>1
    <3>1. PICK j \in 1..Len(Chunk(msg)[i]) : e = Chunk(msg)[i][j]
      BY <3>0, RangeEquality
    <3>3. j \in 1..(End(n, i) - Start(i)) /\ e = Batch(i)[j]
      BY <2>1, <3>1
    <3>2. Start(i) + j \in 1..n
      BY <2>2, <3>3
    <3> QED
      BY <2>2, <3>3, <3>2 DEF Range
  <2>4. ASSUME NEW e \in Range(msg)
        PROVE  \E i \in 1..k : e \in Range(Chunk(msg)[i])
    <3>1. PICK j \in 1..n : e = msg[j]
      BY DEF Range
    <3> DEFINE q == (j - 1) \div BatchSize
               i == q + 1
    <3>2. q \in Nat /\ q * BatchSize <= j - 1 /\ j - 1 < q * BatchSize + BatchSize
      <4>1. j - 1 \in Nat
        BY <1>0
      <4> QED
        BY <1>0, <4>1, Division
    <3> HIDE DEF q
    <3>3. i \in 1..k
      <4>1. q * BatchSize < n
        BY <1>0, <3>2
      <4>2. n + BatchSize - 1 \in Nat /\ k \in Nat /\ n <= k * BatchSize
        <5>1. k \in 1..k
          BY <2>1
        <5>2. End(n, k) = n
          BY <1>0, <1>2, <5>1, BatchBounds
        <5>3. k * BatchSize \in Nat
          BY <1>0, <2>1
        <5> QED
          BY <1>0, <2>1, <5>2, <5>3 DEF End, Least
      <4>3. ~(k <= q)
        <5>1. ASSUME k <= q PROVE k * BatchSize <= q * BatchSize
          BY <5>1, <1>0, <3>2, <4>2, ProductMonotone
        <5> QED
          BY <4>1, <4>2, <5>1, <1>0, <3>2
      <4> QED
        BY <4>2, <4>3, <3>2
    <3>4. Start(i) = q * BatchSize
      BY <3>2 DEF Start
    <3>5. j - Start(i) \in 1..(End(n, i) - Start(i))
      <4>1. i * BatchSize = q * BatchSize + BatchSize
        BY <1>0, <3>2
      <4>2. q * BatchSize \in Nat
        BY <1>0, <3>2
      <4> QED
        BY <1>0, <3>1, <3>2, <3>4, <4>1, <4>2 DEF End, Least
    <3>6. Batch(i)[j - Start(i)] = msg[j]
      BY <2>2, <3>3, <3>5
    <3>7. msg[j] \in Range(Chunk(msg)[i])
      BY <2>1, <3>3, <3>5, <3>6, RangeEquality
    <3> QED
      BY <3>1, <3>3, <3>7
  <2> QED
    BY <2>1, <2>3, <2>4
<1> QED
  BY <1>0, <1>1, <1>2

-----------------------------------------------------------------------------
(* The parts: what the listener and the ledger guarantee by themselves.    *)

Listener == INSTANCE BlockScanProofs WITH stream <- Range(headers)

Consumer == INSTANCE LedgerConsumerProofs WITH
  Offered <- [s \in 1..NumMessages |-> SUBSET Events]

(* The assumptions of both are among those of the system. *)
LEMMA PartsAssumed == Listener!ScanAssumption /\ Consumer!LedgerParameters
<1>1. Scan!ScanAssumption /\ Ledger!LedgerParameters
  BY SystemAssumption
<1>2. Listener!ScanAssumption
  BY <1>1 DEF Scan!ScanAssumption, Listener!ScanAssumption
<1>3. Consumer!LedgerParameters
  BY <1>1 DEF Ledger!LedgerParameters, Ledger!Messages,
     Consumer!LedgerParameters, Consumer!Messages
<1> QED
  BY <1>2, <1>3

LEMMA ListenerInit == Init => Listener!IInv
<1> SUFFICES ASSUME Init PROVE Listener!IInv
  OBVIOUS
<1>1. Listener!Init
  BY DEF Init, Scan!Init, Listener!Init
<1> QED
  BY <1>1, PartsAssumed, Listener!ScanInit

LEMMA ListenerNext ==
  ASSUME Listener!IInv, [Scan!Next]_(Scan!vars)
  PROVE  Listener!IInv'
<1>1. [Listener!Next]_(Listener!vars)
  BY DEF Scan!Next, Scan!vars, Scan!Start, Scan!Stop, Scan!Store, Scan!GiveUp,
     Scan!Pass, Scan!Open, Scan!From, Scan!Goto, Scan!Message,
     Listener!Next, Listener!vars, Listener!Start, Listener!Stop,
     Listener!Store, Listener!GiveUp, Listener!Pass, Listener!Open,
     Listener!From, Listener!Goto, Listener!Message
<1> QED
  BY <1>1, PartsAssumed, Listener!ScanNext

LEMMA ConsumerInit == Init => Consumer!IInv
<1> SUFFICES ASSUME Init PROVE Consumer!IInv
  OBVIOUS
<1>1. Consumer!Init
  BY DEF Init, Ledger!Init, Consumer!Init
<1> QED
  BY <1>1, PartsAssumed, Consumer!IInvInit

(* Both instances of the ledger take the same steps. *)
LEMMA SameSteps == [Ledger!Next]_(Ledger!vars) => [Consumer!Next]_(Consumer!vars)
<1>c. \A T : Ledger!Cardinality(T) = Consumer!Cardinality(T)
  BY DEF Ledger!Cardinality, Consumer!Cardinality
<1> QED
  BY <1>c DEF Ledger!Next, Ledger!vars, Ledger!serverVars, Ledger!processVars,
     Ledger!boundVars, Ledger!Messages, Ledger!stored, Ledger!created,
     Ledger!Mapped, Ledger!NewRows, Ledger!Keys, Ledger!Fits,
     Ledger!Insertable, Ledger!Copies, Ledger!Store, Ledger!Publish,
     Ledger!Deliver, Ledger!Redeliver, Ledger!AckWaitExpires,
     Ledger!Subscribe, Ledger!Take, Ledger!PersistOk, Ledger!PersistFails,
     Ledger!CommitAnswerLost, Ledger!Settle, Ledger!Ack, Ledger!Nak,
     Ledger!LoseAnswer, Ledger!Crash, Ledger!Consume,
     Consumer!Next, Consumer!vars, Consumer!serverVars, Consumer!processVars,
     Consumer!boundVars, Consumer!Messages, Consumer!stored,
     Consumer!created, Consumer!Mapped, Consumer!NewRows, Consumer!Keys,
     Consumer!Fits, Consumer!Insertable, Consumer!Copies, Consumer!Store,
     Consumer!Publish, Consumer!Deliver, Consumer!Redeliver,
     Consumer!AckWaitExpires, Consumer!Subscribe, Consumer!Take,
     Consumer!PersistOk, Consumer!PersistFails, Consumer!CommitAnswerLost,
     Consumer!Settle, Consumer!Ack, Consumer!Nak, Consumer!LoseAnswer,
     Consumer!Crash, Consumer!Consume

LEMMA ConsumerNext ==
  ASSUME Consumer!IInv, [Ledger!Next]_(Ledger!vars)
  PROVE  Consumer!IInv'
BY SameSteps, PartsAssumed, Consumer!IInvNext

-----------------------------------------------------------------------------
(* The system. *)

(* Every message of the block of message i comes from the collection msg.  *)
FromCollection(i, msg) ==
  \A j \in SameBlock(i) :
    /\ headers[j].total = Len(Chunk(msg))
    /\ headers[j].batch \in 1..Len(Chunk(msg))
    /\ stream[j] = Range(Chunk(msg)[headers[j].batch])

(***************************************************************************)
(* The ledger's messages are the listener's; the batches out of a block    *)
(* that is being published are of the collection at work; and of a block   *)
(* that is left all are of one collection, though other processes may have *)
(* published it from others.                                               *)
(***************************************************************************)
HeadersInv ==
  /\ headers \in Seq(Scan!ScanMessage)
  /\ Len(headers) = Len(stream)

CurrentInv ==
  total # 0 =>
    /\ next \in Blocks
    /\ events \in Collected[next] \ {<<>>}
    /\ total = Len(Chunk(events))
    /\ \A j \in 1..Len(headers) :
         headers[j].run = runs /\ headers[j].block = next =>
           /\ headers[j].total = total
           /\ headers[j].batch \in 1..total
           /\ stream[j] = Range(Chunk(events)[headers[j].batch])

CollectionInv ==
  \A i \in 1..Len(headers) :
    /\ headers[i].block \in Blocks
    /\ \E msg \in Collected[headers[i].block] : FromCollection(i, msg)

SystemInv ==
  /\ Listener!IInv
  /\ Consumer!IInv
  /\ HeadersInv
  /\ CurrentInv
  /\ CollectionInv
  /\ StreamAscends

(* What is known of the place of the listener, on the sequence of headers. *)
LEMMA Place ==
  ASSUME Listener!IInv, HeadersInv
  PROVE  /\ runs \in Nat /\ next \in Int \cup {NULL} /\ total \in Nat /\ sent \in Nat
         /\ next = NULL => total = 0
         /\ total = 0 => sent = 0
         /\ total # 0 => sent < total
         /\ NULL \notin Int
         /\ \A i \in 1..Len(headers) :
              /\ headers[i].run \in Nat /\ headers[i].run <= runs
              /\ headers[i].block \in Int
              /\ headers[i].batch \in Nat \ {0}
              /\ next # NULL => headers[i].block <= next
              /\ next # NULL /\ headers[i].run = runs =>
                   \/ headers[i].block < next
                   \/ headers[i].block = next /\ headers[i].batch <= sent
<1>1. \A i \in 1..Len(headers) : headers[i] \in Range(headers) /\ headers[i] \in Scan!ScanMessage
  BY DEF HeadersInv, Range
<1>2. Listener!TypeOK /\ Listener!PlaceInv /\ Listener!PublishOrder
  BY DEF Listener!IInv
<1>3. MaxRuns \in Nat /\ NULL \notin Int
  BY SystemAssumption DEF Scan!ScanAssumption
<1>4. /\ runs \in Nat /\ next \in Int \cup {NULL} /\ total \in Nat /\ sent \in Nat
  BY <1>2, <1>3 DEF Listener!TypeOK
<1>5. /\ next = NULL => total = 0
      /\ total = 0 => sent = 0
      /\ total # 0 => sent < total
      /\ \A m \in Range(headers) : m.run <= runs
      /\ next # NULL => \A m \in Range(headers) : m.block <= next
  BY <1>2 DEF Listener!PlaceInv
<1>6. \A m \in Range(headers) :
        m.run = runs /\ next # NULL =>
          m.block < next \/ (m.block = next /\ m.batch <= sent)
  BY <1>2 DEF Listener!PublishOrder
<1>7. \A i \in 1..Len(headers) :
        /\ headers[i].run \in Nat /\ headers[i].block \in Int
        /\ headers[i].batch \in Nat \ {0}
  BY <1>1 DEF Scan!ScanMessage
<1> QED
  BY <1>1, <1>3, <1>4, <1>5, <1>6, <1>7

(* Steps that store nothing. *)
LEMMA CollectionKept ==
  ASSUME CollectionInv, StreamAscends, HeadersInv, UNCHANGED <<headers, stream>>
  PROVE  CollectionInv' /\ StreamAscends' /\ HeadersInv'
BY DEF CollectionInv, StreamAscends, HeadersInv, FromCollection, SameBlock

LEMMA SystemInit == Init => SystemInv
<1> SUFFICES ASSUME Init PROVE SystemInv
  OBVIOUS
<1>1. headers = <<>> /\ stream = <<>> /\ total = 0
  BY DEF Init, Scan!Init, Ledger!Init
<1>2. HeadersInv /\ CurrentInv /\ CollectionInv /\ StreamAscends
  BY <1>1 DEF HeadersInv, CurrentInv, CollectionInv, StreamAscends
<1> QED
  BY <1>2, ListenerInit, ConsumerInit DEF SystemInv

(* A block's collection is one of those it may have, and makes batches.    *)
LEMMA Collection ==
  ASSUME NEW b \in Blocks, NEW msg \in Collected[b] \ {<<>>}
  PROVE  /\ msg \in Seq(Events) /\ msg # <<>>
         /\ Len(Chunk(msg)) \in Nat \ {0}
<1>1. msg \in Seq(Events) /\ msg # <<>>
  BY SystemAssumption
<1> QED
  BY <1>1, ChunkSizes

(* The batch published is one of events. *)
LEMMA BatchOfEvents ==
  ASSUME NEW msg \in Seq(Events), NEW k \in 1..Len(Chunk(msg))
  PROVE  Range(Chunk(msg)[k]) \subseteq Range(msg) /\ Range(msg) \subseteq Events
<1>1. Range(msg) = UNION {Range(Chunk(msg)[i]) : i \in 1..Len(Chunk(msg))}
  BY ChunkCovers
<1>2. Range(msg) \subseteq Events
  BY DEF Range
<1> QED
  BY <1>1, <1>2

(* Every step of the system is one of the scan, or a stutter. *)
LEMMA ScanStep == SystemInv /\ [Next]_vars => [Scan!Next]_(Scan!vars)
<1> SUFFICES ASSUME SystemInv, [Next]_vars PROVE [Scan!Next]_(Scan!vars)
  OBVIOUS
<1>1. CASE Scanning
  <2>1. CASE \E b \in 1..(LastBlock + 1) : Scan!Pass(b)
    <3>1. PICK b \in 1..(LastBlock + 1) : Scan!Pass(b)
      BY <2>1
    <3>2. next' = b /\ b \in Int
      BY <3>1 DEF Scan!Pass, Scan!Goto
    <3> QED
      BY <3>1, <3>2 DEF Scan!Next
  <2>2. CASE \E b \in Blocks : /\ events' \in Collected[b] \ {<<>>}
                              /\ Scan!Open(b, Len(Chunk(events')))
    <3>1. PICK b \in Blocks : /\ events' \in Collected[b] \ {<<>>}
                              /\ Scan!Open(b, Len(Chunk(events')))
      BY <2>2
    <3>2. Len(Chunk(events')) \in Nat \ {0}
      BY <3>1, Collection
    <3>3. next' = b /\ b \in Int /\ total' = Len(Chunk(events'))
      BY <3>1 DEF Scan!Open, Blocks
    <3> QED
      BY <3>1, <3>2, <3>3 DEF Scan!Next
  <2> QED
    BY <1>1, <2>1, <2>2 DEF Scanning, Scan!Next
<1>2. CASE Publish
  BY <1>2 DEF Publish, Scan!Next
<1>3. CASE Consume
  BY <1>3 DEF Consume, listenerVars, Scan!vars
<1>4. CASE UNCHANGED vars
  BY <1>4 DEF vars, listenerVars, Scan!vars
<1> QED
  BY <1>1, <1>2, <1>3, <1>4 DEF Next

(* Every step of the system is one of the ledger, or a stutter. *)
LEMMA LedgerStep == SystemInv /\ [Next]_vars => [Ledger!Next]_(Ledger!vars)
<1> SUFFICES ASSUME SystemInv, [Next]_vars PROVE [Ledger!Next]_(Ledger!vars)
  OBVIOUS
<1> USE DEF Ledger!vars, Ledger!serverVars, Ledger!processVars, Ledger!boundVars,
        ledgerVars
<1>1. CASE Scanning
  BY <1>1 DEF Scanning
<1>2. CASE Publish
  <2> DEFINE batch == Range(Chunk(events)[sent + 1])
  <2>1. total # 0 /\ Ledger!stored < NumMessages /\ Ledger!Store(batch)
    BY <1>2 DEF Publish
  <2>2. sent + 1 \in 1..total
    BY <2>1, Place DEF SystemInv
  <2>3. events \in Seq(Events) /\ total = Len(Chunk(events))
    BY <2>1, Collection DEF SystemInv, CurrentInv
  <2>4. batch \in SUBSET Events
    BY <2>2, <2>3, BatchOfEvents
  <2>5. Ledger!stored + 1 \in 1..NumMessages
    <3>1. Ledger!stored \in Nat
      BY DEF SystemInv, HeadersInv, Ledger!stored
    <3>2. NumMessages \in Nat
      BY SystemAssumption DEF Ledger!LedgerParameters
    <3> QED
      BY <2>1, <3>1, <3>2
  <2> HIDE DEF batch
  <2>6. Ledger!Publish
    BY <2>1, <2>4, <2>5 DEF Ledger!Publish
  <2> QED
    BY <2>6 DEF Ledger!Next
<1>3. CASE Consume
  BY <1>3 DEF Consume, Ledger!Next
<1>4. CASE UNCHANGED vars
  BY <1>4 DEF vars
<1> QED
  BY <1>1, <1>2, <1>3, <1>4 DEF Next

(* Only the listener adds messages. *)
LEMMA ConsumeKeepsStream == Ledger!Consume => UNCHANGED stream
BY DEF Ledger!Consume, Ledger!Deliver, Ledger!Redeliver,
   Ledger!AckWaitExpires, Ledger!Subscribe, Ledger!Take, Ledger!PersistOk,
   Ledger!PersistFails, Ledger!CommitAnswerLost, Ledger!Ack, Ledger!Nak,
   Ledger!LoseAnswer, Ledger!Crash, Ledger!serverVars

LEMMA ScanningKeeps ==
  ASSUME SystemInv, Scanning
  PROVE  HeadersInv' /\ CurrentInv' /\ CollectionInv' /\ StreamAscends'
<1>1. UNCHANGED <<headers, stream>>
  BY DEF Scanning, ledgerVars
<1>2. HeadersInv' /\ CollectionInv' /\ StreamAscends'
  BY <1>1, CollectionKept DEF SystemInv
<1>3. CASE total' = 0
  BY <1>2, <1>3 DEF CurrentInv
<1>4. CASE total' # 0
  <2>1. /\ NULL \notin Int /\ next \in Int \cup {NULL}
        /\ next = NULL => total = 0
        /\ total = 0 => sent = 0
        /\ \A i \in 1..Len(headers) :
             /\ headers[i].run \in Nat /\ headers[i].run <= runs
             /\ headers[i].block \in Int /\ headers[i].batch \in Nat \ {0}
             /\ next # NULL /\ headers[i].run = runs =>
                  \/ headers[i].block < next
                  \/ headers[i].block = next /\ headers[i].batch <= sent
    BY Place DEF SystemInv
  <2>2. PICK b \in Blocks : /\ events' \in Collected[b] \ {<<>>}
                            /\ Scan!Open(b, Len(Chunk(events')))
    BY <1>4, <2>1 DEF Scanning, Scan!Start, Scan!Stop, Scan!GiveUp, Scan!Pass, Scan!Goto
  <2>3. /\ total = 0 /\ next \in {b, NULL} /\ Scan!From(b)
        /\ next' = b /\ total' = Len(Chunk(events')) /\ runs' = runs
    BY <2>2 DEF Scan!Open
  <2>4. ASSUME NEW i \in 1..Len(headers), headers[i].run = runs, headers[i].block = b
        PROVE  FALSE
    <3>1. CASE next = NULL
      <4>1. headers[i] \in Range(headers)
        BY DEF SystemInv, HeadersInv, Range
      <4>2. headers[i].run < runs
        BY <2>3, <3>1, <4>1 DEF Scan!From
      <4> QED
        BY <2>4, <4>2, <2>1
    <3>2. CASE next # NULL
      BY <2>1, <2>3, <2>4, <3>2
    <3> QED
      BY <3>1, <3>2
  <2> QED
    BY <1>1, <1>2, <2>2, <2>3, <2>4 DEF CurrentInv
<1> QED
  BY <1>2, <1>3, <1>4

(* A message is stored: the next one of the block and collection at work.  *)
LEMMA PublishKeeps ==
  ASSUME SystemInv, Publish
  PROVE  HeadersInv' /\ CurrentInv' /\ CollectionInv' /\ StreamAscends'
<1> DEFINE n == Len(headers)
           m == Scan!Message
<1>0. HeadersInv /\ CurrentInv /\ CollectionInv /\ StreamAscends /\ Listener!IInv
  BY DEF SystemInv
<1>1. /\ total # 0 /\ headers' = Append(headers, m)
      /\ stream' = Append(stream, Range(Chunk(events)[sent + 1]))
      /\ events' = IF total' = 0 THEN <<>> ELSE events
      /\ runs' = runs
      /\ \/ sent + 1 < total /\ sent' = sent + 1 /\ UNCHANGED <<next, total>>
         \/ total' = 0
  BY DEF Publish, Ledger!Store, Scan!Store, Scan!Goto
<1>2. /\ runs \in Nat /\ next \in Int /\ total \in Nat /\ sent \in Nat /\ sent < total
      /\ \A i \in 1..n :
           /\ headers[i].run \in Nat /\ headers[i].run <= runs
           /\ headers[i].block \in Int /\ headers[i].block <= next
           /\ headers[i].batch \in Nat \ {0}
           /\ headers[i].run = runs =>
                \/ headers[i].block < next
                \/ headers[i].block = next /\ headers[i].batch <= sent
  BY <1>0, <1>1, Place
<1>3. /\ next \in Blocks /\ events \in Collected[next] /\ total = Len(Chunk(events))
      /\ \A j \in 1..n :
           headers[j].run = runs /\ headers[j].block = next =>
             /\ headers[j].total = total
             /\ headers[j].batch \in 1..total
             /\ stream[j] = Range(Chunk(events)[headers[j].batch])
  BY <1>0, <1>1 DEF CurrentInv
<1>4. /\ m.run = runs /\ m.block = next /\ m.batch = sent + 1 /\ m.total = total
      /\ m \in Scan!ScanMessage
  BY <1>2 DEF Scan!Message, Scan!ScanMessage
<1>5. n \in Nat /\ n = Len(stream) /\ headers \in Seq(Scan!ScanMessage)
  BY <1>0 DEF HeadersInv
<1>s. stream \in Seq(SUBSET Events)
  BY DEF SystemInv, Consumer!IInv, Consumer!TypeOK
<1> HIDE DEF n, m
<1>6. /\ Len(headers') = n + 1 /\ headers'[n + 1] = m
      /\ \A i \in 1..n : headers'[i] = headers[i]
      /\ headers' \in Seq(Scan!ScanMessage)
  BY <1>1, <1>4, <1>5 DEF n
<1>7. /\ Len(stream') = n + 1 /\ stream'[n + 1] = Range(Chunk(events)[sent + 1])
      /\ \A i \in 1..n : stream'[i] = stream[i]
  BY <1>1, <1>5, <1>s
<1>8. \A i \in 1..Len(headers') : i \in 1..n \/ i = n + 1
  BY <1>5, <1>6
<1>9. HeadersInv'
  BY <1>6, <1>7 DEF HeadersInv, Scan!ScanMessage
<1>10. ASSUME NEW j \in 1..Len(headers'),
              headers'[j].run = runs, headers'[j].block = next
       PROVE  /\ headers'[j].total = total
              /\ headers'[j].batch \in 1..total
              /\ stream'[j] = Range(Chunk(events)[headers'[j].batch])
  <2>1. CASE j \in 1..n
    BY <2>1, <1>3, <1>6, <1>7, <1>10
  <2>2. CASE j = n + 1
    BY <2>2, <1>2, <1>4, <1>6, <1>7
  <2> QED
    BY <1>8, <2>1, <2>2
<1>11. CurrentInv'
  BY <1>0, <1>1, <1>3, <1>10 DEF CurrentInv
<1>12. CollectionInv'
  <2> SUFFICES ASSUME NEW i \in 1..Len(headers')
               PROVE  /\ headers'[i].block \in Blocks
                      /\ \E msg \in Collected[headers'[i].block] : FromCollection(i, msg)'
    BY DEF CollectionInv
  <2>1. CASE headers'[i].run = runs /\ headers'[i].block = next
    <3>1. PICK msg \in Collected[next] : msg = events
      BY <1>3
    <3>2. FromCollection(i, msg)'
      <4>1. ASSUME NEW j \in SameBlock(i)'
            PROVE  /\ j \in 1..Len(headers')
                   /\ headers'[j].run = runs /\ headers'[j].block = next
        BY <2>1, <4>1 DEF SameBlock
      <4> QED
        BY <3>1, <4>1, <1>3, <1>10 DEF FromCollection
    <3> QED
      BY <2>1, <1>3, <3>1, <3>2
  <2>2. CASE ~(headers'[i].run = runs /\ headers'[i].block = next)
    <3>1. i \in 1..n
      BY <2>2, <1>4, <1>6, <1>8
    <3>2. PICK msg \in Collected[headers[i].block] : FromCollection(i, msg)
      BY <3>1, <1>0 DEF CollectionInv, n
    <3>3. headers'[i] = headers[i] /\ headers[i].block \in Blocks
      BY <3>1, <1>0, <1>6 DEF CollectionInv, n
    <3>4. ASSUME NEW j \in SameBlock(i)' PROVE j \in 1..n /\ j \in SameBlock(i)
      BY <2>2, <3>1, <3>3, <3>4, <1>4, <1>6, <1>8 DEF SameBlock, n
    <3>5. FromCollection(i, msg)'
      BY <3>2, <3>4, <1>6, <1>7 DEF FromCollection
    <3> QED
      BY <3>2, <3>3, <3>5
  <2> QED
    BY <2>1, <2>2
<1>13. StreamAscends'
  <2> SUFFICES ASSUME NEW i \in 1..Len(headers'), NEW j \in 1..Len(headers'), i < j
               PROVE  \/ /\ headers'[i].run < headers'[j].run
                         /\ headers'[i].block <= headers'[j].block
                      \/ /\ headers'[i].run = headers'[j].run
                         /\ headers'[i].block < headers'[j].block
                      \/ /\ headers'[i].run = headers'[j].run
                         /\ headers'[i].block = headers'[j].block
                         /\ headers'[i].batch < headers'[j].batch
    BY DEF StreamAscends
  <2>1. CASE j \in 1..n
    <3>1. i \in 1..n
      BY <2>1, <1>5, <1>8
    <3> QED
      BY <2>1, <3>1, <1>0, <1>6 DEF StreamAscends, n
  <2>2. CASE j = n + 1
    <3>1. i \in 1..n
      BY <2>2, <1>5, <1>8
    <3> QED
      BY <2>2, <3>1, <1>2, <1>4, <1>6
  <2> QED
    BY <1>8, <2>1, <2>2
<1> QED
  BY <1>9, <1>11, <1>12, <1>13

LEMMA SystemNext == SystemInv /\ [Next]_vars => SystemInv'
<1> SUFFICES ASSUME SystemInv, [Next]_vars PROVE SystemInv'
  OBVIOUS
<1>1. Listener!IInv' /\ Consumer!IInv'
  BY ScanStep, LedgerStep, ListenerNext, ConsumerNext DEF SystemInv
<1>2. HeadersInv' /\ CurrentInv' /\ CollectionInv' /\ StreamAscends'
  <2>1. CASE Scanning
    BY <2>1, ScanningKeeps
  <2>2. CASE Publish
    BY <2>2, PublishKeeps
  <2>3. CASE Consume \/ UNCHANGED vars
    <3>1. UNCHANGED <<listenerVars, stream>>
      BY <2>3, ConsumeKeepsStream DEF Consume, vars, ledgerVars
    <3>2. CurrentInv'
      BY <3>1 DEF listenerVars, SystemInv, CurrentInv
    <3> QED
      BY <3>1, <3>2, CollectionKept DEF listenerVars, SystemInv
  <2> QED
    BY <2>1, <2>2, <2>3 DEF Next
<1> QED
  BY <1>1, <1>2 DEF SystemInv

LEMMA SystemInvAlways == Spec => []SystemInv
BY SystemInit, SystemNext, PTL DEF Spec

-----------------------------------------------------------------------------
(* What holds of the system. *)

(* The listener of the system is the listener by itself: a message that is *)
(* stored is its next one, whatever the ledger does.                       *)
THEOREM SystemScans == Spec => Scan!Spec
<1>1. Init => Scan!Init
  BY DEF Init
<1>2. SystemInv /\ [Next]_vars => [Scan!Next]_(Scan!vars)
  BY ScanStep
<1> QED
  BY <1>1, <1>2, SystemInvAlways, PTL DEF Spec, Scan!Spec

(* The ledger of the system is the ledger by itself, offered whatever      *)
(* batches the listener makes.                                             *)
THEOREM SystemConsumes == Spec => Ledger!Spec
<1>1. Init => Ledger!Init
  BY DEF Init
<1>2. SystemInv /\ [Next]_vars => [Ledger!Next]_(Ledger!vars)
  BY LedgerStep
<1> QED
  BY <1>1, <1>2, SystemInvAlways, PTL DEF Spec, Ledger!Spec

(* The batches of a block are its events, in order, none lost or repeated, *)
(* and each is of a size the publisher's limit allows.                     *)
THEOREM ChunksWhole == Spec => []ChunkWhole
<1>1. SystemInv => ChunkWhole
  <2> SUFFICES ASSUME SystemInv, total # 0
               PROVE  /\ FlattenSeq(Chunk(events)) = events
                      /\ \A batch \in Range(Chunk(events)) : Len(batch) \in 1..BatchSize
    BY DEF ChunkWhole
  <2>1. events \in Seq(Events) /\ events # <<>>
    BY Collection DEF SystemInv, CurrentInv
  <2>2. FlattenSeq(Chunk(events)) = events
    BY <2>1, ChunkFlattens
  <2>3. \A batch \in Range(Chunk(events)) : Len(batch) \in 1..BatchSize
    <3>1. /\ Chunk(events) \in Seq(Seq(Events))
          /\ \A i \in 1..Len(Chunk(events)) : Len(Chunk(events)[i]) \in 1..BatchSize
      BY <2>1, ChunkSizes
    <3> QED
      BY <3>1 DEF Range
  <2> QED
    BY <2>2, <2>3
<1> QED
  BY <1>1, SystemInvAlways, PTL

(* The messages of the stream ascend by process, block and batch. *)
THEOREM StreamAscending == Spec => []StreamAscends
<1>1. SystemInv => StreamAscends
  BY DEF SystemInv
<1> QED
  BY <1>1, SystemInvAlways, PTL

(* The rows that came with the messages of a block that are all acked are  *)
(* those of one collection: every batch of it is among them, with all its  *)
(* events saved, and they hold nothing else.                               *)
LEMMA Arrival == SystemInv => BlockArrives
<1> SUFFICES ASSUME SystemInv, NEW i \in 1..Len(headers), BlockAcked(i)
             PROVE  \E msg \in Collected[headers[i].block] :
                      Range(msg) \ Unmappable
                        = {r.event : r \in {q \in rows : q.msg \in SameBlock(i)}}
  BY DEF BlockArrives
<1>1. PICK msg \in Collected[headers[i].block] : FromCollection(i, msg)
  BY DEF SystemInv, CollectionInv
<1>2. msg \in Seq(Events)
  <2>1. headers[i].block \in Blocks
    BY DEF SystemInv, CollectionInv
  <2> QED
    BY <2>1, SystemAssumption
<1>3. Range(msg) = UNION {Range(Chunk(msg)[k]) : k \in 1..Len(Chunk(msg))}
  BY <1>2, ChunkCovers
<1>4. i \in SameBlock(i) /\ headers[i].total = Len(Chunk(msg))
  BY <1>1 DEF SameBlock, FromCollection
<1>5. \A j \in SameBlock(i) :
        /\ headers[j].batch \in 1..Len(Chunk(msg))
        /\ stream[j] = Range(Chunk(msg)[headers[j].batch])
  BY <1>1 DEF FromCollection
<1>6. ASSUME NEW e \in Range(msg) \ Unmappable
      PROVE  e \in {r.event : r \in {q \in rows : q.msg \in SameBlock(i)}}
  <2>1. PICK k \in 1..Len(Chunk(msg)) : e \in Range(Chunk(msg)[k])
    BY <1>3
  <2>2. PICK j \in SameBlock(i) \cap acked : headers[j].batch = k
    BY <2>1, <1>4 DEF BlockAcked
  <2>3. [event |-> e, msg |-> j] \in Consumer!NewRows(j)
    BY <2>1, <2>2, <1>5 DEF Consumer!NewRows, Consumer!Mapped
  <2>4. [event |-> e, msg |-> j] \in rows
    BY <2>2, <2>3 DEF SystemInv, Consumer!IInv, Consumer!AckedPersisted
  <2> QED
    BY <2>2, <2>4
<1>7. ASSUME NEW r \in rows, r.msg \in SameBlock(i)
      PROVE  r.event \in Range(msg) \ Unmappable
  <2>1. r \in Consumer!NewRows(r.msg)
    BY DEF SystemInv, Consumer!IInv, Consumer!RowInv
  <2>2. r.event \in stream[r.msg] /\ r.event \notin Unmappable
    BY <2>1 DEF Consumer!NewRows, Consumer!Mapped
  <2> QED
    BY <2>2, <1>3, <1>5, <1>7
<1> QED
  BY <1>6, <1>7

(* A block's rows are what one collection of it found, once it is acked. *)
THEOREM BlocksArrive == Spec => []BlockArrives
BY Arrival, SystemInvAlways, PTL

(* The guarantees of the ledger, whatever its messages hold, are the       *)
(* system's.                                                               *)
THEOREM SystemLedger ==
  Spec => [](/\ Ledger!AckedPersisted /\ Ledger!WholeBatch
             /\ Ledger!NothingSkipped /\ Ledger!RefusedForReason)
<1> DEFINE Guarantees ==
      /\ Ledger!AckedPersisted /\ Ledger!WholeBatch
      /\ Ledger!NothingSkipped /\ Ledger!RefusedForReason
<1>1. SystemInv => Guarantees
  <2> SUFFICES ASSUME Consumer!IInv PROVE Guarantees
    BY DEF SystemInv
  <2>1. Consumer!RefusedForReason
    BY PartsAssumed, Consumer!Refusal
  <2>2. /\ Consumer!AckedPersisted /\ Consumer!WholeBatch
        /\ Consumer!NothingSkipped
    BY DEF Consumer!IInv
  <2> QED
    BY <2>1, <2>2 DEF Ledger!AckedPersisted, Ledger!WholeBatch,
       Ledger!NothingSkipped, Ledger!RefusedForReason, Ledger!NewRows,
       Ledger!Mapped, Ledger!stored, Ledger!created, Ledger!Fits,
       Ledger!Insertable, Ledger!Keys, Ledger!KeysOf, Ledger!Arrived,
       Ledger!Mixed, Consumer!AckedPersisted, Consumer!WholeBatch,
       Consumer!NothingSkipped, Consumer!RefusedForReason, Consumer!NewRows,
       Consumer!Mapped, Consumer!stored, Consumer!created, Consumer!Fits,
       Consumer!Insertable, Consumer!Keys, Consumer!KeysOf, Consumer!Arrived,
       Consumer!Mixed
<1> QED
  BY <1>1, SystemInvAlways, PTL

(* However often a block is published and delivered, an event has one row  *)
(* at most. *)
THEOREM EventsOnce == Spec => []Consumer!KeysUnique
<1>1. Init => Consumer!KeysUnique
  BY DEF Init, Ledger!Init, Consumer!KeysUnique
<1>2. SystemInv /\ Consumer!KeysUnique /\ [Next]_vars => Consumer!KeysUnique'
  BY LedgerStep, SameSteps, PartsAssumed, Consumer!KeysUniqueNext
<1> QED
  BY <1>1, <1>2, SystemInvAlways, PTL DEF Spec
=============================================================================
