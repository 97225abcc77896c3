------------------------- MODULE LogHandlerProofs -------------------------
(***************************************************************************)
(* Theorems about LogHandler, for every number of goroutines, buffers,     *)
(* handlers and lines.                                                     *)
(***************************************************************************)
EXTENDS LogHandler, SequenceTheorems, TLAPS

Part == Levels \cup STRING \cup Attrs

(* The line a call is to write, by the history of slog.With. *)
Expected(c) ==
  <<c.record.level>> \o withs[c.handler] \o <<c.record.msg>> \o c.record.attrs

(* The tree of handlers: attributes are those of the With calls, the level *)
(* is the root's.                                                          *)
TreeInv ==
  /\ Len(handlers) \in Nat \ {0}
  /\ \A h \in Handlers : handlers[h].attrs = withs[h] /\ handlers[h].level = Level

(* A goroutine owns its buffer from Get to Put. *)
OwnInv ==
  /\ \A g \in Goroutines :
       IF pc[g] = "idle"
       THEN bp[g] = NULL
       ELSE /\ bp[g] \in Buffers \ pool
            /\ call[g] \in Call
            /\ Rank[call[g].record.level] >= Rank[Level]
  /\ \A f, g \in Goroutines : f # g /\ pc[f] # "idle" => bp[f] # bp[g]

(* What is in the buffer at each step. *)
BufferInv ==
  \A g \in Goroutines :
    /\ pc[g] = "format" => mem[bp[g]] = <<>>
    /\ pc[g] \in {"lock", "write"} => mem[bp[g]] = Expected(call[g])

(* A goroutine holds the mutex while it writes. *)
LockInv ==
  \A g \in Goroutines : pc[g] \in {"write", "unlock"} => mu[call[g].handler] = g

IInv == TypeOK /\ TreeInv /\ OwnInv /\ BufferInv /\ LockInv /\ LinesIntact

-----------------------------------------------------------------------------
(* The line Handle builds is the expected one, and a sequence of parts. *)
LEMMA LineExpected ==
  ASSUME TypeOK, TreeInv, NEW c \in Call
  PROVE  Line(c) = Expected(c) /\ Line(c) \in Seq(Part)
<1>1. c.handler \in Handlers /\ c.record \in Records
  BY DEF Call
<1>2. c.record \in [level : Levels, msg : STRING, attrs : Seq(Attrs)]
  BY <1>1, LogAssumption
<1>3. withs[c.handler] \in Seq(Attrs)
  BY <1>1 DEF TypeOK, Handlers
<1>4. Seq(Attrs) \subseteq Seq(Part)
  BY DEF Part
<1>5. /\ <<c.record.level>> \in Seq(Part)
      /\ <<c.record.msg>> \in Seq(Part)
      /\ c.record.attrs \in Seq(Part)
      /\ withs[c.handler] \in Seq(Part)
  BY <1>2, <1>3, <1>4 DEF Part
<1>6. Line(c) = Expected(c)
  BY <1>1 DEF Line, Expected, TreeInv
<1>7. Expected(c) \in Seq(Part)
  BY <1>5 DEF Expected
<1> QED
  BY <1>6, <1>7

LEMMA IInvInit == Init => IInv
<1> SUFFICES ASSUME Init PROVE IInv
  OBVIOUS
<1> USE LogAssumption
<1>1. TypeOK
  <2>1. handlers \in Seq(Handler) /\ Len(handlers) = 1
    BY DEF Init, Handler
  <2>2. mu \in Seq(Goroutines \cup {NULL}) /\ Len(mu) = 1
    BY DEF Init
  <2>3. withs \in Seq(Seq(Attrs)) /\ Len(withs) = 1
    BY DEF Init
  <2> QED
    BY <2>1, <2>2, <2>3 DEF Init, TypeOK
<1>2. TreeInv
  BY DEF Init, TreeInv, Handlers
<1>3. OwnInv /\ BufferInv /\ LockInv /\ LinesIntact
  BY DEF Init, OwnInv, BufferInv, LockInv, LinesIntact
<1> QED
  BY <1>1, <1>2, <1>3 DEF IInv

(* A new handler leaves the older ones alone. *)
LEMMA WithAttrsStep ==
  ASSUME IInv, NEW h \in Handlers, NEW a \in Attrs, WithAttrs(h, a)
  PROVE  IInv'
<1>0. TypeOK /\ TreeInv /\ OwnInv /\ BufferInv /\ LockInv /\ LinesIntact
  BY DEF IInv
<1> USE LogAssumption DEF lines, Derive, WithAttrs
<1>1. /\ Len(handlers') = Len(handlers) + 1
      /\ Handlers = 1..Len(handlers)
      /\ Handlers' = 1..(Len(handlers) + 1)
      /\ \A i \in Handlers : handlers'[i] = handlers[i]
      /\ handlers'[Len(handlers) + 1] =
           [level |-> handlers[h].level, attrs |-> Append(handlers[h].attrs, a)]
      /\ handlers' \in Seq(Handler)
  BY <1>0 DEF TypeOK, TreeInv, Handlers, Handler
<1>2. withs[h] \in Seq(Attrs) /\ h \in DOMAIN withs
  BY <1>0, <1>1 DEF TypeOK
<1>3. /\ withs' \in Seq(Seq(Attrs)) /\ Len(withs') = Len(handlers')
      /\ mu' \in Seq(Goroutines \cup {NULL}) /\ Len(mu') = Len(handlers')
      /\ \A i \in Handlers : withs'[i] = withs[i] /\ mu'[i] = mu[i]
      /\ withs'[Len(handlers) + 1] = Append(withs[h], a)
  BY <1>0, <1>1, <1>2 DEF TypeOK
<1>4. Call \subseteq Call'
  BY <1>1 DEF Call
<1>5. \A c \in Call : Expected(c)' = Expected(c)
  BY <1>3 DEF Expected, Call
<1>6. TypeOK'
  <2>1. \A w \in written : w.call \in Call'
    BY <1>0, <1>4 DEF TypeOK
  <2>2. call' \in [Goroutines -> Call' \cup {NULL}]
    BY <1>0, <1>4 DEF TypeOK
  <2> QED
    BY <1>0, <1>1, <1>3, <2>1, <2>2 DEF TypeOK
<1>7. TreeInv'
  <2> HIDE DEF WithAttrs, Derive
  <2>1. ASSUME NEW i \in Handlers
        PROVE  handlers'[i].attrs = withs'[i] /\ handlers'[i].level = Level
    <3>1. handlers[i].attrs = withs[i] /\ handlers[i].level = Level
      BY <1>0 DEF TreeInv
    <3>2. handlers'[i] = handlers[i] /\ withs'[i] = withs[i]
      BY <1>1, <1>3
    <3> QED
      BY <3>1, <3>2
  <2>2. ASSUME NEW i, i = Len(handlers) + 1
        PROVE  handlers'[i].attrs = withs'[i] /\ handlers'[i].level = Level
    <3>1. handlers[h].attrs = withs[h] /\ handlers[h].level = Level
      BY <1>0 DEF TreeInv
    <3>2. handlers'[i] =
            [level |-> handlers[h].level, attrs |-> Append(handlers[h].attrs, a)]
      BY <1>1, <2>2
    <3>3. withs'[i] = Append(withs[h], a)
      BY <1>3, <2>2
    <3> QED
      BY <3>1, <3>2, <3>3
  <2>3. Len(handlers') \in Nat \ {0}
    BY <1>0, <1>1 DEF TreeInv
  <2>4. \A i \in Handlers' : i \in Handlers \/ i = Len(handlers) + 1
    BY <1>0, <1>1 DEF TreeInv
  <2> QED
    BY <2>1, <2>2, <2>3, <2>4 DEF TreeInv
<1>8. OwnInv'
  BY <1>0, <1>4 DEF OwnInv
<1>9. BufferInv'
  <2> SUFFICES ASSUME NEW g \in Goroutines
               PROVE  /\ pc[g] = "format" => mem[bp[g]] = <<>>
                      /\ pc[g] \in {"lock", "write"} =>
                           mem[bp[g]] = Expected(call[g])'
    BY DEF BufferInv
  <2>1. pc[g] \in {"lock", "write"} => call[g] \in Call /\ call' = call
    BY <1>0 DEF OwnInv
  <2>2. pc[g] \in {"lock", "write"} => Expected(call[g])' = Expected(call[g])
    BY <2>1, <1>3 DEF Expected, Call
  <2> QED
    BY <2>2, <1>0 DEF BufferInv
<1>10. LockInv'
  BY <1>0, <1>3 DEF LockInv, OwnInv, Call
<1>11. LinesIntact'
  BY <1>0, <1>3 DEF LinesIntact, TypeOK, Call
<1> QED
  BY <1>6, <1>7, <1>8, <1>9, <1>10, <1>11 DEF IInv

LEMMA BeginStep ==
  ASSUME IInv, NEW g \in Goroutines, NEW h \in Handlers, NEW r \in Records,
         Begin(g, h, r)
  PROVE  IInv'
<1>0. TypeOK /\ TreeInv /\ OwnInv /\ BufferInv /\ LockInv /\ LinesIntact
  BY DEF IInv
<1> USE LogAssumption DEF tree, Goto
<1>1. PICK b \in Buffers :
        /\ b \in pool \/ \A other \in Goroutines : bp[other] # b
        /\ bp' = [bp EXCEPT ![g] = b]
        /\ pool' = pool \ {b}
        /\ mem' = [mem EXCEPT ![b] = <<>>]
  BY DEF Begin
<1>2. [handler |-> h, record |-> r] \in Call /\ Call' = Call
  BY DEF Call, Begin, Handlers
<1>3. TypeOK'
  BY <1>0, <1>1, <1>2 DEF Begin, TypeOK, Handlers
<1>4. TreeInv'
  BY <1>0 DEF Begin, TreeInv, Handlers
<1>5. \A f \in Goroutines : bp[f] # b
  BY <1>0, <1>1 DEF OwnInv
<1>6. OwnInv'
  BY <1>0, <1>1, <1>2, <1>5 DEF Begin, OwnInv, TypeOK, Enabled, TreeInv
<1>7. BufferInv'
  BY <1>0, <1>1, <1>5 DEF Begin, BufferInv, OwnInv, TypeOK, Expected
<1>8. LockInv'
  BY <1>0 DEF Begin, LockInv, TypeOK
<1>9. LinesIntact'
  BY <1>0 DEF Begin, LinesIntact
<1> QED
  BY <1>3, <1>4, <1>6, <1>7, <1>8, <1>9 DEF IInv

LEMMA FormatStep ==
  ASSUME IInv, NEW g \in Goroutines, Format(g)
  PROVE  IInv'
<1>0. TypeOK /\ TreeInv /\ OwnInv /\ BufferInv /\ LockInv /\ LinesIntact
  BY DEF IInv
<1> USE LogAssumption DEF tree, lines, Goto, Format, FillBuffer
<1>1. call[g] \in Call /\ bp[g] \in Buffers /\ mem[bp[g]] = <<>>
  BY <1>0 DEF OwnInv, BufferInv
<1>2. mem'[bp[g]] = Expected(call[g])
  <2>1. Line(call[g]) = Expected(call[g]) /\ Line(call[g]) \in Seq(Part)
    BY <1>0, <1>1, LineExpected
  <2>2. mem'[bp[g]] = <<>> \o Line(call[g])
    BY <1>0, <1>1 DEF TypeOK
  <2> QED
    BY <2>1, <2>2, ConcatEmptySeq
<1>3. TypeOK'
  BY <1>0 DEF TypeOK, Handlers, Call
<1>4. TreeInv'
  BY <1>0 DEF TreeInv, Handlers
<1>5. OwnInv'
  BY <1>0 DEF OwnInv, TypeOK, Call, Handlers
<1>6. BufferInv'
  <2> SUFFICES ASSUME NEW f \in Goroutines
               PROVE  /\ pc'[f] = "format" => mem'[bp[f]] = <<>>
                      /\ pc'[f] \in {"lock", "write"} =>
                           mem'[bp[f]] = Expected(call[f])
    BY DEF BufferInv, Expected
  <2>1. CASE f = g
    BY <2>1, <1>0, <1>2 DEF TypeOK
  <2>2. CASE f # g
    <3>1. mem'[bp[f]] = mem[bp[f]] \/ pc[f] = "idle"
      BY <2>2, <1>0, <1>1 DEF OwnInv, TypeOK
    <3>2. pc'[f] = pc[f]
      BY <2>2, <1>0 DEF TypeOK
    <3> QED
      BY <3>1, <3>2, <1>0 DEF BufferInv
  <2> QED
    BY <2>1, <2>2
<1>7. LockInv' /\ LinesIntact'
  BY <1>0 DEF LockInv, LinesIntact, TypeOK
<1> QED
  BY <1>3, <1>4, <1>5, <1>6, <1>7 DEF IInv

LEMMA IInvNext == IInv /\ [Next]_vars => IInv'
<1> SUFFICES ASSUME IInv, [Next]_vars PROVE IInv'
  OBVIOUS
<1>0. TypeOK /\ TreeInv /\ OwnInv /\ BufferInv /\ LockInv /\ LinesIntact
  BY DEF IInv
<1> USE LogAssumption DEF tree, lines, Goto
<1>1. ASSUME NEW g \in Goroutines, Lock(g) PROVE IInv'
  <2> USE <1>1 DEF Lock, EnterWrite
  <2>1. call[g] \in Call /\ call[g].handler \in Handlers
    BY <1>0 DEF OwnInv, Call
  <2>2. TypeOK' /\ TreeInv'
    BY <1>0, <2>1 DEF TypeOK, TreeInv, Handlers, Call
  <2>3. OwnInv' /\ BufferInv'
    BY <1>0 DEF OwnInv, BufferInv, TypeOK, Call, Handlers, Expected
  <2>4. LockInv'
    <3> SUFFICES ASSUME NEW f \in Goroutines, pc'[f] \in {"write", "unlock"}
                 PROVE  mu'[call[f].handler] = f
      BY DEF LockInv
    <3>1. CASE f = g
      <4>1. call[g].handler \in DOMAIN mu
        BY <2>1, <1>0 DEF TypeOK, Handlers
      <4>2. mu' = [mu EXCEPT ![call[g].handler] = g]
        OBVIOUS
      <4> HIDE DEF Lock, EnterWrite
      <4> QED
        BY <3>1, <4>1, <4>2, Zenon
    <3>2. CASE f # g
      <4>1. pc[f] \in {"write", "unlock"} /\ mu[call[f].handler] = f
        BY <3>2, <1>0 DEF TypeOK, LockInv
      <4>2. call[f].handler # call[g].handler
        BY <4>1
      <4>3. call[f].handler \in DOMAIN mu
        BY <4>1, <1>0 DEF TypeOK, OwnInv, Call, Handlers
      <4>4. mu' = [mu EXCEPT ![call[g].handler] = g]
        OBVIOUS
      <4>5. mu'[call[f].handler] = mu[call[f].handler]
        <5> HIDE DEF Lock, EnterWrite
        <5> QED
          BY <4>2, <4>3, <4>4, Zenon
      <4> QED
        BY <4>1, <4>5
    <3> QED
      BY <3>1, <3>2
  <2>5. LinesIntact'
    BY <1>0 DEF LinesIntact
  <2> QED
    BY <2>2, <2>3, <2>4, <2>5 DEF IInv
<1>2. ASSUME NEW g \in Goroutines, WriteOk(g) PROVE IInv'
  <2> USE <1>2 DEF WriteOk
  <2>1. call[g] \in Call /\ mem[bp[g]] = Expected(call[g])
        /\ Rank[call[g].record.level] >= Rank[Level]
    BY <1>0 DEF OwnInv, BufferInv
  <2>2. TypeOK' /\ TreeInv'
    BY <1>0, <2>1 DEF TypeOK, TreeInv, Handlers, Call
  <2>3. OwnInv' /\ BufferInv' /\ LockInv'
    BY <1>0 DEF OwnInv, BufferInv, LockInv, TypeOK, Call, Handlers, Expected
  <2>4. LinesIntact'
    <3> SUFFICES ASSUME NEW w \in written'
                 PROVE  /\ w.line = Expected(w.call)
                        /\ Rank[w.call.record.level] >= Rank[Level]
      BY DEF LinesIntact, Expected
    <3>1. CASE w \in written
      BY <3>1, <1>0 DEF LinesIntact, Expected
    <3>2. CASE w = [call |-> call[g], line |-> mem[bp[g]]]
      BY <3>2, <2>1
    <3> QED
      BY <3>1, <3>2
  <2> QED
    BY <2>2, <2>3, <2>4 DEF IInv
<1>3. ASSUME NEW g \in Goroutines, WriteFails(g) PROVE IInv'
  <2> USE <1>3 DEF WriteFails
  <2>1. TypeOK' /\ TreeInv'
    BY <1>0 DEF TypeOK, TreeInv, Handlers, Call
  <2>2. OwnInv' /\ BufferInv' /\ LockInv' /\ LinesIntact'
    BY <1>0 DEF OwnInv, BufferInv, LockInv, TypeOK, Call, Handlers, Expected,
       LinesIntact
  <2> QED
    BY <2>1, <2>2 DEF IInv
<1>4. ASSUME NEW g \in Goroutines, Unlock(g) PROVE IInv'
  <2> USE <1>4 DEF Unlock
  <2>1. call[g] \in Call /\ call[g].handler \in Handlers
        /\ mu[call[g].handler] = g
    BY <1>0 DEF OwnInv, Call, LockInv
  <2>2. TypeOK' /\ TreeInv'
    BY <1>0, <2>1 DEF TypeOK, TreeInv, Handlers, Call
  <2>3. OwnInv' /\ BufferInv' /\ LinesIntact'
    BY <1>0 DEF OwnInv, BufferInv, TypeOK, Call, Handlers, Expected, LinesIntact
  <2>4. LockInv'
    BY <1>0, <2>1 DEF LockInv, TypeOK
  <2> QED
    BY <2>2, <2>3, <2>4 DEF IInv
<1>5. ASSUME NEW g \in Goroutines, Put(g) PROVE IInv'
  <2> USE <1>5 DEF Put, Return
  <2>1. TypeOK' /\ TreeInv'
    BY <1>0 DEF TypeOK, TreeInv, OwnInv, Handlers, Call
  <2>2. OwnInv'
    BY <1>0 DEF OwnInv, TypeOK, Call, Handlers
  <2>3. BufferInv' /\ LockInv' /\ LinesIntact'
    BY <1>0 DEF BufferInv, LockInv, TypeOK, Expected, LinesIntact
  <2> QED
    BY <2>1, <2>2, <2>3 DEF IInv
<1>6. CASE PoolDrops
  BY <1>6, <1>0 DEF PoolDrops, IInv, TypeOK, TreeInv, OwnInv, BufferInv,
     LockInv, LinesIntact, Handlers, Call, Expected
<1>7. CASE UNCHANGED vars
  BY <1>7, <1>0 DEF vars, IInv, TypeOK, TreeInv, OwnInv, BufferInv, LockInv,
     LinesIntact, Handlers, Call, Expected
<1> QED
  BY <1>1, <1>2, <1>3, <1>4, <1>5, <1>6, <1>7, WithAttrsStep, BeginStep,
     FormatStep DEF Next, Handle

(* The invariant holds in every reachable state. *)
LEMMA IInvAlways == Spec => []IInv
BY IInvInit, IInvNext, PTL DEF Spec

(* Handlers, mutexes, buffers and calls keep their types. *)
THEOREM LogTypeCorrect == Spec => []TypeOK
<1>1. IInv => TypeOK
  BY DEF IInv
<1> QED
  BY <1>1, IInvAlways, PTL

(* No line that reaches the writer mixes records or loses attributes. *)
THEOREM LogLines == Spec => []LinesIntact
<1>1. IInv => LinesIntact
  BY DEF IInv
<1> QED
  BY <1>1, IInvAlways, PTL

(* Two goroutines never write through one handler at once. *)
THEOREM LogExclusion == Spec => []WritesExclusive
<1>1. IInv => WritesExclusive
  <2> SUFFICES ASSUME LockInv PROVE WritesExclusive
    BY DEF IInv
  <2> QED
    BY DEF LockInv, WritesExclusive
<1> QED
  BY <1>1, IInvAlways, PTL

-----------------------------------------------------------------------------
(* The mutexes. *)

(* A step that touches no mutex and leaves its holders where they are, or  *)
(* moves them from the write to the unlock. *)
LEMMA HoldersKept ==
  ASSUME IInv, NeverLeftLocked, UNCHANGED <<handlers, mu>>,
         \A g \in Goroutines : pc[g] \in {"write", "unlock"} =>
           pc'[g] \in {"write", "unlock"} /\ call'[g] = call[g]
  PROVE  NeverLeftLocked'
<1>1. \A h \in Handlers : mu[h] \in Goroutines \cup {NULL}
  BY DEF IInv, TypeOK, Handlers
<1> QED
  BY <1>1 DEF NeverLeftLocked, Handlers

LEMMA LeftLockedNext ==
  ASSUME IInv, NeverLeftLocked, [Next]_vars
  PROVE  NeverLeftLocked'
<1>0. /\ pc \in [Goroutines -> {"idle", "format", "lock", "write", "unlock", "put"}]
      /\ call \in [Goroutines -> Call \cup {NULL}]
      /\ mu \in Seq(Goroutines \cup {NULL}) /\ Len(mu) = Len(handlers)
      /\ handlers \in Seq(Handler)
      /\ NULL \notin Goroutines
  BY LogAssumption DEF IInv, TypeOK
<1>1. \A h \in Handlers : mu[h] # NULL =>
        /\ mu[h] \in Goroutines
        /\ pc[mu[h]] \in {"write", "unlock"} /\ call[mu[h]].handler = h
  BY <1>0 DEF NeverLeftLocked, Handlers
<1> USE DEF tree, lines, Goto
<1>2. ASSUME NEW h \in Handlers, NEW a \in Attrs, WithAttrs(h, a)
      PROVE  NeverLeftLocked'
  <2>1. /\ Handlers' = 1..(Len(handlers) + 1) /\ Handlers = 1..Len(handlers)
        /\ \A i \in Handlers : mu'[i] = mu[i]
        /\ mu'[Len(handlers) + 1] = NULL
    BY <1>0, <1>2 DEF WithAttrs, Derive, Handlers
  <2>2. \A i \in Handlers' : i \in Handlers \/ i = Len(handlers) + 1
    BY <2>1, <1>0
  <2> QED
    BY <1>1, <1>2, <2>1, <2>2 DEF WithAttrs, Derive, NeverLeftLocked
<1>3. ASSUME NEW g \in Goroutines, NEW h \in Handlers, NEW r \in Records, Begin(g, h, r)
      PROVE  NeverLeftLocked'
  BY <1>0, <1>3, HoldersKept DEF Begin
<1>4. ASSUME NEW g \in Goroutines, Format(g) PROVE NeverLeftLocked'
  BY <1>0, <1>4, HoldersKept DEF Format, FillBuffer
<1>5. ASSUME NEW g \in Goroutines, Lock(g) PROVE NeverLeftLocked'
  <2>1. /\ pc[g] = "lock" /\ mu[call[g].handler] = NULL
        /\ mu' = [mu EXCEPT ![call[g].handler] = g]
        /\ pc' = [pc EXCEPT ![g] = "write"] /\ UNCHANGED <<handlers, call>>
    BY <1>5 DEF Lock, EnterWrite
  <2> SUFFICES ASSUME NEW h \in Handlers, mu'[h] # NULL
               PROVE  /\ pc'[mu'[h]] \in {"write", "unlock"}
                      /\ call[mu'[h]].handler = h
    BY <2>1 DEF NeverLeftLocked, Handlers
  <2>2. CASE h = call[g].handler
    BY <1>0, <2>1, <2>2 DEF Handlers
  <2>3. CASE h # call[g].handler
    <3>1. mu'[h] = mu[h] /\ mu[h] # NULL
      BY <1>0, <2>1, <2>3 DEF Handlers
    <3>2. mu[h] # g
      BY <1>1, <2>1, <3>1
    <3> QED
      BY <1>0, <1>1, <2>1, <3>1, <3>2
  <2> QED
    BY <2>2, <2>3
<1>6. ASSUME NEW g \in Goroutines, WriteOk(g) \/ WriteFails(g) PROVE NeverLeftLocked'
  BY <1>0, <1>6, HoldersKept DEF WriteOk, WriteFails
<1>7. ASSUME NEW g \in Goroutines, Unlock(g) PROVE NeverLeftLocked'
  <2>1. /\ mu' = [mu EXCEPT ![call[g].handler] = NULL]
        /\ pc' = [pc EXCEPT ![g] = "put"] /\ UNCHANGED <<handlers, call>>
    BY <1>7 DEF Unlock
  <2> SUFFICES ASSUME NEW h \in Handlers, mu'[h] # NULL
               PROVE  /\ pc'[mu'[h]] \in {"write", "unlock"}
                      /\ call[mu'[h]].handler = h
    BY <2>1 DEF NeverLeftLocked, Handlers
  <2>2. h # call[g].handler
    BY <1>0, <2>1 DEF Handlers
  <2>3. mu'[h] = mu[h] /\ mu[h] # NULL
    BY <1>0, <2>1, <2>2 DEF Handlers
  <2>4. mu[h] # g
    BY <1>1, <2>2, <2>3
  <2> QED
    BY <1>0, <1>1, <2>1, <2>3, <2>4
<1>8. ASSUME NEW g \in Goroutines, Put(g) PROVE NeverLeftLocked'
  BY <1>0, <1>8, HoldersKept DEF Put, Return
<1>9. CASE PoolDrops \/ UNCHANGED vars
  BY <1>9, HoldersKept DEF PoolDrops, vars
<1> QED
  BY <1>2, <1>3, <1>4, <1>5, <1>6, <1>7, <1>8, <1>9 DEF Next, Handle

(* A goroutine that waits for a mutex waits for one that is writing or     *)
(* unlocking, and itself has none: no circle of waiting calls can arise.   *)
THEOREM LogNeverLeftLocked == Spec => []NeverLeftLocked
<1>1. Init => NeverLeftLocked
  BY DEF Init, NeverLeftLocked, Handlers
<1>2. IInv /\ NeverLeftLocked /\ [Next]_vars => (IInv /\ NeverLeftLocked)'
  BY IInvNext, LeftLockedNext
<1> QED
  BY <1>1, <1>2, IInvInit, PTL DEF Spec
=============================================================================
