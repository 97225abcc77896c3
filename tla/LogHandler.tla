---------------------------- MODULE LogHandler ----------------------------
(***************************************************************************)
(* The slog handler of the listener: the goroutines of the process (main,  *)
(* Run, the callbacks of the NATS client) log through handlers that are    *)
(* derived from one root by slog.With.  A line is formatted in a buffer of *)
(* a shared pool and written under the mutex of the handler it came        *)
(* through.                                                                *)
(*                                                                         *)
(* A line is a sequence of parts: the level (with the time), attributes,   *)
(* the message.  The bytes of a part are left out.                         *)
(***************************************************************************)
EXTENDS Integers, Sequences

CONSTANTS
  Goroutines,
  Records,       \* the records logged: a level, a message, attributes
  Attrs,         \* attributes given to slog.With
  Level,         \* the level of the root handler
  Buffers,       \* the buffers bufPool ever makes
  MaxHandlers,   \* bound: handlers, the root included
  MaxCalls,      \* bound: calls of Handle
  NULL

Levels == {"DEBUG", "INFO", "WARN", "ERROR"}

Rank == [DEBUG |-> -4, INFO |-> 0, WARN |-> 4, ERROR |-> 8]

ASSUME LogAssumption ==
  /\ Records \subseteq [level : Levels, msg : STRING, attrs : Seq(Attrs)]
  /\ Level \in Levels
  /\ MaxHandlers \in Nat \ {0}
  /\ MaxCalls \in Nat
  /\ NULL \notin Goroutines \cup Buffers

VARIABLES
  handlers,  \* the handlers made so far: level and attributes
  mu,        \* the goroutine that holds the mutex of each handler
  pool,      \* buffers in bufPool
  mem,       \* what is in each buffer
  written,   \* the lines that reached the writer, and the calls they are of
  pc,        \* what each goroutine is at
  call,      \* its call of Handle: the handler and the record
  bp,        \* its buffer
  withs,     \* history: the arguments of slog.With that led to each handler
  calls      \* bound: calls of Handle so far

tree == <<handlers, withs>>
lines == <<written, calls>>
vars == <<tree, mu, pool, mem, pc, call, bp, lines>>

-----------------------------------------------------------------------------
Handlers == DOMAIN handlers

Enabled(h, r) == Rank[r.level] >= Rank[handlers[h].level]

(* What Handle appends to the buffer. *)
Line(c) ==
  <<c.record.level>> \o handlers[c.handler].attrs \o <<c.record.msg>>
    \o c.record.attrs

Goto(g, label) == pc' = [pc EXCEPT ![g] = label]

-----------------------------------------------------------------------------
(* slog.With: a new handler with these attributes, the level and the       *)
(* writer of the old one, and a mutex of its own.                          *)
Derive(h, a, attrs) ==
  /\ Len(handlers) < MaxHandlers
  /\ handlers' = Append(handlers, [level |-> handlers[h].level, attrs |-> attrs])
  /\ withs' = Append(withs, Append(withs[h], a))
  /\ UNCHANGED <<pool, mem, pc, call, bp, lines>>

(* Mutant: the derived handler has no mutex. *)
WithAttrs_NoMutex(h, a) ==
  Derive(h, a, Append(handlers[h].attrs, a)) /\ UNCHANGED mu

WithAttrs(h, a) ==
  Derive(h, a, Append(handlers[h].attrs, a)) /\ mu' = Append(mu, NULL)

(* A record of an enabled level: a buffer from the pool, or a new one.     *)
Begin(g, h, r) ==
  /\ pc[g] = "idle"
  /\ Enabled(h, r)
  /\ calls < MaxCalls
  /\ calls' = calls + 1
  /\ \E b \in Buffers :
       /\ b \in pool \/ \A other \in Goroutines : bp[other] # b
       /\ bp' = [bp EXCEPT ![g] = b]
       /\ pool' = pool \ {b}
       /\ mem' = [mem EXCEPT ![b] = <<>>]
  /\ call' = [call EXCEPT ![g] = [handler |-> h, record |-> r]]
  /\ Goto(g, "format")
  /\ UNCHANGED <<tree, mu, written>>

FillBuffer(g) ==
  /\ pc[g] = "format"
  /\ mem' = [mem EXCEPT ![bp[g]] = @ \o Line(call[g])]
  /\ Goto(g, "lock")
  /\ UNCHANGED <<tree, mu, call, bp, lines>>

(* Mutant: the buffer goes back before the line is written from it. *)
Format_Puts(g) == FillBuffer(g) /\ pool' = pool \cup {bp[g]}

Format(g) == FillBuffer(g) /\ UNCHANGED pool

EnterWrite(g) ==
  /\ pc[g] = "lock"
  /\ mu' = [mu EXCEPT ![call[g].handler] = g]
  /\ Goto(g, "write")
  /\ UNCHANGED <<tree, pool, mem, call, bp, lines>>

(* Mutant: a handler is passed by value, and its mutex with it. *)
Lock_Copied(g) == EnterWrite(g)

Lock(g) == EnterWrite(g) /\ mu[call[g].handler] = NULL

WriteOk(g) ==
  /\ pc[g] = "write"
  /\ written' = written \cup {[call |-> call[g], line |-> mem[bp[g]]]}
  /\ Goto(g, "unlock")
  /\ UNCHANGED <<tree, mu, pool, mem, call, bp, calls>>

Return(g) ==
  /\ bp' = [bp EXCEPT ![g] = NULL]
  /\ call' = [call EXCEPT ![g] = NULL]
  /\ Goto(g, "idle")
  /\ UNCHANGED <<tree, mu, mem, lines>>

(* Mutant: a failed write returns at once. *)
WriteFails_Returns(g) == pc[g] = "write" /\ Return(g) /\ UNCHANGED pool

WriteFails(g) ==
  /\ pc[g] = "write"
  /\ Goto(g, "unlock")
  /\ UNCHANGED <<tree, mu, pool, mem, call, bp, lines>>

Unlock(g) ==
  /\ pc[g] = "unlock"
  /\ mu' = [mu EXCEPT ![call[g].handler] = NULL]
  /\ Goto(g, "put")
  /\ UNCHANGED <<tree, pool, mem, call, bp, lines>>

Put(g) == pc[g] = "put" /\ pool' = pool \cup {bp[g]} /\ Return(g)

(* The garbage collector empties a sync.Pool at will. *)
PoolDrops ==
  /\ pool # {}
  /\ pool' = {}
  /\ UNCHANGED <<tree, mu, mem, pc, call, bp, lines>>

-----------------------------------------------------------------------------
(* The root handler, made by init; New leaves it without attributes. *)
Init ==
  /\ handlers = <<[level |-> Level, attrs |-> <<>>]>>
  /\ mu = <<NULL>>
  /\ pool = {}
  /\ mem = [b \in Buffers |-> <<>>]
  /\ written = {}
  /\ pc = [g \in Goroutines |-> "idle"]
  /\ call = [g \in Goroutines |-> NULL]
  /\ bp = [g \in Goroutines |-> NULL]
  /\ withs = <<<<>>>>
  /\ calls = 0

Handle(g) ==
  Format(g) \/ Lock(g) \/ WriteOk(g) \/ WriteFails(g) \/ Unlock(g) \/ Put(g)

Next ==
  \/ \E h \in Handlers, a \in Attrs : WithAttrs(h, a)
  \/ \E g \in Goroutines, h \in Handlers, r \in Records : Begin(g, h, r)
  \/ \E g \in Goroutines : Handle(g)
  \/ PoolDrops

(* The scheduler runs every goroutine, and a mutex is handed over fairly   *)
(* (sync.Mutex: a waiter gets it after a millisecond).                     *)
Spec ==
  /\ Init /\ [][Next]_vars
  /\ \A g \in Goroutines : WF_vars(Handle(g)) /\ SF_vars(Lock(g))

-----------------------------------------------------------------------------
(* Properties. *)

Handler == [level : Levels, attrs : Seq(Attrs)]

Call == [handler : Handlers, record : Records]

(* Every variable keeps its type. *)
TypeOK ==
  /\ handlers \in Seq(Handler)
  /\ mu \in Seq(Goroutines \cup {NULL}) /\ Len(mu) = Len(handlers)
  /\ pool \subseteq Buffers
  /\ DOMAIN mem = Buffers
  /\ \A w \in written : w.call \in Call
  /\ pc \in [Goroutines -> {"idle", "format", "lock", "write", "unlock",
                            "put"}]
  /\ call \in [Goroutines -> Call \cup {NULL}]
  /\ bp \in [Goroutines -> Buffers \cup {NULL}]
  /\ withs \in Seq(Seq(Attrs)) /\ Len(withs) = Len(handlers)
  /\ calls \in 0..MaxCalls

(* handler.go:14: a line is its level, the attributes of all slog.With     *)
(* calls that led to the handler in their order, the message and the       *)
(* attributes of the call, and nothing of any other line, whatever the     *)
(* goroutines that share the pool do; and no line is below the root's      *)
(* level.                                                                  *)
LinesIntact ==
  \A w \in written :
    LET c == w.call IN
    /\ w.line = <<c.record.level>> \o withs[c.handler]
                           \o <<c.record.msg>> \o c.record.attrs
    /\ Rank[c.record.level] >= Rank[Level]

(* handler.go:82: two goroutines never write through one handler at once.  *)
(* Handlers that share the writer do not exclude each other.               *)
WritesExclusive ==
  \A f, g \in Goroutines :
    (pc[f] = "write" /\ pc[g] = "write" /\ call[f].handler = call[g].handler)
      => f = g

(* handler.go:84-87: a mutex is never left behind: whoever has it is about *)
(* to write through its handler or to unlock it, also after a write that   *)
(* failed, so that a call that waits never waits for nobody.               *)
NeverLeftLocked ==
  \A h \in Handlers :
    mu[h] # NULL =>
      /\ pc[mu[h]] \in {"write", "unlock"}
      /\ call[mu[h]].handler = h

(* handler.go:84-87: a call of Handle returns, though other calls wait for *)
(* the same mutex and writes fail.                                         *)
HandleReturns == \A g \in Goroutines : (pc[g] # "idle") ~> (pc[g] = "idle")
=============================================================================
