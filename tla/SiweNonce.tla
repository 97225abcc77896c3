----------------------------- MODULE SiweNonce -----------------------------
(***************************************************************************)
(* SiweNonceService: nonces in a ConcurrentHashMap, issued and consumed by *)
(* the threads of the web server and evicted by a scheduled task.  Single  *)
(* map operations are atomic; reading the clock is a step of its own, so   *)
(* time and other threads move between it and the map operation.           *)
(*                                                                         *)
(* The clock is Instant.now(), taken to never step back.                   *)
(***************************************************************************)
EXTENDS Integers, FiniteSets

CONSTANTS
  Threads,   \* request threads
  Nonces,    \* the random values of 32 bytes, never drawn twice
  TTL,       \* NONCE_TTL
  MaxTime,   \* bound: the clock stops here
  NULL

ASSUME NonceAssumption ==
  /\ TTL \in Nat \ {0}
  /\ MaxTime \in Nat
  /\ NULL \notin Int
  /\ NULL \notin Nonces

VARIABLES
  clock,
  nonceStore,   \* expiry of the nonces in the map, NULL for the others
  pc,           \* what each thread is at
  nonce,        \* the nonce each thread works on
  expiresAt,    \* the expiry each thread has computed or removed
  drawn,        \* nonces drawn by issueNonce
  evictNow,     \* the evicting task's clock reading, NULL between two runs
  toVisit,      \* entries the task has still to look at
  deadline,     \* history: the expiry each nonce was put with
  accepted      \* history: how often consumeNonce returned true for each nonce

threadVars == <<pc, nonce, expiresAt>>
evictVars == <<evictNow, toVisit>>
vars == <<clock, nonceStore, threadVars, drawn, evictVars, deadline, accepted>>

-----------------------------------------------------------------------------
(* Mutant: minus for plus. *)
Expiry_Minus(issuedAt) == issuedAt - TTL

Expiry(issuedAt) == issuedAt + TTL

Tick ==
  /\ clock < MaxTime
  /\ clock' = clock + 1
  /\ UNCHANGED <<nonceStore, threadVars, drawn, evictVars, deadline, accepted>>

Done(t) ==
  /\ pc' = [pc EXCEPT ![t] = "idle"]
  /\ nonce' = [nonce EXCEPT ![t] = NULL]
  /\ expiresAt' = [expiresAt EXCEPT ![t] = NULL]

(* issueNonce: draw the nonce and read the clock ... *)
IssueDraw(t, n) ==
  /\ pc[t] = "idle"
  /\ n \notin drawn
  /\ drawn' = drawn \cup {n}
  /\ nonce' = [nonce EXCEPT ![t] = n]
  /\ expiresAt' = [expiresAt EXCEPT ![t] = Expiry(clock)]
  /\ pc' = [pc EXCEPT ![t] = "put"]
  /\ UNCHANGED <<clock, nonceStore, evictVars, deadline, accepted>>

(* ... and put it into the map. *)
IssuePut(t) ==
  /\ pc[t] = "put"
  /\ nonceStore' = [nonceStore EXCEPT ![nonce[t]] = expiresAt[t]]
  /\ deadline' = [deadline EXCEPT ![nonce[t]] = expiresAt[t]]
  /\ Done(t)
  /\ UNCHANGED <<clock, drawn, evictVars, accepted>>

(* Mutant: get instead of remove: the nonce stays in the map. *)
ConsumeRemove_Get(t, n) ==
  /\ pc[t] = "idle"
  /\ IF nonceStore[n] = NULL
       THEN UNCHANGED threadVars
       ELSE /\ nonce' = [nonce EXCEPT ![t] = n]
            /\ expiresAt' = [expiresAt EXCEPT ![t] = nonceStore[n]]
            /\ pc' = [pc EXCEPT ![t] = "check"]
  /\ UNCHANGED <<clock, nonceStore, drawn, evictVars, deadline, accepted>>

(* consumeNonce: an unknown nonce is refused, a known one taken out ... *)
ConsumeRemove(t, n) ==
  /\ pc[t] = "idle"
  /\ nonceStore[n] # NULL
  /\ nonceStore' = [nonceStore EXCEPT ![n] = NULL]
  /\ nonce' = [nonce EXCEPT ![t] = n]
  /\ expiresAt' = [expiresAt EXCEPT ![t] = nonceStore[n]]
  /\ pc' = [pc EXCEPT ![t] = "check"]
  /\ UNCHANGED <<clock, drawn, evictVars, deadline, accepted>>

(* ... and accepted if the clock is before its expiry then. *)
ConsumeCheck(t) ==
  /\ pc[t] = "check"
  /\ accepted' = IF clock < expiresAt[t]
                   THEN [accepted EXCEPT ![nonce[t]] = @ + 1] ELSE accepted
  /\ Done(t)
  /\ UNCHANGED <<clock, nonceStore, drawn, evictVars, deadline>>

(* evictExpired: read the clock ... *)
EvictBegin ==
  /\ evictNow = NULL
  /\ evictNow' = clock
  /\ toVisit' = Nonces
  /\ UNCHANGED <<clock, nonceStore, threadVars, drawn, deadline, accepted>>

(* Mutant: the comparison the wrong way round. *)
EvictVisit_Unexpired(n) ==
  /\ n \in toVisit
  /\ nonceStore' = IF nonceStore[n] # NULL /\ nonceStore[n] > evictNow
                     THEN [nonceStore EXCEPT ![n] = NULL] ELSE nonceStore
  /\ toVisit' = toVisit \ {n}
  /\ evictNow' = IF toVisit' = {} THEN NULL ELSE evictNow
  /\ UNCHANGED <<clock, threadVars, drawn, deadline, accepted>>

(* ... and look at the entries one by one; the iteration is weakly         *)
(* consistent, it may or may not see what is put meanwhile.                *)
EvictVisit(n) ==
  /\ n \in toVisit
  /\ nonceStore' = IF nonceStore[n] # NULL /\ nonceStore[n] < evictNow
                     THEN [nonceStore EXCEPT ![n] = NULL] ELSE nonceStore
  /\ toVisit' = toVisit \ {n}
  /\ evictNow' = IF toVisit' = {} THEN NULL ELSE evictNow
  /\ UNCHANGED <<clock, threadVars, drawn, deadline, accepted>>

-----------------------------------------------------------------------------
Init ==
  /\ clock = 0
  /\ nonceStore = [n \in Nonces |-> NULL]
  /\ pc = [t \in Threads |-> "idle"]
  /\ nonce = [t \in Threads |-> NULL]
  /\ expiresAt = [t \in Threads |-> NULL]
  /\ drawn = {}
  /\ evictNow = NULL
  /\ toVisit = {}
  /\ deadline = [n \in Nonces |-> NULL]
  /\ accepted = [n \in Nonces |-> 0]

Next ==
  \/ Tick \/ EvictBegin
  \/ \E n \in Nonces : EvictVisit(n)
  \/ \E t \in Threads :
       \/ IssuePut(t) \/ ConsumeCheck(t)
       \/ \E n \in Nonces : IssueDraw(t, n) \/ ConsumeRemove(t, n)

Spec == Init /\ [][Next]_vars

(* The clock runs, @Scheduled(fixedRate) runs the eviction again and again *)
(* and each run ends.                                                      *)
FairSpec ==
  /\ Spec
  /\ WF_vars(Tick)
  /\ WF_vars(EvictBegin)
  /\ \A n \in Nonces : WF_vars(EvictVisit(n))

-----------------------------------------------------------------------------
(* Properties. *)

(* Threads, map and task keep their types. *)
TypeOK ==
  /\ clock \in 0..MaxTime
  /\ nonceStore \in [Nonces -> Nat \cup {NULL}]
  /\ pc \in [Threads -> {"idle", "put", "check"}]
  /\ nonce \in [Threads -> Nonces \cup {NULL}]
  /\ expiresAt \in [Threads -> Nat \cup {NULL}]
  /\ drawn \subseteq Nonces
  /\ evictNow \in Nat \cup {NULL}
  /\ toVisit \subseteq Nonces
  /\ deadline \in [Nonces -> Nat \cup {NULL}]
  /\ accepted \in [Nonces -> Nat]

(* SiweNonceService.java:36-42: of all requests with the same nonce, at    *)
(* most one is accepted, and that one before the expiry that the client    *)
(* was told, whatever the eviction and other requests do meanwhile.        *)
Registry == INSTANCE NonceRegistry WITH
  now <- clock, uses <- accepted

Implements == Registry!Spec

(* SiweNonceService.java:44-48: eviction never takes a nonce that a client *)
(* may still use: issued, not expired, not taken out by a consumer.        *)
UsableKept ==
  \A n \in Nonces :
    deadline[n] # NULL /\ clock < deadline[n]
      => \/ nonceStore[n] = deadline[n]
         \/ \E t \in Threads : pc[t] = "check" /\ nonce[t] = n
         \/ accepted[n] > 0

(* SiweNonceService.java:44-48: what is never consumed leaves the map.     *)
Evicted ==
  \A n \in Nonces :
    nonceStore[n] # NULL /\ nonceStore[n] < MaxTime ~> nonceStore[n] = NULL
=============================================================================
