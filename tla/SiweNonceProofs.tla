-------------------------- MODULE SiweNonceProofs --------------------------
(***************************************************************************)
(* SiweNonce implements NonceRegistry, for every number of threads and     *)
(* nonces and every time to live.                                          *)
(***************************************************************************)
EXTENDS SiweNonce, TLAPS

Holds(t) == pc[t] \in {"put", "check"}

(* A nonce is in one place: drawn and held by one thread, in the map, or   *)
(* taken out and held by one thread, which then has its deadline.          *)
OwnInv ==
  /\ \A t \in Threads : Holds(t) => nonce[t] \in Nonces /\ expiresAt[t] \in Nat
  /\ \A t \in Threads :
       pc[t] = "put" => nonce[t] \in drawn /\ deadline[nonce[t]] = NULL
  /\ \A t \in Threads : pc[t] = "check" =>
       /\ deadline[nonce[t]] = expiresAt[t]
       /\ accepted[nonce[t]] = 0
       /\ nonceStore[nonce[t]] = NULL
  /\ \A t, u \in Threads : Holds(t) /\ Holds(u) /\ nonce[t] = nonce[u] => t = u
  /\ \A n \in Nonces :
       nonceStore[n] # NULL => deadline[n] = nonceStore[n] /\ accepted[n] = 0
  /\ \A n \in Nonces : deadline[n] # NULL => n \in drawn
  /\ \A n \in Nonces : deadline[n] = NULL => accepted[n] = 0

(* The task's clock reading is never ahead of the clock. *)
EvictInv ==
  /\ evictNow # NULL => evictNow <= clock
  /\ toVisit # {} => evictNow # NULL

IInv == TypeOK /\ OwnInv /\ EvictInv /\ UsableKept

LEMMA IInvInit == Init => IInv
<1> SUFFICES ASSUME Init PROVE IInv
  OBVIOUS
<1>1. TypeOK
  BY NonceAssumption DEF Init, TypeOK
<1>2. OwnInv /\ EvictInv /\ UsableKept
  BY DEF Init, OwnInv, Holds, EvictInv, UsableKept
<1> QED
  BY <1>1, <1>2 DEF IInv

LEMMA IInvNext == IInv /\ [Next]_vars => IInv'
<1> SUFFICES ASSUME IInv, [Next]_vars PROVE IInv'
  OBVIOUS
<1>0. TypeOK /\ OwnInv /\ EvictInv /\ UsableKept
  BY DEF IInv
<1> USE NonceAssumption DEF threadVars, evictVars
<1>1. CASE Tick
  <2>1. TypeOK'
    BY <1>1, <1>0 DEF Tick, TypeOK, OwnInv, Holds
  <2>2. OwnInv'
    BY <1>1, <1>0 DEF Tick, TypeOK, OwnInv, Holds
  <2>3. EvictInv'
    BY <1>1, <1>0 DEF Tick, TypeOK, EvictInv
  <2>4. UsableKept'
    BY <1>1, <1>0 DEF Tick, TypeOK, OwnInv, Holds, EvictInv, UsableKept
  <2> QED
    BY <2>1, <2>2, <2>3, <2>4 DEF IInv
<1>2. CASE EvictBegin
  <2>1. TypeOK'
    BY <1>2, <1>0 DEF EvictBegin, TypeOK, OwnInv, Holds
  <2>2. OwnInv'
    BY <1>2, <1>0 DEF EvictBegin, TypeOK, OwnInv, Holds
  <2>3. EvictInv'
    BY <1>2, <1>0 DEF EvictBegin, TypeOK, EvictInv
  <2>4. UsableKept'
    BY <1>2, <1>0 DEF EvictBegin, TypeOK, OwnInv, Holds, EvictInv, UsableKept
  <2> QED
    BY <2>1, <2>2, <2>3, <2>4 DEF IInv
<1>3. ASSUME NEW n \in Nonces, EvictVisit(n) PROVE IInv'
  <2>1. TypeOK'
    BY <1>3, <1>0 DEF EvictVisit, TypeOK, OwnInv, Holds
  <2>2. OwnInv'
    BY <1>3, <1>0 DEF EvictVisit, TypeOK, OwnInv, Holds
  <2>3. EvictInv'
    BY <1>3, <1>0 DEF EvictVisit, TypeOK, EvictInv
  <2>4. UsableKept'
    BY <1>3, <1>0 DEF EvictVisit, TypeOK, OwnInv, Holds, EvictInv, UsableKept
  <2> QED
    BY <2>1, <2>2, <2>3, <2>4 DEF IInv
<1>4. ASSUME NEW t \in Threads, IssuePut(t) PROVE IInv'
  <2>1. TypeOK'
    BY <1>4, <1>0 DEF IssuePut, Done, TypeOK, OwnInv, Holds
  <2>2. OwnInv'
    BY <1>4, <1>0 DEF IssuePut, Done, TypeOK, OwnInv, Holds
  <2>3. EvictInv'
    BY <1>4, <1>0 DEF IssuePut, Done, TypeOK, EvictInv
  <2>4. UsableKept'
    BY <1>4, <1>0 DEF IssuePut, Done, TypeOK, OwnInv, Holds, EvictInv,
       UsableKept
  <2> QED
    BY <2>1, <2>2, <2>3, <2>4 DEF IInv
<1>5. ASSUME NEW t \in Threads, ConsumeCheck(t) PROVE IInv'
  <2>1. TypeOK'
    BY <1>5, <1>0 DEF ConsumeCheck, Done, TypeOK, OwnInv, Holds
  <2>2. OwnInv'
    BY <1>5, <1>0 DEF ConsumeCheck, Done, TypeOK, OwnInv, Holds
  <2>3. EvictInv'
    BY <1>5, <1>0 DEF ConsumeCheck, Done, TypeOK, EvictInv
  <2>4. UsableKept'
    BY <1>5, <1>0 DEF ConsumeCheck, Done, TypeOK, OwnInv, Holds, EvictInv,
       UsableKept
  <2> QED
    BY <2>1, <2>2, <2>3, <2>4 DEF IInv
<1>6. ASSUME NEW t \in Threads, NEW n \in Nonces, IssueDraw(t, n) PROVE IInv'
  <2>1. TypeOK'
    BY <1>6, <1>0 DEF IssueDraw, Expiry, TypeOK, OwnInv, Holds
  <2>2. OwnInv'
    BY <1>6, <1>0 DEF IssueDraw, Expiry, TypeOK, OwnInv, Holds
  <2>3. EvictInv'
    BY <1>6, <1>0 DEF IssueDraw, Expiry, TypeOK, EvictInv
  <2>4. UsableKept'
    BY <1>6, <1>0 DEF IssueDraw, Expiry, TypeOK, OwnInv, Holds, EvictInv,
       UsableKept
  <2> QED
    BY <2>1, <2>2, <2>3, <2>4 DEF IInv
<1>7. ASSUME NEW t \in Threads, NEW n \in Nonces, ConsumeRemove(t, n) PROVE IInv'
  <2>1. TypeOK'
    BY <1>7, <1>0 DEF ConsumeRemove, TypeOK, OwnInv, Holds
  <2>2. OwnInv'
    BY <1>7, <1>0 DEF ConsumeRemove, TypeOK, OwnInv, Holds
  <2>3. EvictInv'
    BY <1>7, <1>0 DEF ConsumeRemove, TypeOK, EvictInv
  <2>4. UsableKept'
    BY <1>7, <1>0 DEF ConsumeRemove, TypeOK, OwnInv, Holds, EvictInv,
       UsableKept
  <2> QED
    BY <2>1, <2>2, <2>3, <2>4 DEF IInv
<1>8. CASE UNCHANGED vars
  BY <1>8, <1>0 DEF vars, IInv, TypeOK, OwnInv, Holds, EvictInv, UsableKept
<1> QED
  BY <1>1, <1>2, <1>3, <1>4, <1>5, <1>6, <1>7, <1>8 DEF Next

(* Every step issues, accepts, lets time pass or leaves the registry as it *)
(* is. *)
LEMMA StepImplements ==
  IInv /\ [Next]_vars => [Registry!Next]_(Registry!vars)
<1> SUFFICES ASSUME IInv, [Next]_vars
             PROVE  Registry!Next \/ UNCHANGED Registry!vars
  OBVIOUS
<1>0. TypeOK /\ OwnInv
  BY DEF IInv
<1> USE DEF Registry!vars, threadVars, evictVars
<1>1. CASE Tick
  BY <1>1 DEF Tick, Registry!Next, Registry!Pass
<1>2. ASSUME NEW t \in Threads, IssuePut(t)
      PROVE  Registry!Next
  <2>1. nonce[t] \in Nonces /\ deadline[nonce[t]] = NULL /\ expiresAt[t] # NULL
    BY <1>2, <1>0, NonceAssumption DEF IssuePut, OwnInv, Holds
  <2>2. Registry!Issue(nonce[t])
    BY <1>2, <1>0, <2>1 DEF IssuePut, TypeOK, Registry!Issue
  <2> QED
    BY <2>1, <2>2 DEF Registry!Next
<1>3. ASSUME NEW t \in Threads, ConsumeCheck(t)
      PROVE  Registry!Next \/ UNCHANGED Registry!vars
  <2>1. /\ nonce[t] \in Nonces /\ accepted[nonce[t]] = 0
        /\ deadline[nonce[t]] = expiresAt[t] /\ deadline[nonce[t]] # NULL
    BY <1>3, <1>0, NonceAssumption DEF ConsumeCheck, OwnInv, Holds
  <2>2. CASE clock < expiresAt[t]
    <3>1. Registry!Accept(nonce[t])
      BY <1>3, <1>0, <2>1, <2>2 DEF ConsumeCheck, TypeOK, Registry!Accept
    <3> QED
      BY <2>1, <3>1 DEF Registry!Next
  <2>3. CASE ~(clock < expiresAt[t])
    BY <1>3, <2>3 DEF ConsumeCheck
  <2> QED
    BY <2>2, <2>3
<1>4. CASE EvictBegin
  BY <1>4 DEF EvictBegin
<1>5. ASSUME NEW n \in Nonces, EvictVisit(n)
      PROVE  UNCHANGED Registry!vars
  BY <1>5 DEF EvictVisit
<1>6. ASSUME NEW t \in Threads, NEW n \in Nonces, IssueDraw(t, n) \/ ConsumeRemove(t, n)
      PROVE  UNCHANGED Registry!vars
  BY <1>6 DEF IssueDraw, ConsumeRemove
<1>7. CASE UNCHANGED vars
  BY <1>7 DEF vars
<1> QED
  BY <1>1, <1>2, <1>3, <1>4, <1>5, <1>6, <1>7 DEF Next

(* No interleaving of requests, evictions and clock makes the service      *)
(* accept a nonce twice or late.                                           *)
THEOREM NonceRefinement == Spec => Implements
<1>1. Init => Registry!Init
  BY DEF Init, Registry!Init
<1>2. Spec => []IInv
  BY IInvInit, IInvNext, PTL DEF Spec
<1> QED
  BY <1>1, <1>2, StepImplements, PTL DEF Spec, Implements, Registry!Spec

(* Eviction leaves every nonce that a client may still use. *)
THEOREM NonceUsable == Spec => []UsableKept
<1>1. IInv => UsableKept
  BY DEF IInv
<1> QED
  BY <1>1, IInvInit, IInvNext, PTL DEF Spec

(* Every variable of the service keeps its type. *)
THEOREM NonceTypeCorrect == Spec => []TypeOK
<1>1. IInv => TypeOK
  BY DEF IInv
<1> QED
  BY <1>1, IInvInit, IInvNext, PTL DEF Spec
=============================================================================
