--------------------------- MODULE StartupProofs ---------------------------
(***************************************************************************)
(* Theorems about Startup, for every table of networks, every spelling,    *)
(* every list of URLs and every set of chains.                             *)
(***************************************************************************)
EXTENDS Startup, TLAPS

(* What main has established at each call. *)
PhaseInv ==
  /\ pc # "load" => network = Lower[cfg.network] \/ pc = "exited"
  /\ pc \in {"publisher", "listen", "dial", "await", "join"} =>
       networkKey = Lower[cfg.network]
  /\ pc \in {"listen", "dial", "await", "join"} /\ cfg.natsURL => pub = "open"
  /\ pc \notin {"await", "join", "exited"} => listener = "none"
  /\ listener # "none" => providers = cfg.rpcURLs

(* The providers connected are the first URLs', and of one chain. *)
DialInv ==
  /\ Len(providers) <= Len(cfg.rpcURLs)
  /\ \A i \in 1..Len(providers) : /\ providers[i] = cfg.rpcURLs[i]
                                  /\ providers[i] = providers[1]

(* The WaitGroup counts the goroutine; the publisher is closed at the end. *)
CountInv ==
  /\ wg = IF Live \/ listener = "panicked" THEN 1 ELSE 0
  /\ pub = "closed" => pc = "exited" /\ ~Live
  /\ exitCode = 0 => ~Live
  /\ pc # "exited" => exitCode = NULL /\ listener # "panicked"

IInv == TypeOK /\ PhaseInv /\ DialInv /\ CountInv /\ RunValidated

-----------------------------------------------------------------------------
(* A list of URLs is a sequence of chains. *)
LEMMA UrlsAreSeq == \A c \in Config : c.rpcURLs \in Seq(Chains)
BY StartupAssumption DEF Config, UrlLists

LEMMA IInvInit == Init => IInv
<1> SUFFICES ASSUME Init PROVE IInv
  OBVIOUS
<1> USE StartupAssumption
<1>1. cfg.rpcURLs \in Seq(Chains)
  BY UrlsAreSeq DEF Init
<1>2. TypeOK
  <2>1. cancelled \in BOOLEAN
    BY DEF Init
  <2>2. providers \in Seq(Chains)
    BY DEF Init
  <2> QED
    BY <2>1, <2>2 DEF Init, TypeOK, Labels
<1>3. PhaseInv /\ CountInv /\ RunValidated
  BY DEF Init, PhaseInv, CountInv, RunValidated, Live
<1>4. DialInv
  BY <1>1 DEF Init, DialInv
<1> QED
  BY <1>2, <1>3, <1>4 DEF IInv

(* A step of main that ends the process with an error. *)
LEMMA FailStep ==
  ASSUME IInv, NEW label \in {"load", "database", "network", "publisher",
                              "listen", "dial"}, Fail(label)
  PROVE  IInv'
<1>0. TypeOK /\ PhaseInv /\ DialInv /\ CountInv /\ RunValidated
  BY DEF IInv
<1> USE StartupAssumption DEF env, found, Fail, Exit
<1>1. TypeOK'
  BY <1>0 DEF TypeOK, Labels
<1>2. PhaseInv' /\ CountInv'
  BY <1>0 DEF PhaseInv, CountInv, Live, TypeOK
<1>3. DialInv' /\ RunValidated'
  BY <1>0 DEF DialInv, RunValidated
<1> QED
  BY <1>1, <1>2, <1>3 DEF IInv

(* One more provider of the same chain. *)
LEMMA DialStep ==
  ASSUME IInv, DialOk
  PROVE  IInv'
<1>0. TypeOK /\ PhaseInv /\ DialInv /\ CountInv /\ RunValidated
  BY DEF IInv
<1> USE StartupAssumption DEF env, DialOk, Goto
<1>1. cfg.rpcURLs \in Seq(Chains)
  BY <1>0, UrlsAreSeq DEF TypeOK
<1>2. NextChain \in Chains
  BY <1>0, <1>1 DEF NextChain, TypeOK
<1>3. TypeOK'
  BY <1>0, <1>2 DEF TypeOK, Labels
<1>4. listener = "none"
  BY <1>0 DEF PhaseInv
<1>5. PhaseInv' /\ CountInv' /\ RunValidated'
  BY <1>0, <1>4 DEF PhaseInv, CountInv, RunValidated, Live, TypeOK
<1>6. DialInv'
  <2>1. Len(providers') = Len(providers) + 1
    BY <1>0, <1>2 DEF TypeOK
  <2>2. Len(providers') <= Len(cfg.rpcURLs)
    BY <2>1, <1>0, <1>1 DEF TypeOK
  <2>3. \A i \in 1..Len(providers) : providers'[i] = providers[i]
    BY <1>0, <1>2 DEF TypeOK
  <2>4. providers'[Len(providers) + 1] = NextChain
    BY <1>0, <1>2 DEF TypeOK
  <2>5. NextChain = providers'[1]
    BY <1>0, <2>3, <2>4 DEF TypeOK, Agrees
  <2> SUFFICES ASSUME NEW i \in 1..Len(providers')
               PROVE  providers'[i] = cfg.rpcURLs[i] /\ providers'[i] = providers'[1]
    BY <2>2 DEF DialInv
  <2>6. CASE i \in 1..Len(providers)
    <3>1. 1 \in 1..Len(providers)
      BY <2>6, <1>0 DEF TypeOK
    <3> QED
      BY <2>6, <3>1, <2>3, <1>0 DEF DialInv
  <2>7. CASE i = Len(providers) + 1
    BY <2>7, <2>4, <2>5 DEF NextChain
  <2> QED
    BY <2>6, <2>7, <2>1, <1>0 DEF TypeOK
<1> QED
  BY <1>3, <1>5, <1>6 DEF IInv

(* The goroutine is started with all providers there are. *)
LEMMA SpawnStep ==
  ASSUME IInv, Spawn
  PROVE  IInv'
<1>0. TypeOK /\ PhaseInv /\ DialInv /\ CountInv /\ RunValidated
  BY DEF IInv
<1> USE StartupAssumption DEF env, found, Spawn, Goto
<1>1. cfg.rpcURLs \in Seq(Chains)
  BY <1>0, UrlsAreSeq DEF TypeOK
<1>2. providers = cfg.rpcURLs
  BY <1>0, <1>1 DEF DialInv, TypeOK
<1>w. wg = 0
  BY <1>0 DEF PhaseInv, CountInv, Live
<1>3. TypeOK' /\ CountInv'
  BY <1>0, <1>w DEF TypeOK, Labels, PhaseInv, CountInv, Live
<1>4. PhaseInv'
  BY <1>0, <1>2 DEF PhaseInv
<1>5. DialInv'
  BY <1>0 DEF DialInv
<1>6. \A i, j \in DOMAIN providers : providers[i] = providers[j]
  BY <1>0 DEF DialInv, TypeOK
<1>7. RunValidated'
  BY <1>0, <1>2, <1>6 DEF RunValidated, PhaseInv
<1> QED
  BY <1>3, <1>4, <1>5, <1>7 DEF IInv

LEMMA IInvNext == IInv /\ [Next]_vars => IInv'
<1> SUFFICES ASSUME IInv, [Next]_vars PROVE IInv'
  OBVIOUS
<1>0. TypeOK /\ PhaseInv /\ DialInv /\ CountInv /\ RunValidated
  BY DEF IInv
<1> USE StartupAssumption DEF env, found, Goto, Exit
<1>1. CASE LoadOk
  BY <1>1, <1>0 DEF LoadOk, IInv, TypeOK, Labels, Config, PhaseInv, DialInv,
     CountInv, RunValidated, Live
<1>2. CASE DatabaseOk
  BY <1>2, <1>0 DEF DatabaseOk, IInv, TypeOK, Labels, PhaseInv, DialInv,
     CountInv, RunValidated, Live
<1>3. CASE NetworkOk
  BY <1>3, <1>0 DEF NetworkOk, IInv, TypeOK, Labels, PhaseInv, DialInv,
     CountInv, RunValidated, Live
<1>4. CASE PublisherOk
  BY <1>4, <1>0 DEF PublisherOk, IInv, TypeOK, Labels, PhaseInv, DialInv,
     CountInv, RunValidated, Live
<1>5. CASE NotListening
  BY <1>5, <1>0 DEF NotListening, IInv, TypeOK, Labels, PhaseInv, DialInv,
     CountInv, RunValidated, Live
<1>6. CASE Listening
  BY <1>6, <1>0 DEF Listening, IInv, TypeOK, Labels, PhaseInv, DialInv,
     CountInv, RunValidated, Live
<1>7. CASE LoadFails \/ DatabaseFails \/ NetworkFails \/ PublisherFails
           \/ NoUrls \/ DialFails
  BY <1>7, FailStep DEF LoadFails, DatabaseFails, NetworkFails, PublisherFails,
     NoUrls, DialFails
<1>8. CASE Await
  BY <1>8, <1>0 DEF Await, IInv, TypeOK, Labels, PhaseInv, DialInv, CountInv,
     RunValidated, Live
<1>9. CASE Join
  BY <1>9, <1>0 DEF Join, Return, IInv, TypeOK, Labels, PhaseInv, DialInv, CountInv,
     RunValidated, Live
<1>10. CASE RunBegins
  BY <1>10, <1>0 DEF RunBegins, IInv, TypeOK, Labels, PhaseInv, DialInv,
     CountInv, RunValidated, Live
<1>11. CASE RunReturns
  BY <1>11, <1>0 DEF RunReturns, Returns, IInv, TypeOK, Labels, PhaseInv,
     DialInv, CountInv, RunValidated, Live
<1>12. CASE RunPanics
  BY <1>12, <1>0 DEF RunPanics, IInv, TypeOK, Labels, PhaseInv, DialInv,
     CountInv, RunValidated, Live
<1>13. CASE Signal
  BY <1>13, <1>0 DEF Signal, IInv, TypeOK, Labels, PhaseInv, DialInv, CountInv,
     RunValidated, Live
<1>14. ASSUME NEW keys \in SUBSET Keys, SetActive(keys) PROVE IInv'
  BY <1>14, <1>0 DEF SetActive, IInv, TypeOK, Labels, PhaseInv, DialInv,
     CountInv, RunValidated, Live
<1>15. CASE UNCHANGED vars
  BY <1>15, <1>0 DEF vars, IInv, TypeOK, PhaseInv, DialInv, CountInv,
     RunValidated, Live
<1> QED
  BY <1>1, <1>2, <1>3, <1>4, <1>5, <1>6, <1>7, <1>8, <1>9, <1>10, <1>11,
     <1>12, <1>13, <1>14, <1>15, DialStep, SpawnStep DEF Next, Main

(* The invariant holds in every reachable state. *)
LEMMA IInvAlways == Spec => []IInv
BY IInvInit, IInvNext, PTL DEF Spec

(* Main's state keeps its types; the WaitGroup is never negative. *)
THEOREM StartupTypeCorrect == Spec => []TypeOK
<1>1. IInv => TypeOK
  BY DEF IInv
<1> QED
  BY <1>1, IInvAlways, PTL

(* Run is started only with what the startup has checked. *)
THEOREM StartupValidates == Spec => []RunValidated
<1>1. IInv => RunValidated
  BY DEF IInv
<1> QED
  BY <1>1, IInvAlways, PTL

(* Neither the publisher nor main goes away before the goroutine, and main *)
(* waits for nobody else. *)
THEOREM StartupJoins == Spec => []JoinsListener
<1>1. IInv => JoinsListener
  BY DEF IInv, CountInv, JoinsListener
<1> QED
  BY <1>1, IInvAlways, PTL
=============================================================================
