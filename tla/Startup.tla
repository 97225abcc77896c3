------------------------------ MODULE Startup ------------------------------
(***************************************************************************)
(* The main function of the listener: load the configuration, connect to   *)
(* the database, the message server and the RPC providers, run the block   *)
(* listener in a goroutine, and stop on a signal.  Every call of main is a *)
(* step; a signal may come between any two.                                *)
(*                                                                         *)
(* What Run does is EvmListener; here the goroutine runs until the context *)
(* is cancelled, or panics.                                                *)
(***************************************************************************)
EXTENDS Integers, Sequences

CONSTANTS
  Keys,       \* network keys, in any spelling
  Lower,      \* strings.ToLower on Keys
  Chains,     \* chain ids
  MaxUrls,    \* bound: rpc-urls in the configuration
  NULL

ASSUME StartupAssumption ==
  /\ Lower \in [Keys -> Keys]
  /\ MaxUrls \in Nat
  /\ NULL \notin Keys
  /\ NULL \notin {0, 1, 2}

VARIABLES
  cfg,        \* the file: a URL is the chain its server is of
  active,     \* keys of the active rows of networks
  pc,         \* the call main is in
  network,    \* the key as loaded
  networkKey, \* the key of the row found
  providers,  \* the chain ids of the providers connected
  pub,        \* the publisher
  wg,         \* the WaitGroup
  listener,   \* the goroutine
  cancelled,  \* whether the context is done
  exitCode

found == <<network, networkKey, providers>>
env == <<cfg, active>>
vars == <<env, pc, found, pub, wg, listener, cancelled, exitCode>>

-----------------------------------------------------------------------------
UrlLists == UNION {[1..n -> Chains] : n \in 0..MaxUrls}

Config ==
  [network : Keys, natsURL : BOOLEAN, evmBlockListen : BOOLEAN, rpcURLs : UrlLists]

Exit(code) == pc' = "exited" /\ exitCode' = code

(* os.Exit(1), which runs no deferred call. *)
Fail(label) ==
  /\ pc = label
  /\ Exit(1)
  /\ UNCHANGED <<env, found, pub, wg, listener, cancelled>>

(* A call that failed, as each may; with the context done it has to. *)
LoadFails == Fail("load")
DatabaseFails == Fail("database")
NetworkFails == Fail("network")
PublisherFails == cfg.natsURL /\ Fail("publisher")
DialFails == Fail("dial")

Goto(label) == pc' = label /\ UNCHANGED exitCode

LoadOk ==
  /\ pc = "load"
  /\ network' = Lower[cfg.network]
  /\ Goto("database")
  /\ UNCHANGED <<env, networkKey, providers, pub, wg, listener, cancelled>>

DatabaseOk ==
  /\ pc = "database"
  /\ ~cancelled
  /\ Goto("network")
  /\ UNCHANGED <<env, found, pub, wg, listener, cancelled>>

NetworkOk ==
  /\ pc = "network"
  /\ ~cancelled
  /\ network \in active
  /\ networkKey' = network
  /\ Goto("publisher")
  /\ UNCHANGED <<env, network, providers, pub, wg, listener, cancelled>>

(* New knows no context. *)
PublisherOk ==
  /\ pc = "publisher"
  /\ pub' = IF cfg.natsURL THEN "open" ELSE "none"
  /\ Goto("listen")
  /\ UNCHANGED <<env, found, wg, listener, cancelled>>

NotListening ==
  /\ pc = "listen"
  /\ ~cfg.evmBlockListen
  /\ Goto("await")
  /\ UNCHANGED <<env, found, pub, wg, listener, cancelled>>

NoUrls == cfg.evmBlockListen /\ cfg.rpcURLs = <<>> /\ Fail("listen")

Listening ==
  /\ pc = "listen"
  /\ cfg.evmBlockListen
  /\ cfg.rpcURLs # <<>>
  /\ Goto("dial")
  /\ UNCHANGED <<env, found, pub, wg, listener, cancelled>>

(* The chain id of the next URL's server. *)
NextChain == cfg.rpcURLs[Len(providers) + 1]

(* Mutant: the chain id expected is set anew by every provider after the   *)
(* second.                                                                 *)
Agrees_FirstTwo == Len(providers) = 1 => NextChain = providers[1]

Agrees == providers # <<>> => NextChain = providers[1]

DialOk ==
  /\ pc = "dial"
  /\ Len(providers) < Len(cfg.rpcURLs)
  /\ ~cancelled
  /\ Agrees
  /\ providers' = Append(providers, NextChain)
  /\ Goto("dial")
  /\ UNCHANGED <<env, network, networkKey, pub, wg, listener, cancelled>>

Spawn ==
  /\ pc = "dial"
  /\ Len(providers) = Len(cfg.rpcURLs)
  /\ wg' = wg + 1
  /\ listener' = "spawned"
  /\ Goto("await")
  /\ UNCHANGED <<env, found, pub, cancelled>>

Await ==
  /\ pc = "await"
  /\ cancelled
  /\ Goto("join")
  /\ UNCHANGED <<env, found, pub, wg, listener, cancelled>>

(* The deferred calls run, main returns. *)
Return ==
  /\ pc = "join"
  /\ pub' = IF pub = "open" THEN "closed" ELSE pub
  /\ Exit(0)
  /\ UNCHANGED <<env, found, wg, listener, cancelled>>

(* Mutant: main does not wait for the goroutine. *)
Join_NoWait == Return

Join == Return /\ wg = 0

-----------------------------------------------------------------------------
(* The goroutine. *)
RunBegins ==
  /\ pc # "exited"
  /\ listener = "spawned"
  /\ listener' = "running"
  /\ UNCHANGED <<env, pc, found, pub, wg, cancelled, exitCode>>

Returns(newWg) ==
  /\ pc # "exited"
  /\ listener = "running"
  /\ cancelled
  /\ listener' = "done"
  /\ wg' = newWg
  /\ UNCHANGED <<env, pc, found, pub, cancelled, exitCode>>

(* Mutant: Done is not deferred, and Run leaves by an early return. *)
RunReturns_NoDone == Returns(wg)

(* Mutant: Run calls Done too. *)
RunReturns_DoneTwice == Returns(wg - 2)

RunReturns == Returns(wg - 1)

(* A panic in any goroutine ends the process. *)
RunPanics ==
  /\ pc # "exited"
  /\ listener = "running"
  /\ listener' = "panicked"
  /\ Exit(2)
  /\ UNCHANGED <<env, found, pub, wg, cancelled>>

-----------------------------------------------------------------------------
(* Before NotifyContext a signal kills; a second one has no effect, as     *)
(* stop is deferred.                                                       *)
Signal ==
  /\ pc # "exited"
  /\ ~cancelled
  /\ IF pc = "load"
     THEN Exit(2) /\ UNCHANGED cancelled
     ELSE cancelled' = TRUE /\ UNCHANGED <<pc, exitCode>>
  /\ UNCHANGED <<env, found, pub, wg, listener>>

(* An operator switches networks on and off. *)
SetActive(keys) ==
  /\ active' = keys
  /\ pc # "exited"
  /\ UNCHANGED <<cfg, pc, found, pub, wg, listener, cancelled, exitCode>>

Init ==
  /\ cfg \in Config
  /\ active \in SUBSET Keys
  /\ pc = "load"
  /\ network = NULL
  /\ networkKey = NULL
  /\ providers = <<>>
  /\ pub = "none"
  /\ wg = 0
  /\ listener = "none"
  /\ cancelled = FALSE
  /\ exitCode = NULL

Main ==
  \/ LoadOk \/ LoadFails \/ DatabaseOk \/ DatabaseFails
  \/ NetworkOk \/ NetworkFails \/ PublisherOk \/ PublisherFails
  \/ NotListening \/ NoUrls \/ Listening \/ DialOk \/ DialFails
  \/ Spawn \/ Await \/ Join

Next ==
  \/ Main \/ RunBegins \/ RunReturns \/ RunPanics \/ Signal
  \/ \E keys \in SUBSET Keys : SetActive(keys)

Spec == Init /\ [][Next]_vars

(* Nothing has to happen before a signal.  After it calls that were given  *)
(* the context return, nats.Connect has a timeout of its own, and Run      *)
(* returns: EvmListener's ShutdownCompletes.                               *)
FairSpec ==
  /\ Spec
  /\ WF_vars(cancelled /\ Main)
  /\ WF_vars(RunBegins)
  /\ WF_vars(RunReturns)

-----------------------------------------------------------------------------
(* Properties. *)

Labels == {"load", "database", "network", "publisher", "listen", "dial",
           "await", "join", "exited"}

(* Every variable keeps its type. *)
TypeOK ==
  /\ cfg \in Config
  /\ active \subseteq Keys
  /\ pc \in Labels
  /\ network \in Keys \cup {NULL}
  /\ networkKey \in Keys \cup {NULL}
  /\ providers \in Seq(Chains)
  /\ pub \in {"none", "open", "closed"}
  /\ wg \in {0, 1}
  /\ listener \in {"none", "spawned", "running", "done", "panicked"}
  /\ cancelled \in BOOLEAN
  /\ exitCode \in {NULL, 0, 1, 2}

Live == listener \in {"spawned", "running"}

(* V1_SCOPE.md:209: Run is started only for the configured network in its  *)
(* lower-case spelling, with every configured provider connected and all   *)
(* of one chain, and with a publisher if one is configured.                *)
RunValidated ==
  listener # "none" =>
    /\ networkKey = Lower[cfg.network]
    /\ providers = cfg.rpcURLs
    /\ \A i, j \in DOMAIN providers : providers[i] = providers[j]
    /\ cfg.natsURL => pub # "none"

(* main.go:78-87: the publisher is not closed, and main does not return,   *)
(* before the goroutine has returned; and main never waits for a goroutine *)
(* that is gone or was not started.                                        *)
JoinsListener ==
  /\ pub = "closed" => ~Live
  /\ exitCode = 0 => ~Live
  /\ pc = "join" /\ wg # 0 => Live

(* main.go:36: once a signal was received the process exits, in whatever   *)
(* phase of the startup it was.                                            *)
SignalStops == cancelled ~> (pc = "exited")
=============================================================================
