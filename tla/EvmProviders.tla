--------------------------- MODULE EvmProviders ---------------------------
(***************************************************************************)
(* The RPC providers of one listener process and their health, as kept by  *)
(* services/listener/providers.  The provider list is ordered: the first   *)
(* healthy provider of the list serves the whole of the next tick.         *)
(***************************************************************************)
EXTENDS Integers

CONSTANT NumProviders   \* how many rpc-urls are configured

ASSUME ProvidersAssumption == NumProviders \in Nat \ {0}

Providers == 1..NumProviders

VARIABLES
  unhealthy,     \* the providers whose status is Unhealthy
  failureCount   \* failures recorded since the provider last recovered

providerVars == <<unhealthy, failureCount>>

ProvidersTypeOK ==
  /\ unhealthy \subseteq Providers
  /\ failureCount \in [Providers -> Nat]

-----------------------------------------------------------------------------
(* ConnectEVM hands over every provider Healthy with no failure recorded. *)
Connected ==
  /\ unhealthy = {}
  /\ failureCount = [p \in Providers |-> 0]

Connect ==
  /\ unhealthy' = {}
  /\ failureCount' = [p \in Providers |-> 0]

RecordFailure(p) ==
  /\ failureCount' = [failureCount EXCEPT ![p] = @ + 1]
  /\ unhealthy' = IF failureCount'[p] > 0 THEN unhealthy \cup {p} ELSE unhealthy

(* handleProviderFailure: only a transient error counts, and whether an    *)
(* error is transient depends on the provider's answer.                    *)
HandleProviderFailure(p) == RecordFailure(p) \/ UNCHANGED providerVars

(* Mutant: the probe clears the failures and forgets the status. *)
RecoverUnhealthy_KeepsStatus(back) ==
  /\ back \subseteq unhealthy
  /\ failureCount' = [p \in Providers |-> IF p \in back THEN 0 ELSE failureCount[p]]
  /\ UNCHANGED unhealthy

(* recoverUnhealthyProviders probes every unhealthy provider once; back is *)
(* the set of those that answered.                                         *)
RecoverUnhealthy(back) ==
  /\ back \subseteq unhealthy
  /\ unhealthy' = unhealthy \ back
  /\ failureCount' = [p \in Providers |-> IF p \in back THEN 0 ELSE failureCount[p]]

(* getHealthyClient returns p: the first of the list outside `down`. *)
FirstHealthy(p, down) ==
  /\ p \in Providers \ down
  /\ \A q \in Providers : q < p => q \in down
=============================================================================
