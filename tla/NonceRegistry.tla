--------------------------- MODULE NonceRegistry ---------------------------
(***************************************************************************)
(* What SIWE needs of a nonce store: a nonce is accepted at most once, and *)
(* only before its deadline.  SiweNonce implements this.                   *)
(***************************************************************************)
EXTENDS Integers

CONSTANTS Nonces, NULL

VARIABLES
  now,        \* the wall clock
  deadline,   \* when an issued nonce expires, NULL for the others
  uses        \* how often each nonce was accepted

vars == <<now, deadline, uses>>

Init ==
  /\ now \in Nat
  /\ deadline = [n \in Nonces |-> NULL]
  /\ uses = [n \in Nonces |-> 0]

Pass == now' = now + 1 /\ UNCHANGED <<deadline, uses>>

Issue(n) ==
  /\ deadline[n] = NULL
  /\ deadline'[n] # NULL
  /\ deadline' = [deadline EXCEPT ![n] = deadline'[n]]
  /\ UNCHANGED <<now, uses>>

Accept(n) ==
  /\ deadline[n] # NULL
  /\ now < deadline[n]
  /\ uses[n] = 0
  /\ uses' = [uses EXCEPT ![n] = 1]
  /\ UNCHANGED <<now, deadline>>

Next == Pass \/ \E n \in Nonces : Issue(n) \/ Accept(n)

Spec == Init /\ [][Next]_vars
=============================================================================
