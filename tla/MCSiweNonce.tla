---------------------------- MODULE MCSiweNonce ----------------------------
(* A small instance of SiweNonce for TLC. *)
EXTENDS SiweNonce, TLC

CONSTANTS t1, t2, n1, n2

TwoThreads == {t1, t2}
TwoNonces == {n1, n2}
=============================================================================
