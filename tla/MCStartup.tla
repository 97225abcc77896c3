----------------------------- MODULE MCStartup -----------------------------
(* A small instance of Startup for TLC. *)
EXTENDS Startup

LowerCase == [k \in {"Sepolia", "sepolia"} |-> "sepolia"]
=============================================================================
