-------------------------- MODULE MCPoolAccounts --------------------------
(* Instances of PoolAccounts for TLC. *)
EXTENDS PoolAccounts

\* Everything that can happen.
EveryOp == AllOps

=============================================================================
