------------------------ MODULE MCQuotaRebalance ------------------------
(* The instance of QuotaRebalance for TLC: its constants are in the .cfg. *)
EXTENDS QuotaRebalance
=============================================================================
