------------------------- MODULE MCLegacyInstances -------------------------
(* Instances of LegacyInstances for TLC. *)
EXTENDS LegacyInstances

MCUids == {1}
MCConfigs == {1, 2}
=============================================================================
