--------------------------- MODULE MCStreamBridge ---------------------------
(* Instances of StreamBridge for TLC. *)
EXTENDS StreamBridge

MCModes == {"pass", "collapse"}
=============================================================================
