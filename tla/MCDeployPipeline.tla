------------------------- MODULE MCDeployPipeline -------------------------
(* Instances of DeployPipeline for TLC. *)
EXTENDS DeployPipeline

\* Three instances: two in the first wave (more than one batch when BatchSize
\* is 1) and one in the second.
MCInstances == {1, 2, 3}
MCGroups == {"canary", "stable"}
MCImages == {[i \in MCInstances |-> "v0"]}
MCFleet == {[i \in MCInstances |-> IF i = 3 THEN "stable" ELSE "canary"]}

\* Two instances, one per wave: small enough for edits of the groups meanwhile.
MCPair == {1, 2}
MCPairImages == {[i \in MCPair |-> "v0"]}
MCSplit == {[i \in MCPair |-> IF i = 2 THEN "early" ELSE "canary"]}
MCOrders == {<<"canary", "stable">>}

\* Three groups of which one can be deleted and created again.
MCThreeGroups == {"canary", "early", "stable"}
MCThreeOrdered == {<<"canary", "early", "stable">>}
MCRegistries == MCThreeOrdered \cup {<<"canary", "stable">>}
=============================================================================
