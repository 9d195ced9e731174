--------------------------- MODULE MCTunnelRoutes ---------------------------
(* Instances of TunnelRoutes for TLC: requests are interchangeable, and so *)
(* are instances.  At first there is one instance at most, with a          *)
(* HerInstance or with a row.                                              *)
EXTENDS TunnelRoutes, FiniteSets, TLC

MCStarts ==
    {s \in (SUBSET Instances) \X (SUBSET Instances) : Cardinality(s[1]) + Cardinality(s[2]) <= 1}

MCSymmetry == Permutations(Requests) \cup Permutations(Instances)
=============================================================================
