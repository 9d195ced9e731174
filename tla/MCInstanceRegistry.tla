------------------------ MODULE MCInstanceRegistry ------------------------
(* Instances of InstanceRegistry for TLC. *)
EXTENDS InstanceRegistry

Litellm(k) == [provider |-> "litellm", key |-> k, policy |-> "p", deleted |-> FALSE]
Other == [provider |-> "other", key |-> NoKey, policy |-> "p", deleted |-> FALSE]
Tombstone == [Litellm(1) EXCEPT !.deleted = TRUE]

\* Instance 1 is h among the resources and w among the rows.
First(h, w) ==
    [inst |-> [s \in Stores |-> [u \in Uids |->
        IF u > 1 THEN Absent ELSE IF s = "her" THEN h ELSE w]],
     keys |-> [k \in Keys |->
        CASE \E i \in {h, w} : InUse(i) /\ i.key = k
                -> [state |-> "live", uid |-> 1,
                    policy |-> IF InUse(w) /\ w.key = k THEN w.policy ELSE h.policy]
          [] w = Tombstone /\ k = 1 -> Revoked
          [] OTHER -> Unissued]]

\* No instance; a resource or a row with a key; one without (its provider needs
\* none, or it is older than the keys); a tombstone, alone or with a resource of
\* the same id; a resource beside a row in use, with its own key or the row's, which
\* may have another policy than the resource.
MCStates ==
    {First(Absent, Absent), First(Litellm(1), Absent), First(Absent, Litellm(1)),
     First(Litellm(NoKey), Absent), First(Other, Absent), First(Absent, Tombstone),
     First(Litellm(2), Tombstone), First(Litellm(2), Litellm(1)),
     First(Litellm(1), Litellm(1)), First(Litellm(1), [Litellm(1) EXCEPT !.policy = "q"])}

MCKeys == 1..5
=============================================================================
