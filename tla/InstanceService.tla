-------------------------- MODULE InstanceService --------------------------
(***************************************************************************)
(* What the operator promises of one instance, without a word of pods,     *)
(* Deployments, gates or loops: its bot is reachable or not, it is in      *)
(* service or not, and somebody may want it stopped.  HerOperator          *)
(* implements it.                                                          *)
(***************************************************************************)

VARIABLES
    online,   \* the bot is reachable
    service,  \* in service: "no", "yes", "excused" once the bot has failed by itself
              \* or has been taken for what it is not
    stopping  \* a stop is asked for, or one that was asked for is being made

vars == <<online, service, stopping>>

TypeOK ==
    /\ online \in BOOLEAN
    /\ service \in {"no", "yes", "excused"}
    /\ stopping \in BOOLEAN

Init == ~online /\ service = "no" /\ ~stopping

\* A stop is asked for, or withdrawn.
Ask == stopping' \in BOOLEAN /\ UNCHANGED <<online, service>>

\* The bot connects.
Connect == online' = TRUE /\ UNCHANGED <<service, stopping>>

\* The platform has seen it connected: from now on it may be relied on.
Enter ==
    /\ service = "no" /\ online
    /\ service' = "yes"
    /\ UNCHANGED <<online, stopping>>

\* Nobody takes the bot away while it is in service: a rollout does not.
Disconnect ==
    /\ service # "yes"
    /\ online' = FALSE
    /\ UNCHANGED <<service, stopping>>

\* Only a stop takes it out of service.
Leave ==
    /\ service = "yes" /\ stopping
    /\ service' = "no" /\ stopping' \in BOOLEAN
    /\ UNCHANGED online

\* The bot may fail by itself.
Fail ==
    /\ online
    /\ service' = "excused" /\ online' \in BOOLEAN
    /\ UNCHANGED stopping

\* The platform takes a bot that is not connected for one that is, or the other
\* way round; from then on nothing is promised.
Misjudge == service' = "excused" /\ UNCHANGED <<online, stopping>>

Next == Ask \/ Connect \/ Enter \/ Disconnect \/ Leave \/ Fail \/ Misjudge

\* An instance that nobody wants stopped comes into service, for good.
Delivers == []<>stopping \/ <>[](service # "no")

SafeSpec == Init /\ [][Next]_vars

Spec == SafeSpec /\ Delivers

=============================================================================
