---------------------------- MODULE TunnelRoutes ----------------------------
(***************************************************************************)
(* The Cloudflare tunnel of the fleet (backend/cloudflare_ops.py) and the  *)
(* requests that keep it: creations and imports, deletions, and a sync     *)
(* that an operator asks for (backend/main.py).                            *)
(*                                                                         *)
(* The remote ingress is one document at Cloudflare.  Every request reads  *)
(* it whole, works out a new one and writes it whole, with nothing that    *)
(* notices a write in between; and it waits for Services meanwhile.  A     *)
(* creation adds its own instances (an upsert); a deletion or a sync lists *)
(* all instances and drops the routes of every other one.                  *)
(*                                                                         *)
(* The three host names of an instance always go together: the instance    *)
(* stands for them, and its prefix is fixed.  Left open: whether a deleted *)
(* instance has kept its row.  Left out: the ConfigMap of cloudflared,     *)
(* which the remote ingress overrides (writing it matters only by          *)
(* failing), and the DNS records, whose outcome no code looks at.          *)
(***************************************************************************)
EXTENDS Naturals

CONSTANTS
    Instances,     \* uids
    Infra, Other,  \* the route of a service of ours; one that others have made
    Starts,        \* what exists at first: pairs of HerInstances and rows
    Requests,      \* bound: each happens once
    Kinds,         \* what is requested: subset of AllKinds
    Faults,        \* what goes wrong: subset of AllFaults
    MaxFaults      \* bound: faults

AllKinds == {"add", "delete", "sync"}

\* A call fails, an answer is lost, a list fails, a Service is not found, a row
\* is not written, the process dies.
AllFaults == {"call", "answer", "list", "service", "row", "crash"}

ASSUME TunnelAssumptions ==
    /\ Infra \notin Instances /\ Other \notin Instances /\ Infra # Other
    /\ Starts \subseteq (SUBSET Instances) \X (SUBSET Instances)
    /\ Kinds \subseteq AllKinds /\ Faults \subseteq AllFaults
    /\ MaxFaults \in Nat

VARIABLES
    crds,      \* instances with a HerInstance
    rows,      \* instances with a row that is not deleted
    svc,       \* instances whose Service has an address
    remote,    \* the remote ingress, without its catch-all
    req,       \* the requests
    faults,    \* counter for the bound
    \* History:
    routed,    \* existing instances that a request has reported as routed
    cleared,   \* deleted instances whose deletion has synced the routes, not woken since
    suspect    \* updates have overlapped or a list failed, and no sync that had
               \* the tunnel to itself has found every Service since

vars == <<crds, rows, svc, remote, req, faults, routed, cleared, suspect>>

Routes == Instances \cup {Infra, Other}

\* about: the instances it adds or deletes; targets: those it wants routed,
\* todo: of these, the ones whose Service it has still to find; ready: found;
\* infra: so was the infrastructure Service; ingress: the document it read;
\* alone: its list is complete, and no other update has been under way with its own.
Request ==
    [pc: {"free", "post", "row", "config", "list", "get", "look", "put", "done"},
     kind: AllKinds, about: SUBSET Instances, targets: SUBSET Instances,
     todo: SUBSET Instances, ready: SUBSET Instances, infra: BOOLEAN,
     ingress: SUBSET Routes, alone: BOOLEAN]

TypeOK ==
    /\ crds \in SUBSET Instances /\ rows \in SUBSET Instances /\ svc \in SUBSET Instances
    /\ remote \in SUBSET Routes
    /\ req \in [Requests -> Request]
    /\ faults \in 0..MaxFaults
    /\ routed \in SUBSET Instances /\ cleared \in SUBSET Instances
    /\ suspect \in BOOLEAN

-----------------------------------------------------------------------------
Existing == crds \cup rows

Active(r) == req[r].pc \notin {"free", "done"}

\* It reconciles every instance, not only those it is about.
Full(r) == req[r].kind \in {"delete", "sync"}

\* Between the first thing it reads of the routes and its write.
Updating(r) == req[r].pc \in {"look", "put"} \/ (Full(r) /\ req[r].pc = "get")

\* Nobody but r is.
OnlyOne(r) == \A q \in Requests \ {r} : ~Updating(q)

\* The sync endpoint is a coroutine that blocks: no request begins meanwhile.
Blocked == \E r \in Requests : Active(r) /\ req[r].kind = "sync"

Blank(pc) ==
    [pc |-> pc, kind |-> "sync", about |-> {}, targets |-> {}, todo |-> {},
     ready |-> {}, infra |-> FALSE, ingress |-> {}, alone |-> FALSE]

Ended == Blank("done")

Init ==
    /\ \E s \in Starts : crds = s[1] /\ rows = s[2]
    /\ svc = crds \cup rows
    /\ remote = svc \cup {Infra, Other}
    /\ req = [r \in Requests |-> Blank("free")]
    /\ faults = 0
    /\ routed = svc /\ cleared = {} /\ suspect = FALSE

Fault(kind) == kind \in Faults /\ faults < MaxFaults /\ faults' = faults + 1

Becomes(r, q) == req' = [req EXCEPT ![r] = q]

\* An exception: a warning in the answer of a creation, nothing in that of a
\* deletion, a 500 for a sync.
Raise(r) == Becomes(r, Ended)

Begins(r, kind) == kind \in Kinds /\ req[r].pc = "free" /\ ~Blocked

-----------------------------------------------------------------------------
(* The requests, up to their calls of cloudflare_ops.                      *)

\* create_her_instance: one for a creation, one after the other for an import.
\* An instance that exists already is patched.
PostHer(r, u) ==
    /\ Begins(r, "add") \/ req[r].pc = "post"
    /\ Becomes(r, [req[r] EXCEPT !.pc = "post", !.kind = "add", !.about = @ \cup {u}])
    /\ crds' = crds \cup {u}
    /\ cleared' = cleared \ {u}
    /\ UNCHANGED <<rows, svc, remote, faults, routed, suspect>>

\* The fallback without the operator: a row and a Service.
InsertRow(r, u) ==
    /\ Begins(r, "add") /\ u \notin Existing
    /\ Becomes(r, [req[r] EXCEPT !.pc = "config", !.kind = "add", !.about = {u}])
    /\ rows' = rows \cup {u}
    /\ \/ svc' = svc \cup {u} /\ UNCHANGED faults
       \/ Fault("call") /\ UNCHANGED svc
    /\ cleared' = cleared \ {u}
    /\ UNCHANGED <<crds, remote, routed, suspect>>

\* A start or a restart of an instance without a HerInstance, deleted or not: its
\* Service is made again, and a start makes a deleted row a running one.
Wake(r, u) ==
    /\ Begins(r, "add") /\ u \notin crds
    /\ Becomes(r, [req[r] EXCEPT !.pc = "config", !.kind = "add", !.about = {u}])
    /\ rows' \in {rows, rows \cup {u}}
    /\ svc' = svc \cup {u}
    /\ cleared' = cleared \ {u}
    /\ UNCHANGED <<crds, remote, faults, routed, suspect>>

\* The HerInstance is deleted, then the row, whose failure is swallowed.
DeleteHer(r, u) ==
    /\ Begins(r, "delete") /\ u \in crds
    /\ Becomes(r, [req[r] EXCEPT !.pc = "config", !.kind = "delete", !.about = {u}])
    /\ crds' = crds \ {u}
    /\ \/ rows' = rows \ {u} /\ UNCHANGED faults
       \/ Fault("row") /\ UNCHANGED rows
    /\ routed' = routed \ {u}
    /\ UNCHANGED <<svc, remote, cleared, suspect>>

\* Without a HerInstance: first the Service, the pod and the ConfigMap, ...
DeleteService(r, u) ==
    /\ Begins(r, "delete") /\ u \in rows \ crds
    /\ Becomes(r, [req[r] EXCEPT !.pc = "row", !.kind = "delete", !.about = {u}])
    /\ svc' = svc \ {u}
    /\ routed' = routed \ {u}
    /\ UNCHANGED <<crds, rows, remote, faults, cleared, suspect>>

\* ... then the row.
DeleteRow(r) ==
    /\ req[r].pc = "row"
    /\ \/ /\ Becomes(r, [req[r] EXCEPT !.pc = "config"])
          /\ rows' = rows \ req[r].about
          /\ routed' = routed \ req[r].about
          /\ UNCHANGED faults
       \/ Fault("call") /\ Raise(r) /\ UNCHANGED <<rows, routed>>
    /\ UNCHANGED <<crds, svc, remote, cleared, suspect>>

Sync(r) ==
    /\ Begins(r, "sync")
    /\ Becomes(r, [req[r] EXCEPT !.pc = "config", !.kind = "sync"])
    /\ UNCHANGED <<crds, rows, svc, remote, faults, routed, cleared, suspect>>

\* The operator creates the Service of a HerInstance; the cluster collects it.
ServiceUp(u) ==
    /\ u \in crds \ svc
    /\ svc' = svc \cup {u}
    /\ UNCHANGED <<crds, rows, remote, req, faults, routed, cleared, suspect>>

ServiceGone(u) ==
    /\ u \in svc \ Existing
    /\ svc' = svc \ {u}
    /\ UNCHANGED <<crds, rows, remote, req, faults, routed, cleared, suspect>>

-----------------------------------------------------------------------------
(* sync_tunnel_config and update_remote_ingress.                           *)

\* The ConfigMap, the restart of cloudflared, the DNS records.
SyncTunnelConfig(r) ==
    /\ req[r].pc \in {"post", "config"}
    /\ \/ /\ Becomes(r, [req[r] EXCEPT !.pc = IF Full(r) THEN "list" ELSE "get",
                                      !.targets = req[r].about])
          /\ UNCHANGED faults
       \/ Fault("call") /\ Raise(r)
    /\ UNCHANGED <<crds, rows, svc, remote, routed, cleared, suspect>>

\* From here on r goes by what it has read: it is in the way of the others, and
\* they of it.
Opens(r, q, alone) ==
    /\ req' = [p \in Requests |->
                 IF p = r THEN [q EXCEPT !.alone = alone /\ OnlyOne(r)]
                 ELSE [req[p] EXCEPT !.alone = FALSE]]
    /\ suspect' = (suspect \/ ~alone \/ ~OnlyOne(r))

\* HerInstances first, then rows; a list that fails counts as empty.
ListActive(r) ==
    /\ req[r].pc = "list"
    /\ \/ /\ Opens(r, [req[r] EXCEPT !.pc = "get", !.targets = Existing], TRUE)
          /\ UNCHANGED faults
       \/ \E found \in {crds, rows, {}} :
             /\ Opens(r, [req[r] EXCEPT !.pc = "get", !.targets = found], FALSE)
             /\ Fault("list")
    /\ UNCHANGED <<crds, rows, svc, remote, routed, cleared>>

\* Mutant: the catch-all is taken for a rule.
FetchedWhole(r) ==
    [req[r] EXCEPT !.pc = "look", !.ingress = remote \cup {"catch_all"}, !.todo = req[r].targets]

\* The document without its catch-all, then the address of auth-proxy.
Fetched(r) ==
    [req[r] EXCEPT !.pc = "look", !.ingress = remote, !.todo = req[r].targets]

GetRemoteIngress(r) ==
    /\ req[r].pc = "get"
    /\ \/ /\ IF Full(r) THEN Becomes(r, Fetched(r)) /\ UNCHANGED suspect
             ELSE Opens(r, Fetched(r), TRUE)
          /\ UNCHANGED faults
       \/ Fault("call") /\ Raise(r) /\ UNCHANGED suspect
    /\ UNCHANGED <<crds, rows, svc, remote, routed, cleared>>

\* A Service is there, perhaps after a wait; or not in time, or the call fails.
Look(r, u) ==
    /\ req[r].pc = "look" /\ u \in req[r].todo
    /\ \/ /\ u \in svc
          /\ Becomes(r, [req[r] EXCEPT !.todo = @ \ {u}, !.ready = @ \cup {u}])
          /\ UNCHANGED faults
       \/ /\ Becomes(r, [req[r] EXCEPT !.todo = @ \ {u}])
          /\ \/ u \notin svc /\ UNCHANGED faults
             \/ Fault("service")
    /\ UNCHANGED <<crds, rows, svc, remote, routed, cleared, suspect>>

ResolveInfra(r) ==
    /\ req[r].pc = "look" /\ req[r].todo = {}
    /\ \/ Becomes(r, [req[r] EXCEPT !.pc = "put", !.infra = TRUE]) /\ UNCHANGED faults
       \/ Becomes(r, [req[r] EXCEPT !.pc = "put"]) /\ Fault("service")
    /\ UNCHANGED <<crds, rows, svc, remote, routed, cleared, suspect>>

\* The rules that it wants, and of those it has found, the ones it keeps.
Desired(r) == req[r].ready \cup (IF req[r].infra THEN {Infra} ELSE {})

Managed == Instances \cup {Infra}

\* Mutant: what cannot be resolved is dropped.
PreservedResolved(r) == req[r].ingress \ (IF Full(r) THEN Managed ELSE {})

\* A sync of all keeps what is not managed, and what it could not resolve.
Preserved(r) ==
    IF Full(r)
    THEN {x \in req[r].ingress : x \in Managed => x \in (req[r].targets \cup {Infra}) \ Desired(r)}
    ELSE req[r].ingress

NewIngress(r) == Preserved(r) \cup Desired(r)

\* A new document that only differs in its order is written as well.
Put(r) ==
    \/ remote' = NewIngress(r)
    \/ NewIngress(r) = req[r].ingress /\ UNCHANGED remote

\* Nothing can bring the routes of u back: it is not there, was not listed, and
\* nobody is at adding it.
Cleared(r, u) ==
    /\ u \notin Existing \cup req[r].targets
    /\ \A q \in Requests : Active(q) /\ ~Full(q) => u \notin req[q].about

\* The result is ok for the instances that were found ready.
PutRemoteIngress(r) ==
    /\ req[r].pc = "put"
    /\ Raise(r)
    /\ \/ /\ Put(r)
          /\ routed' = routed \cup (req[r].ready \cap Existing)
          /\ cleared' = IF Full(r) THEN cleared \cup {u \in req[r].about : Cleared(r, u)} ELSE cleared
          /\ suspect' = (suspect /\ ~(Full(r) /\ req[r].alone /\ req[r].ready = req[r].targets))
          /\ UNCHANGED faults
       \/ /\ \/ Fault("call") /\ UNCHANGED remote
             \/ Fault("answer") /\ Put(r)
          /\ UNCHANGED <<routed, cleared, suspect>>
    /\ UNCHANGED <<crds, rows, svc>>

\* The process dies with its requests.
Crash ==
    /\ Fault("crash")
    /\ req' = [r \in Requests |-> IF Active(r) THEN Ended ELSE req[r]]
    /\ UNCHANGED <<crds, rows, svc, remote, routed, cleared, suspect>>

-----------------------------------------------------------------------------
Next ==
    \/ \E r \in Requests, u \in Instances :
          \/ PostHer(r, u) \/ InsertRow(r, u) \/ Wake(r, u) \/ DeleteHer(r, u) \/ DeleteService(r, u)
          \/ Look(r, u)
    \/ \E r \in Requests :
          \/ Sync(r) \/ DeleteRow(r) \/ SyncTunnelConfig(r) \/ ListActive(r)
          \/ GetRemoteIngress(r) \/ ResolveInfra(r) \/ PutRemoteIngress(r)
    \/ \E u \in Instances : ServiceUp(u) \/ ServiceGone(u)
    \/ Crash

Spec == Init /\ [][Next]_vars

-----------------------------------------------------------------------------
(* Properties.                                                             *)

\* Routes that are not ours and the infrastructure route survive everything, the
\* writes of an old document included.  Unless updates have overlapped or a list
\* has failed, an instance that was reported as routed stays so until it is
\* deleted, whatever Services are slow or not found, and a deleted one has no
\* routes left; and after an overlap or a failed list, one sync that has the tunnel
\* to itself and finds every Service puts it right, as the warnings of
\* _sync_cloudflare_for_instance promise (preserved_rules, unresolved_hostnames).
RoutesFollow ==
    /\ {Infra, Other} \subseteq remote
    /\ ~suspect => routed \subseteq remote /\ cleared \cap remote = {}

=============================================================================
