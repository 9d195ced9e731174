------------------------- MODULE TunnelRoutesProof -------------------------
(***************************************************************************)
(* Proofs about TunnelRoutes, for any instances, requests and faults.      *)
(*                                                                         *)
(* RoutesFollow is not inductive: what an update writes was read earlier.  *)
(* IInv adds what an update that has been alone since it opened still      *)
(* knows: the document it read is the one there is, and, when it goes by   *)
(* the list of all instances, that every routed instance is on the list    *)
(* and no cleared one.  While nothing is suspect every open update is      *)
(* alone; and one that lists all restores this whatever was there before.  *)
(***************************************************************************)
EXTENDS TunnelRoutes, TLAPS

-----------------------------------------------------------------------------
(* The inductive invariant.                                                *)

FullKind(q) == q.kind \in {"delete", "sync"}

Open(q) == q.pc \in {"look", "put"} \/ (FullKind(q) /\ q.pc = "get")

\* What holds of a request, given the document, the routed and the cleared.
Sound(q, document, reported, gone) ==
    /\ q.ready \subseteq q.targets
    /\ q.pc \notin {"look", "put"} => q.ready = {}
    /\ q.pc = "free" => q.about = {}
    /\ q.pc = "post" => q.kind = "add"
    /\ q.pc = "list" => FullKind(q)
    /\ q.pc = "look" => q.todo \subseteq q.targets
    /\ q.pc \in {"get", "look", "put"} /\ ~FullKind(q) => q.targets \subseteq q.about
    /\ q.pc \in {"look", "put"} => {Infra, Other} \subseteq q.ingress
    /\ q.pc \in {"look", "put"} /\ q.alone => q.ingress = document
    /\ Open(q) /\ FullKind(q) /\ q.alone => reported \subseteq q.targets /\ gone \cap q.targets = {}
    /\ q.pc \notin {"free", "done"} /\ ~FullKind(q) => gone \cap q.about = {}

Requested == \A r \in Requests : Sound(req[r], remote, routed, cleared)

Apart == \A r \in Requests : Open(req[r]) /\ req[r].alone => \A p \in Requests \ {r} : ~Open(req[p])

Trusted == ~suspect => \A r \in Requests : Open(req[r]) => req[r].alone

Reported == routed \subseteq Existing /\ cleared \cap Existing = {}

IInv == TypeOK /\ RoutesFollow /\ Reported /\ Requested /\ Apart /\ Trusted

-----------------------------------------------------------------------------
(* Requests.                                                               *)

\* A finished request knows nothing.
LEMMA EndedIsSound ==
    /\ Ended \in Request /\ ~Open(Ended) /\ Ended.pc = "done"
    /\ \A d, t, g : Sound(Ended, d, t, g)
<1>1. Ended = [pc |-> "done", kind |-> "sync", about |-> {}, targets |-> {}, todo |-> {},
               ready |-> {}, infra |-> FALSE, ingress |-> {}, alone |-> FALSE]
    BY DEF Ended, Blank
<1>2. Ended.pc = "done" /\ Ended.kind = "sync" /\ Ended.ready = {}
    BY <1>1
<1>3. Ended \in Request
    BY <1>1 DEF Request, AllKinds
<1>4. ~Open(Ended)
    BY <1>2 DEF Open, FullKind
<1>5. ASSUME NEW d, NEW t, NEW g PROVE Sound(Ended, d, t, g)
    BY <1>2, <1>4 DEF Sound
<1>6. QED
    BY <1>2, <1>3, <1>4, <1>5

\* With fewer instances routed and cleared, and the same document for those that
\* rely on it, a request stays sound.
LEMMA SoundKept ==
    ASSUME NEW q, NEW d, NEW t, NEW g, Sound(q, d, t, g),
           NEW d2, NEW t2, NEW g2, t2 \subseteq t, g2 \subseteq g,
           d2 = d \/ ~Open(q) \/ ~q.alone
    PROVE  Sound(q, d2, t2, g2)
BY DEF Sound, Open

\* A request moves on without opening an update.
LEMMA RequestStep ==
    ASSUME IInv, NEW r \in Requests, NEW q \in Request, Becomes(r, q),
           Sound(q, remote, routed', cleared'),
           Open(q) => Open(req[r]) /\ q.alone = req[r].alone,
           remote' = remote, routed' \subseteq routed, cleared' \subseteq cleared,
           suspect' = suspect
    PROVE  req' \in [Requests -> Request] /\ Requested' /\ Apart' /\ Trusted'
<1>1. /\ req \in [Requests -> Request] /\ req' = [req EXCEPT ![r] = q]
      /\ req'[r] = q /\ \A p \in Requests \ {r} : req'[p] = req[p]
    BY DEF IInv, TypeOK, Becomes
<1>2. req' \in [Requests -> Request]
    BY <1>1
<1>3. ASSUME NEW p \in Requests PROVE Sound(req'[p], remote', routed', cleared')
    <2>1. CASE p = r
        BY <1>1, <2>1
    <2>2. CASE p # r
        <3>1. Sound(req[p], remote, routed, cleared)
            BY DEF IInv, Requested
        <3>2. QED
            BY <3>1, <1>1, <2>2, SoundKept
    <2>3. QED
        BY <2>1, <2>2
<1>4. \A p \in Requests : Open(req'[p]) => Open(req[p]) /\ req'[p].alone = req[p].alone
    BY <1>1
<1>5. Apart' /\ Trusted'
    BY <1>4 DEF IInv, Apart, Trusted
<1>6. QED
    BY <1>2, <1>3, <1>5 DEF Requested

\* Or it ends.
LEMMA EndStep ==
    ASSUME IInv, NEW r \in Requests, Raise(r),
           remote' = remote, routed' \subseteq routed, cleared' \subseteq cleared,
           suspect' = suspect
    PROVE  req' \in [Requests -> Request] /\ Requested' /\ Apart' /\ Trusted'
BY EndedIsSound, RequestStep DEF Raise

\* It opens an update: others that are open are no longer alone.
LEMMA OpenStep ==
    ASSUME IInv, NEW r \in Requests, NEW q \in Request, NEW alone \in BOOLEAN,
           Opens(r, q, alone), Open(q), ~Open(req[r]),
           \A a \in BOOLEAN : (a => alone) => Sound([q EXCEPT !.alone = a], remote, routed, cleared),
           remote' = remote, routed' = routed, cleared' = cleared
    PROVE  /\ req' \in [Requests -> Request] /\ suspect' \in BOOLEAN
           /\ Requested' /\ Apart' /\ Trusted' /\ (suspect => suspect')
<1> DEFINE a == alone /\ OnlyOne(r)
           mine == [q EXCEPT !.alone = a]
           other(p) == [req[p] EXCEPT !.alone = FALSE]
<1>1. /\ req \in [Requests -> Request] /\ suspect \in BOOLEAN
      /\ suspect' = (suspect \/ ~alone \/ ~OnlyOne(r))
      /\ req' = [p \in Requests |-> IF p = r THEN mine ELSE other(p)]
    BY DEF IInv, TypeOK, Opens
<1>2. a \in BOOLEAN
    OBVIOUS
<1>3. mine \in Request /\ mine.alone = a /\ mine.pc = q.pc /\ mine.kind = q.kind
    BY <1>2 DEF Request
<1>4. ASSUME NEW p \in Requests
      PROVE  /\ other(p) \in Request /\ other(p).alone = FALSE /\ other(p).pc = req[p].pc
             /\ other(p).kind = req[p].kind /\ other(p).about = req[p].about
             /\ other(p).targets = req[p].targets /\ other(p).ready = req[p].ready
             /\ other(p).ingress = req[p].ingress
    BY <1>1 DEF Request
<1>5. Sound(mine, remote, routed, cleared)
    BY <1>2
<1> HIDE DEF mine, a
<1>6. ASSUME NEW p \in Requests
      PROVE  Sound(other(p), remote, routed, cleared) /\ (Open(other(p)) <=> Open(req[p]))
    <2>1. Sound(req[p], remote, routed, cleared)
        BY DEF IInv, Requested
    <2>2. QED
        BY <2>1, <1>4 DEF Sound, Open, FullKind
<1> HIDE DEF other
<1>7. req'[r] = mine /\ \A p \in Requests \ {r} : req'[p] = other(p)
    BY <1>1
<1>8. req' \in [Requests -> Request] /\ Requested'
    BY <1>1, <1>3, <1>4, <1>5, <1>6, <1>7 DEF Requested
<1>9. a = (alone /\ \A p \in Requests \ {r} : ~Open(req[p]))
    BY DEF a, OnlyOne, Updating, Open, Full, FullKind
<1>10. Apart'
    BY <1>3, <1>4, <1>6, <1>7, <1>9 DEF Apart
<1>11. Trusted'
    <2> SUFFICES ASSUME ~suspect', NEW p \in Requests, Open(req'[p]) PROVE req'[p].alone
        BY DEF Trusted
    <2>1. a /\ alone /\ OnlyOne(r)
        BY <1>1 DEF a
    <2>2. p = r
        BY <1>6, <1>7, <1>9, <2>1
    <2>3. QED
        BY <1>3, <1>7, <2>1, <2>2
<1>12. QED
    BY <1>1, <1>8, <1>10, <1>11

-----------------------------------------------------------------------------
(* Each action preserves the invariant.                                    *)

\* What the steps below start from.
LEMMA Known ==
    ASSUME IInv, NEW r \in Requests
    PROVE  req[r] \in Request /\ Sound(req[r], remote, routed, cleared)
BY DEF IInv, TypeOK, Requested

LEMMA PostHerStep ==
    ASSUME IInv, NEW r \in Requests, NEW u \in Instances, PostHer(r, u) PROVE IInv'
<1> DEFINE q == [req[r] EXCEPT !.pc = "post", !.kind = "add", !.about = @ \cup {u}]
<1>1. req[r] \in Request /\ Sound(req[r], remote, routed, cleared)
    BY Known
<1>2. req[r].pc = "free" \/ req[r].pc = "post"
    BY DEF PostHer, Begins
<1>3. /\ q \in Request /\ q.pc = "post" /\ q.kind = "add" /\ q.about = req[r].about \cup {u}
      /\ q.ready = req[r].ready /\ q.targets = req[r].targets
    BY <1>1 DEF Request, AllKinds
<1>4. Becomes(r, q)
    BY DEF PostHer
<1> HIDE DEF q
<1>5. cleared' = cleared \ {u} /\ routed' = routed /\ remote' = remote /\ suspect' = suspect
    BY DEF PostHer
<1>6. cleared \cap req[r].about = {}
    BY <1>1, <1>2 DEF Sound, FullKind
<1>7. Sound(q, remote, routed', cleared') /\ ~Open(q)
    BY <1>1, <1>2, <1>3, <1>5, <1>6 DEF Sound, Open, FullKind
<1>8. req' \in [Requests -> Request] /\ Requested' /\ Apart' /\ Trusted'
    BY <1>3, <1>4, <1>5, <1>7, RequestStep
<1>9. TypeOK' /\ RoutesFollow' /\ Reported'
    BY <1>8 DEF IInv, TypeOK, RoutesFollow, Reported, Existing, PostHer
<1>10. QED
    BY <1>8, <1>9 DEF IInv

LEMMA InsertRowStep ==
    ASSUME IInv, NEW r \in Requests, NEW u \in Instances, InsertRow(r, u) PROVE IInv'
<1> DEFINE q == [req[r] EXCEPT !.pc = "config", !.kind = "add", !.about = {u}]
<1>1. req[r] \in Request /\ Sound(req[r], remote, routed, cleared) /\ req[r].pc = "free"
    BY Known DEF InsertRow, Begins
<1>2. /\ q \in Request /\ q.pc = "config" /\ q.kind = "add" /\ q.about = {u}
      /\ q.ready = req[r].ready /\ q.targets = req[r].targets
    BY <1>1 DEF Request, AllKinds
<1>3. Becomes(r, q)
    BY DEF InsertRow
<1> HIDE DEF q
<1>4. cleared' = cleared \ {u} /\ routed' = routed /\ remote' = remote /\ suspect' = suspect
    BY DEF InsertRow
<1>5. Sound(q, remote, routed', cleared') /\ ~Open(q)
    BY <1>1, <1>2, <1>4 DEF Sound, Open, FullKind
<1>6. req' \in [Requests -> Request] /\ Requested' /\ Apart' /\ Trusted'
    BY <1>2, <1>3, <1>4, <1>5, RequestStep
<1>7. TypeOK' /\ RoutesFollow' /\ Reported'
    <2>1. faults' \in 0..MaxFaults
        BY TunnelAssumptions DEF IInv, TypeOK, InsertRow, Fault
    <2>2. QED
        BY <1>6, <2>1 DEF IInv, TypeOK, RoutesFollow, Reported, Existing, InsertRow
<1>8. QED
    BY <1>6, <1>7 DEF IInv

LEMMA WakeStep ==
    ASSUME IInv, NEW r \in Requests, NEW u \in Instances, Wake(r, u) PROVE IInv'
<1> DEFINE q == [req[r] EXCEPT !.pc = "config", !.kind = "add", !.about = {u}]
<1>1. req[r] \in Request /\ Sound(req[r], remote, routed, cleared) /\ req[r].pc = "free"
    BY Known DEF Wake, Begins
<1>2. /\ q \in Request /\ q.pc = "config" /\ q.kind = "add" /\ q.about = {u}
      /\ q.ready = req[r].ready /\ q.targets = req[r].targets
    BY <1>1 DEF Request, AllKinds
<1>3. Becomes(r, q)
    BY DEF Wake
<1> HIDE DEF q
<1>4. cleared' = cleared \ {u} /\ routed' = routed /\ remote' = remote /\ suspect' = suspect
    BY DEF Wake
<1>5. Sound(q, remote, routed', cleared') /\ ~Open(q)
    BY <1>1, <1>2, <1>4 DEF Sound, Open, FullKind
<1>6. req' \in [Requests -> Request] /\ Requested' /\ Apart' /\ Trusted'
    BY <1>2, <1>3, <1>4, <1>5, RequestStep
<1>7. TypeOK' /\ RoutesFollow' /\ Reported'
    BY <1>6 DEF IInv, TypeOK, RoutesFollow, Reported, Existing, Wake
<1>8. QED
    BY <1>6, <1>7 DEF IInv

LEMMA DeleteHerStep ==
    ASSUME IInv, NEW r \in Requests, NEW u \in Instances, DeleteHer(r, u) PROVE IInv'
<1> DEFINE q == [req[r] EXCEPT !.pc = "config", !.kind = "delete", !.about = {u}]
<1>1. req[r] \in Request /\ Sound(req[r], remote, routed, cleared) /\ req[r].pc = "free"
    BY Known DEF DeleteHer, Begins
<1>2. /\ q \in Request /\ q.pc = "config" /\ q.kind = "delete"
      /\ q.ready = req[r].ready /\ q.targets = req[r].targets
    BY <1>1 DEF Request, AllKinds
<1>3. Becomes(r, q)
    BY DEF DeleteHer
<1> HIDE DEF q
<1>4. cleared' = cleared /\ routed' = routed \ {u} /\ remote' = remote /\ suspect' = suspect
    BY DEF DeleteHer
<1>5. Sound(q, remote, routed', cleared') /\ ~Open(q)
    BY <1>1, <1>2, <1>4 DEF Sound, Open, FullKind
<1>6. req' \in [Requests -> Request] /\ Requested' /\ Apart' /\ Trusted'
    BY <1>2, <1>3, <1>4, <1>5, RequestStep
<1>7. TypeOK' /\ RoutesFollow' /\ Reported'
    <2>1. faults' \in 0..MaxFaults
        BY TunnelAssumptions DEF IInv, TypeOK, DeleteHer, Fault
    <2>2. QED
        BY <1>6, <2>1 DEF IInv, TypeOK, RoutesFollow, Reported, Existing, DeleteHer
<1>8. QED
    BY <1>6, <1>7 DEF IInv

LEMMA DeleteServiceStep ==
    ASSUME IInv, NEW r \in Requests, NEW u \in Instances, DeleteService(r, u) PROVE IInv'
<1> DEFINE q == [req[r] EXCEPT !.pc = "row", !.kind = "delete", !.about = {u}]
<1>1. req[r] \in Request /\ Sound(req[r], remote, routed, cleared) /\ req[r].pc = "free"
    BY Known DEF DeleteService, Begins
<1>2. /\ q \in Request /\ q.pc = "row" /\ q.kind = "delete"
      /\ q.ready = req[r].ready /\ q.targets = req[r].targets
    BY <1>1 DEF Request, AllKinds
<1>3. Becomes(r, q)
    BY DEF DeleteService
<1> HIDE DEF q
<1>4. cleared' = cleared /\ routed' = routed \ {u} /\ remote' = remote /\ suspect' = suspect
    BY DEF DeleteService
<1>5. Sound(q, remote, routed', cleared') /\ ~Open(q)
    BY <1>1, <1>2, <1>4 DEF Sound, Open, FullKind
<1>6. req' \in [Requests -> Request] /\ Requested' /\ Apart' /\ Trusted'
    BY <1>2, <1>3, <1>4, <1>5, RequestStep
<1>7. TypeOK' /\ RoutesFollow' /\ Reported'
    BY <1>6 DEF IInv, TypeOK, RoutesFollow, Reported, Existing, DeleteService
<1>8. QED
    BY <1>6, <1>7 DEF IInv

LEMMA DeleteRowStep ==
    ASSUME IInv, NEW r \in Requests, DeleteRow(r) PROVE IInv'
<1> DEFINE q == [req[r] EXCEPT !.pc = "config"]
<1>1. req[r] \in Request /\ Sound(req[r], remote, routed, cleared) /\ req[r].pc = "row"
    BY Known DEF DeleteRow
<1>2. /\ q \in Request /\ q.pc = "config" /\ q.kind = req[r].kind /\ q.about = req[r].about
      /\ q.ready = req[r].ready /\ q.targets = req[r].targets
    BY <1>1 DEF Request
<1>3. Becomes(r, q) \/ Raise(r)
    BY DEF DeleteRow
<1> HIDE DEF q
<1>4. cleared' = cleared /\ routed' \subseteq routed /\ remote' = remote /\ suspect' = suspect
    BY DEF DeleteRow
<1>5. Sound(q, remote, routed', cleared') /\ ~Open(q)
    BY <1>1, <1>2, <1>4 DEF Sound, Open, FullKind
<1>6. req' \in [Requests -> Request] /\ Requested' /\ Apart' /\ Trusted'
    BY <1>2, <1>3, <1>4, <1>5, RequestStep, EndStep
<1>7. TypeOK' /\ RoutesFollow' /\ Reported'
    <2>1. faults' \in 0..MaxFaults
        BY TunnelAssumptions DEF IInv, TypeOK, DeleteRow, Fault
    <2>2. rows' \in SUBSET Instances /\ routed' \subseteq crds' \cup rows'
        BY DEF IInv, TypeOK, Reported, Existing, DeleteRow
    <2>3. rows' \subseteq rows
        BY DEF DeleteRow
    <2>4. QED
        BY <1>4, <1>6, <2>1, <2>2, <2>3 DEF IInv, TypeOK, RoutesFollow, Reported, Existing, DeleteRow
<1>8. QED
    BY <1>6, <1>7 DEF IInv

LEMMA SyncStep ==
    ASSUME IInv, NEW r \in Requests, Sync(r) PROVE IInv'
<1> DEFINE q == [req[r] EXCEPT !.pc = "config", !.kind = "sync"]
<1>1. req[r] \in Request /\ Sound(req[r], remote, routed, cleared) /\ req[r].pc = "free"
    BY Known DEF Sync, Begins
<1>2. /\ q \in Request /\ q.pc = "config" /\ q.kind = "sync"
      /\ q.ready = req[r].ready /\ q.targets = req[r].targets
    BY <1>1 DEF Request, AllKinds
<1>3. Becomes(r, q)
    BY DEF Sync
<1> HIDE DEF q
<1>4. cleared' = cleared /\ routed' = routed /\ remote' = remote /\ suspect' = suspect
    BY DEF Sync
<1>5. Sound(q, remote, routed', cleared') /\ ~Open(q)
    BY <1>1, <1>2, <1>4 DEF Sound, Open, FullKind
<1>6. req' \in [Requests -> Request] /\ Requested' /\ Apart' /\ Trusted'
    BY <1>2, <1>3, <1>4, <1>5, RequestStep
<1>7. TypeOK' /\ RoutesFollow' /\ Reported'
    BY <1>6 DEF IInv, TypeOK, RoutesFollow, Reported, Existing, Sync
<1>8. QED
    BY <1>6, <1>7 DEF IInv

\* Services come and go: the invariant does not speak of them.
LEMMA ServiceStep ==
    ASSUME IInv, NEW u \in Instances, ServiceUp(u) \/ ServiceGone(u) PROVE IInv'
<1>1. /\ svc' \in SUBSET Instances
      /\ UNCHANGED <<crds, rows, remote, req, faults, routed, cleared, suspect>>
    BY DEF IInv, TypeOK, ServiceUp, ServiceGone
<1>2. TypeOK' /\ RoutesFollow' /\ Reported'
    BY <1>1 DEF IInv, TypeOK, RoutesFollow, Reported, Existing
<1>3. Requested' /\ Apart' /\ Trusted'
    BY <1>1 DEF IInv, Requested, Apart, Trusted
<1>4. QED
    BY <1>2, <1>3 DEF IInv

LEMMA SyncTunnelConfigStep ==
    ASSUME IInv, NEW r \in Requests, SyncTunnelConfig(r) PROVE IInv'
<1> DEFINE q == [req[r] EXCEPT !.pc = IF Full(r) THEN "list" ELSE "get", !.targets = req[r].about]
<1>1. /\ req[r] \in Request /\ Sound(req[r], remote, routed, cleared)
      /\ req[r].pc \in {"post", "config"}
    BY Known DEF SyncTunnelConfig
<1>2. /\ q \in Request /\ q.pc = IF FullKind(req[r]) THEN "list" ELSE "get"
      /\ q.kind = req[r].kind /\ q.about = req[r].about
      /\ q.ready = req[r].ready /\ q.targets = req[r].about
    BY <1>1 DEF Request, Full, FullKind
<1>3. Becomes(r, q) \/ Raise(r)
    BY DEF SyncTunnelConfig
<1> HIDE DEF q
<1>4. cleared' = cleared /\ routed' = routed /\ remote' = remote /\ suspect' = suspect
    BY DEF SyncTunnelConfig
<1>5. Sound(q, remote, routed', cleared') /\ ~Open(q)
    BY <1>1, <1>2, <1>4 DEF Sound, Open, FullKind
<1>6. req' \in [Requests -> Request] /\ Requested' /\ Apart' /\ Trusted'
    BY <1>2, <1>3, <1>4, <1>5, RequestStep, EndStep
<1>7. TypeOK' /\ RoutesFollow' /\ Reported'
    <2>1. faults' \in 0..MaxFaults
        BY TunnelAssumptions DEF IInv, TypeOK, SyncTunnelConfig, Fault
    <2>2. QED
        BY <1>6, <2>1 DEF IInv, TypeOK, RoutesFollow, Reported, Existing, SyncTunnelConfig
<1>8. QED
    BY <1>6, <1>7 DEF IInv

\* A complete list holds every routed instance and no cleared one.
LEMMA ListActiveStep ==
    ASSUME IInv, NEW r \in Requests, ListActive(r) PROVE IInv'
<1> DEFINE q(found) == [req[r] EXCEPT !.pc = "get", !.targets = found]
           listed(found, whole) == [q(found) EXCEPT !.alone = whole]
<1>1. /\ req[r] \in Request /\ Sound(req[r], remote, routed, cleared)
      /\ req[r].pc = "list" /\ FullKind(req[r])
    BY Known DEF ListActive, Sound
<1>2. crds \in SUBSET Instances /\ rows \in SUBSET Instances /\ Existing \in SUBSET Instances
    BY DEF IInv, TypeOK, Existing
<1>3. ASSUME NEW found \in SUBSET Instances
      PROVE  /\ q(found) \in Request /\ q(found).pc = "get" /\ q(found).kind = req[r].kind
             /\ q(found).about = req[r].about /\ q(found).ready = req[r].ready
             /\ q(found).targets = found
    BY <1>1 DEF Request
<1>4. PICK found \in SUBSET Instances, whole \in BOOLEAN :
          Opens(r, q(found), whole) /\ (whole => found = Existing)
    <2>1. CASE Opens(r, q(Existing), TRUE)
        BY <1>2, <2>1
    <2>2. CASE \E found \in {crds, rows, {}} : Opens(r, q(found), FALSE)
        BY <1>2, <2>2
    <2>3. QED
        BY <2>1, <2>2 DEF ListActive
<1> HIDE DEF q
<1>5. ASSUME NEW a \in BOOLEAN
      PROVE  /\ listed(found, a).pc = "get" /\ listed(found, a).kind = req[r].kind
             /\ listed(found, a).about = req[r].about /\ listed(found, a).ready = req[r].ready
             /\ listed(found, a).targets = found /\ listed(found, a).alone = a
    BY <1>3 DEF Request
<1> HIDE DEF listed
<1>6. routed \subseteq Existing /\ cleared \cap Existing = {}
    BY DEF IInv, Reported
<1>7. ASSUME NEW a \in BOOLEAN, a => whole
      PROVE  Sound(listed(found, a), remote, routed, cleared)
    BY <1>1, <1>4, <1>5, <1>6, <1>7 DEF Sound, Open, FullKind
<1>8. Open(q(found)) /\ ~Open(req[r])
    BY <1>1, <1>3 DEF Open, FullKind
<1>9. remote' = remote /\ routed' = routed /\ cleared' = cleared
    BY DEF ListActive
<1>10. /\ req' \in [Requests -> Request] /\ suspect' \in BOOLEAN
       /\ Requested' /\ Apart' /\ Trusted' /\ (suspect => suspect')
    BY <1>3, <1>4, <1>7, <1>8, <1>9, OpenStep DEF listed
<1>11. TypeOK' /\ RoutesFollow' /\ Reported'
    <2>1. faults' \in 0..MaxFaults
        <3>1. faults' = faults \/ (faults < MaxFaults /\ faults' = faults + 1)
            BY DEF ListActive, Fault
        <3>2. QED
            BY <3>1, TunnelAssumptions DEF IInv, TypeOK
    <2>2. QED
        BY <1>10, <2>1 DEF IInv, TypeOK, RoutesFollow, Reported, Existing, ListActive
<1>12. QED
    BY <1>10, <1>11 DEF IInv

LEMMA GetRemoteIngressStep ==
    ASSUME IInv, NEW r \in Requests, GetRemoteIngress(r) PROVE IInv'
<1> DEFINE q == Fetched(r)
           opened(a) == [q EXCEPT !.alone = a]
<1>1. /\ req[r] \in Request /\ Sound(req[r], remote, routed, cleared) /\ req[r].pc = "get"
    BY Known DEF GetRemoteIngress
<1>2. remote \in SUBSET Routes /\ {Infra, Other} \subseteq remote
    BY DEF IInv, TypeOK, RoutesFollow
<1>3. /\ q \in Request /\ q.pc = "look" /\ q.kind = req[r].kind /\ q.about = req[r].about
      /\ q.ready = req[r].ready /\ q.targets = req[r].targets /\ q.todo = req[r].targets
      /\ q.ingress = remote /\ q.alone = req[r].alone
    BY <1>1, <1>2 DEF Request, Fetched
<1>4. \/ FullKind(req[r]) /\ Becomes(r, q) /\ UNCHANGED suspect
      \/ ~FullKind(req[r]) /\ Opens(r, q, TRUE)
      \/ Raise(r) /\ UNCHANGED suspect
    BY DEF GetRemoteIngress, Full, FullKind
<1> HIDE DEF q
<1>5. ASSUME NEW a \in BOOLEAN
      PROVE  /\ opened(a).pc = "look" /\ opened(a).kind = req[r].kind
             /\ opened(a).about = req[r].about /\ opened(a).ready = req[r].ready
             /\ opened(a).targets = req[r].targets /\ opened(a).todo = req[r].targets
             /\ opened(a).ingress = remote /\ opened(a).alone = a
    BY <1>3 DEF Request
<1> HIDE DEF opened
<1>6. remote' = remote /\ routed' = routed /\ cleared' = cleared
    BY DEF GetRemoteIngress
<1> DEFINE Kept == req' \in [Requests -> Request] /\ Requested' /\ Apart' /\ Trusted'
<1>7. ASSUME FullKind(req[r]), Becomes(r, q), suspect' = suspect PROVE Kept
    <2>1. Sound(q, remote, routed, cleared) /\ Open(q) /\ Open(req[r])
        BY <1>1, <1>2, <1>3, <1>7 DEF Sound, Open, FullKind
    <2>2. QED
        BY <1>3, <1>6, <1>7, <2>1, RequestStep
<1>8. ASSUME ~FullKind(req[r]), Opens(r, q, TRUE) PROVE Kept
    <2>1. ASSUME NEW a \in BOOLEAN PROVE Sound(opened(a), remote, routed, cleared)
        BY <1>1, <1>2, <1>5, <1>8 DEF Sound, Open, FullKind
    <2>2. Open(q) /\ ~Open(req[r])
        BY <1>1, <1>3, <1>8 DEF Open
    <2>3. QED
        BY <1>3, <1>6, <1>8, <2>1, <2>2, OpenStep DEF opened
<1>9. ASSUME Raise(r), suspect' = suspect PROVE Kept
    BY <1>6, <1>9, EndStep
<1>10. Kept
    BY <1>4, <1>7, <1>8, <1>9
<1>11. suspect \in BOOLEAN /\ suspect' \in BOOLEAN /\ (suspect => suspect')
    BY <1>4 DEF IInv, TypeOK, Opens
<1>12. TypeOK' /\ RoutesFollow' /\ Reported'
    <2>1. faults' \in 0..MaxFaults
        <3>1. faults' = faults \/ (faults < MaxFaults /\ faults' = faults + 1)
            BY DEF GetRemoteIngress, Fault
        <3>2. QED
            BY <3>1, TunnelAssumptions DEF IInv, TypeOK
    <2>2. QED
        BY <1>10, <1>11, <2>1 DEF IInv, TypeOK, RoutesFollow, Reported, Existing, GetRemoteIngress
<1>13. QED
    BY <1>10, <1>12 DEF IInv

LEMMA LookStep ==
    ASSUME IInv, NEW r \in Requests, NEW u \in Instances, Look(r, u) PROVE IInv'
<1> DEFINE found == [req[r] EXCEPT !.todo = @ \ {u}, !.ready = @ \cup {u}]
           missed == [req[r] EXCEPT !.todo = @ \ {u}]
<1>1. /\ req[r] \in Request /\ Sound(req[r], remote, routed, cleared)
      /\ req[r].pc = "look" /\ u \in req[r].todo
    BY Known DEF Look
<1>2. /\ found \in Request /\ found.pc = "look" /\ found.kind = req[r].kind
      /\ found.about = req[r].about /\ found.ready = req[r].ready \cup {u}
      /\ found.targets = req[r].targets /\ found.todo = req[r].todo \ {u}
      /\ found.ingress = req[r].ingress /\ found.alone = req[r].alone
    BY <1>1 DEF Request
<1>3. /\ missed \in Request /\ missed.pc = "look" /\ missed.kind = req[r].kind
      /\ missed.about = req[r].about /\ missed.ready = req[r].ready
      /\ missed.targets = req[r].targets /\ missed.todo = req[r].todo \ {u}
      /\ missed.ingress = req[r].ingress /\ missed.alone = req[r].alone
    BY <1>1 DEF Request
<1>4. Becomes(r, found) \/ Becomes(r, missed)
    BY DEF Look
<1> HIDE DEF found, missed
<1>5. cleared' = cleared /\ routed' = routed /\ remote' = remote /\ suspect' = suspect
    BY DEF Look
<1>6. Sound(found, remote, routed, cleared) /\ Open(found) /\ Open(req[r])
    BY <1>1, <1>2 DEF Sound, Open, FullKind
<1>7. Sound(missed, remote, routed, cleared) /\ Open(missed)
    BY <1>1, <1>3 DEF Sound, Open, FullKind
<1>8. req' \in [Requests -> Request] /\ Requested' /\ Apart' /\ Trusted'
    BY <1>2, <1>3, <1>4, <1>5, <1>6, <1>7, RequestStep
<1>9. TypeOK' /\ RoutesFollow' /\ Reported'
    <2>1. faults' \in 0..MaxFaults
        BY TunnelAssumptions DEF IInv, TypeOK, Look, Fault
    <2>2. QED
        BY <1>8, <2>1 DEF IInv, TypeOK, RoutesFollow, Reported, Existing, Look
<1>10. QED
    BY <1>8, <1>9 DEF IInv

LEMMA ResolveInfraStep ==
    ASSUME IInv, NEW r \in Requests, ResolveInfra(r) PROVE IInv'
<1> DEFINE found == [req[r] EXCEPT !.pc = "put", !.infra = TRUE]
           missed == [req[r] EXCEPT !.pc = "put"]
<1>1. /\ req[r] \in Request /\ Sound(req[r], remote, routed, cleared) /\ req[r].pc = "look"
    BY Known DEF ResolveInfra
<1>2. /\ found \in Request /\ found.pc = "put" /\ found.kind = req[r].kind
      /\ found.about = req[r].about /\ found.ready = req[r].ready
      /\ found.targets = req[r].targets
      /\ found.ingress = req[r].ingress /\ found.alone = req[r].alone
    BY <1>1 DEF Request
<1>3. /\ missed \in Request /\ missed.pc = "put" /\ missed.kind = req[r].kind
      /\ missed.about = req[r].about /\ missed.ready = req[r].ready
      /\ missed.targets = req[r].targets
      /\ missed.ingress = req[r].ingress /\ missed.alone = req[r].alone
    BY <1>1 DEF Request
<1>4. Becomes(r, found) \/ Becomes(r, missed)
    BY DEF ResolveInfra
<1> HIDE DEF found, missed
<1>5. cleared' = cleared /\ routed' = routed /\ remote' = remote /\ suspect' = suspect
    BY DEF ResolveInfra
<1>6. Sound(found, remote, routed, cleared) /\ Open(found) /\ Open(req[r])
    BY <1>1, <1>2 DEF Sound, Open, FullKind
<1>7. Sound(missed, remote, routed, cleared) /\ Open(missed)
    BY <1>1, <1>3 DEF Sound, Open, FullKind
<1>8. req' \in [Requests -> Request] /\ Requested' /\ Apart' /\ Trusted'
    BY <1>2, <1>3, <1>4, <1>5, <1>6, <1>7, RequestStep
<1>9. TypeOK' /\ RoutesFollow' /\ Reported'
    <2>1. faults' \in 0..MaxFaults
        BY TunnelAssumptions DEF IInv, TypeOK, ResolveInfra, Fault
    <2>2. QED
        BY <1>8, <2>1 DEF IInv, TypeOK, RoutesFollow, Reported, Existing, ResolveInfra
<1>10. QED
    BY <1>8, <1>9 DEF IInv

-----------------------------------------------------------------------------
(* The write.                                                              *)

\* What an update writes.  It keeps the routes of others and of the
\* infrastructure, found or not; and every route it knows and was asked to keep.
LEMMA Written ==
    ASSUME IInv, NEW r \in Requests, req[r].pc = "put"
    PROVE  /\ NewIngress(r) \in SUBSET Routes
           /\ {Infra, Other} \subseteq NewIngress(r)
           /\ req[r].ready \subseteq NewIngress(r)
           /\ Full(r) => NewIngress(r) \cap Instances \subseteq req[r].targets
           /\ Full(r) => req[r].ingress \cap req[r].targets \subseteq NewIngress(r)
           /\ ~Full(r) => req[r].ingress \subseteq NewIngress(r)
           /\ ~Full(r) => NewIngress(r) \subseteq req[r].ingress \cup req[r].ready \cup {Infra}
<1>1. req[r] \in Request /\ Sound(req[r], remote, routed, cleared)
    BY Known
<1>2. /\ req[r].ready \subseteq req[r].targets /\ req[r].targets \subseteq Instances
      /\ req[r].ingress \subseteq Routes /\ {Infra, Other} \subseteq req[r].ingress
    BY <1>1 DEF Sound, Request
<1>3. Infra \notin Instances /\ Other \notin Instances /\ Infra # Other
    BY TunnelAssumptions
<1>4. CASE Full(r)
    <2> DEFINE mine == (req[r].targets \cup {Infra}) \ Desired(r)
    <2>1. Preserved(r) = {x \in req[r].ingress : x \in Managed => x \in mine}
        BY <1>4 DEF Preserved
    <2>2. req[r].ready \subseteq Desired(r) /\ Desired(r) \subseteq req[r].ready \cup {Infra}
        BY DEF Desired
    <2>3. NewIngress(r) = Preserved(r) \cup Desired(r)
        BY DEF NewIngress
    <2>4. Managed = Instances \cup {Infra} /\ Routes = Instances \cup {Infra, Other}
        BY DEF Managed, Routes
    <2> HIDE DEF mine
    <2>5. mine = (req[r].targets \cup {Infra}) \ Desired(r)
        BY DEF mine
    <2>6. QED
        BY <1>2, <1>3, <1>4, <2>1, <2>2, <2>3, <2>4, <2>5
<1>5. CASE ~Full(r)
    BY <1>2, <1>5 DEF NewIngress, Preserved, Desired, Routes
<1>6. QED
    BY <1>4, <1>5

\* The document after a write by one that has been alone, if nothing was suspect
\* or if it has found all there is.
LEMMA WrittenAlone ==
    ASSUME IInv, NEW r \in Requests, req[r].pc = "put", req[r].alone,
           ~suspect \/ (Full(r) /\ req[r].ready = req[r].targets), Put(r)
    PROVE  routed \cup req[r].ready \subseteq remote' /\ cleared \cap remote' = {}
<1>1. req[r] \in Request /\ Sound(req[r], remote, routed, cleared)
    BY Known
<1>2. Full(r) <=> FullKind(req[r])
    BY DEF Full, FullKind
<1>3. req[r].ingress = remote /\ remote' = NewIngress(r)
    BY <1>1 DEF Sound, Put
<1>4. Full(r) => routed \subseteq req[r].targets /\ cleared \cap req[r].targets = {}
    BY <1>1, <1>2 DEF Sound, Open
<1>5. ~Full(r) => req[r].targets \subseteq req[r].about /\ cleared \cap req[r].about = {}
    BY <1>1, <1>2 DEF Sound
<1>6. req[r].ready \subseteq req[r].targets
    BY <1>1 DEF Sound
<1>7. ~suspect => routed \subseteq remote /\ cleared \cap remote = {}
    BY DEF IInv, RoutesFollow
<1>8. cleared \subseteq Instances /\ Infra \notin Instances
    BY TunnelAssumptions DEF IInv, TypeOK
<1>9. /\ req[r].ready \subseteq NewIngress(r)
      /\ Full(r) => NewIngress(r) \cap Instances \subseteq req[r].targets
      /\ Full(r) => req[r].ingress \cap req[r].targets \subseteq NewIngress(r)
      /\ ~Full(r) => req[r].ingress \subseteq NewIngress(r)
      /\ ~Full(r) => NewIngress(r) \subseteq req[r].ingress \cup req[r].ready \cup {Infra}
    BY Written
<1>10. CASE Full(r)
    BY <1>3, <1>4, <1>7, <1>8, <1>9, <1>10
<1>11. CASE ~Full(r)
    BY <1>3, <1>5, <1>6, <1>7, <1>8, <1>9, <1>11
<1>12. QED
    BY <1>10, <1>11

LEMMA PutRemoteIngressStep ==
    ASSUME IInv, NEW r \in Requests, PutRemoteIngress(r) PROVE IInv'
<1>1. req[r] \in Request /\ Sound(req[r], remote, routed, cleared) /\ req[r].pc = "put"
    BY Known DEF PutRemoteIngress
<1>2. /\ req' = [req EXCEPT ![r] = Ended] /\ crds' = crds /\ rows' = rows /\ svc' = svc
      /\ Open(req[r]) /\ req \in [Requests -> Request]
    BY <1>1 DEF PutRemoteIngress, Raise, Becomes, Open, IInv, TypeOK
<1>3. /\ req' \in [Requests -> Request] /\ req'[r] = Ended
      /\ \A p \in Requests \ {r} : req'[p] = req[p]
    BY <1>2, EndedIsSound
<1>4. remote' = remote \/ Put(r)
    BY DEF PutRemoteIngress
<1>5. remote' \in SUBSET Routes /\ {Infra, Other} \subseteq remote'
    <2>1. remote \in SUBSET Routes /\ {Infra, Other} \subseteq remote
        BY DEF IInv, TypeOK, RoutesFollow
    <2>2. QED
        BY <1>1, <1>4, <2>1, Written DEF Put
<1>6. PICK more \in SUBSET Existing, gone \in SUBSET req[r].about :
          /\ routed' = routed \cup more /\ cleared' = cleared \cup gone
          /\ \A u \in gone : Full(r) /\ Cleared(r, u)
          /\ more \cup gone # {} => Put(r)
          /\ more \subseteq req[r].ready
    <2>1. CASE routed' = routed /\ cleared' = cleared
        <3>1. routed' = routed \cup {} /\ cleared' = cleared \cup {} /\ {} \cup {} = {}
            BY <2>1
        <3>2. QED
            BY <3>1
    <2>2. CASE /\ Put(r)
               /\ routed' = routed \cup (req[r].ready \cap Existing)
               /\ cleared' = IF Full(r) THEN cleared \cup {u \in req[r].about : Cleared(r, u)} ELSE cleared
        <3> DEFINE gone == IF Full(r) THEN {u \in req[r].about : Cleared(r, u)} ELSE {}
        <3>1. gone \in SUBSET req[r].about /\ cleared' = cleared \cup gone
            BY <2>2
        <3>2. \A u \in gone : Full(r) /\ Cleared(r, u)
            OBVIOUS
        <3> HIDE DEF gone
        <3>3. QED
            BY <2>2, <3>1, <3>2
    <2>3. QED
        BY <2>1, <2>2 DEF PutRemoteIngress
<1>7. \A u \in gone : u \notin Existing \cup req[r].targets
    BY <1>6 DEF Cleared
<1>8. Reported' /\ routed' \in SUBSET Instances /\ cleared' \in SUBSET Instances
    BY <1>1, <1>2, <1>6, <1>7 DEF IInv, TypeOK, Reported, Existing, Request
<1>9. ~suspect' => \/ ~suspect
                   \/ Put(r) /\ Full(r) /\ req[r].alone /\ req[r].ready = req[r].targets
    BY DEF PutRemoteIngress
<1>10. suspect' \in BOOLEAN /\ faults' \in 0..MaxFaults
    <2>1. faults' = faults \/ (faults < MaxFaults /\ faults' = faults + 1)
        BY DEF PutRemoteIngress, Fault
    <2>2. faults' \in 0..MaxFaults
        BY <2>1, TunnelAssumptions DEF IInv, TypeOK
    <2>3. suspect' \in BOOLEAN
        BY DEF IInv, TypeOK, PutRemoteIngress
    <2>4. QED
        BY <2>2, <2>3
<1>11. TypeOK'
    BY <1>2, <1>3, <1>5, <1>8, <1>10 DEF IInv, TypeOK
<1>12. RoutesFollow'
    <2> SUFFICES ASSUME ~suspect' PROVE routed' \subseteq remote' /\ cleared' \cap remote' = {}
        BY <1>5 DEF RoutesFollow
    <2>1. ~suspect => req[r].alone
        BY <1>2 DEF IInv, Trusted
    <2>2. CASE UNCHANGED <<remote, routed, cleared>> /\ ~suspect
        BY <2>2 DEF IInv, RoutesFollow
    <2>3. CASE Put(r)
        <3>1. req[r].alone /\ (~suspect \/ (Full(r) /\ req[r].ready = req[r].targets))
            BY <1>9, <2>1
        <3>2. routed \cup req[r].ready \subseteq remote' /\ cleared \cap remote' = {}
            BY <1>1, <2>3, <3>1, WrittenAlone
        <3>3. gone \cap remote' = {}
            <4> SUFFICES ASSUME NEW u \in gone PROVE u \notin remote'
                OBVIOUS
            <4>1. Full(r) /\ u \in Instances /\ u \notin req[r].targets
                BY <1>1, <1>6, <1>7 DEF Request
            <4>2. remote' = NewIngress(r)
                BY <1>1, <2>3, <3>1 DEF Put, Sound
            <4>3. QED
                BY <1>1, <4>1, <4>2, Written
        <3>4. QED
            BY <1>6, <3>2, <3>3
    <2>4. QED
        BY <1>6, <1>9, <1>4, <2>2, <2>3
<1>13. Requested'
    <2> SUFFICES ASSUME NEW p \in Requests PROVE Sound(req'[p], remote', routed', cleared')
        BY DEF Requested
    <2>1. CASE p = r
        BY <1>3, <2>1, EndedIsSound
    <2>2. CASE p # r
        <3>1. Sound(req[p], remote, routed, cleared)
            BY DEF IInv, Requested
        <3>2. ~Open(req[p]) \/ ~req[p].alone
            BY <1>2, <2>2 DEF IInv, Apart
        <3>3. req[p].pc \notin {"free", "done"} /\ ~FullKind(req[p]) => gone \cap req[p].about = {}
            BY <1>6 DEF Cleared, Active, Full, FullKind
        <3>4. Sound(req[p], remote', routed', cleared')
            BY <1>6, <3>1, <3>2, <3>3 DEF Sound, Open
        <3>5. QED
            BY <1>3, <2>2, <3>4
    <2>3. QED
        BY <2>1, <2>2
<1>14. Apart'
    BY <1>3, EndedIsSound DEF IInv, Apart
<1>15. Trusted'
    <2> SUFFICES ASSUME ~suspect', NEW p \in Requests, Open(req'[p]) PROVE req'[p].alone
        BY DEF Trusted
    <2>1. p # r /\ req'[p] = req[p]
        BY <1>3, EndedIsSound
    <2>2. CASE ~suspect
        BY <2>1, <2>2 DEF IInv, Trusted
    <2>3. CASE suspect
        BY <1>2, <1>9, <2>1, <2>3 DEF IInv, Apart
    <2>4. QED
        BY <2>2, <2>3
<1>16. QED
    BY <1>8, <1>11, <1>12, <1>13, <1>14, <1>15 DEF IInv

LEMMA CrashStep ==
    ASSUME IInv, Crash PROVE IInv'
<1>1. /\ req \in [Requests -> Request]
      /\ req' = [r \in Requests |-> IF Active(r) THEN Ended ELSE req[r]]
      /\ UNCHANGED <<crds, rows, svc, remote, routed, cleared, suspect>>
    BY DEF IInv, TypeOK, Crash
<1>2. \A r \in Requests : req'[r] = Ended \/ req'[r] = req[r]
    BY <1>1
<1>3. req' \in [Requests -> Request]
    BY <1>1, EndedIsSound
<1>4. faults' \in 0..MaxFaults
    BY TunnelAssumptions DEF IInv, TypeOK, Crash, Fault
<1>5. TypeOK' /\ RoutesFollow' /\ Reported'
    BY <1>1, <1>3, <1>4 DEF IInv, TypeOK, RoutesFollow, Reported, Existing
<1>6. Requested' /\ Apart' /\ Trusted'
    BY <1>1, <1>2, EndedIsSound DEF IInv, Requested, Apart, Trusted
<1>7. QED
    BY <1>5, <1>6 DEF IInv

-----------------------------------------------------------------------------
(* The invariant.                                                          *)

LEMMA InitIsSound == Init => IInv
<1> SUFFICES ASSUME Init PROVE IInv
    OBVIOUS
<1> DEFINE blank == Blank("free")
<1>1. blank = [pc |-> "free", kind |-> "sync", about |-> {}, targets |-> {}, todo |-> {},
               ready |-> {}, infra |-> FALSE, ingress |-> {}, alone |-> FALSE]
    BY DEF Blank
<1>2. req = [r \in Requests |-> blank]
    BY DEF Init
<1> HIDE DEF blank
<1>3. blank \in Request
    BY <1>1 DEF Request, AllKinds
<1>4. blank.pc = "free" /\ blank.kind = "sync" /\ blank.ready = {} /\ blank.about = {}
    BY <1>1
<1>5. ~Open(blank) /\ \A d, t, g : Sound(blank, d, t, g)
    BY <1>4 DEF Open, FullKind, Sound
<1>6. \A r \in Requests : req[r] = blank
    BY <1>2
<1>7. Requested /\ Apart /\ Trusted
    BY <1>5, <1>6 DEF Requested, Apart, Trusted
<1>8. req \in [Requests -> Request]
    BY <1>2, <1>3
<1>9. crds \in SUBSET Instances /\ rows \in SUBSET Instances
    BY TunnelAssumptions DEF Init
<1>10. /\ svc = crds \cup rows /\ remote = svc \cup {Infra, Other} /\ faults = 0
       /\ routed = svc /\ cleared = {} /\ suspect = FALSE
    BY DEF Init
<1>11. TypeOK
    <2>1. faults \in 0..MaxFaults
        BY <1>10, TunnelAssumptions
    <2>2. remote \in SUBSET Routes
        BY <1>9, <1>10 DEF Routes
    <2>3. QED
        BY <1>8, <1>9, <1>10, <2>1, <2>2 DEF TypeOK
<1>12. RoutesFollow /\ Reported
    BY <1>10 DEF RoutesFollow, Reported, Existing
<1>13. QED
    BY <1>7, <1>11, <1>12 DEF IInv

LEMMA NextKeeps == IInv /\ [Next]_vars => IInv'
<1> SUFFICES ASSUME IInv, [Next]_vars PROVE IInv'
    OBVIOUS
<1>1. ASSUME NEW r \in Requests, NEW u \in Instances,
             PostHer(r, u) \/ InsertRow(r, u) \/ Wake(r, u) \/ DeleteHer(r, u) \/ DeleteService(r, u) \/ Look(r, u)
      PROVE  IInv'
    BY <1>1, PostHerStep, InsertRowStep, WakeStep, DeleteHerStep, DeleteServiceStep, LookStep
<1>2. ASSUME NEW r \in Requests,
             \/ Sync(r) \/ DeleteRow(r) \/ SyncTunnelConfig(r) \/ ListActive(r)
             \/ GetRemoteIngress(r) \/ ResolveInfra(r) \/ PutRemoteIngress(r)
      PROVE  IInv'
    BY <1>2, SyncStep, DeleteRowStep, SyncTunnelConfigStep, ListActiveStep,
       GetRemoteIngressStep, ResolveInfraStep, PutRemoteIngressStep
<1>3. ASSUME NEW u \in Instances, ServiceUp(u) \/ ServiceGone(u) PROVE IInv'
    BY <1>3, ServiceStep
<1>4. CASE Crash
    BY <1>4, CrashStep
<1>5. CASE UNCHANGED vars
    <2>1. /\ crds' = crds /\ rows' = rows /\ svc' = svc /\ remote' = remote /\ req' = req
          /\ faults' = faults /\ routed' = routed /\ cleared' = cleared /\ suspect' = suspect
        BY <1>5 DEF vars
    <2>2. TypeOK' /\ RoutesFollow' /\ Reported'
        BY <2>1 DEF IInv, TypeOK, RoutesFollow, Reported, Existing
    <2>3. Requested' /\ Apart' /\ Trusted'
        BY <2>1 DEF IInv, Requested, Apart, Trusted
    <2>4. QED
        BY <2>2, <2>3 DEF IInv
<1>6. QED
    BY <1>1, <1>2, <1>3, <1>4, <1>5 DEF Next

LEMMA AlwaysSound == Spec => []IInv
BY InitIsSound, NextKeeps, PTL DEF Spec

\* The state keeps its type: what a request finds ready it has targeted, and the
\* document holds only routes (update_remote_ingress drops the catch-all).
THEOREM TunnelTypeCorrect == Spec => []TypeOK
<1>1. IInv => TypeOK
    BY DEF IInv
<1>2. QED
    BY <1>1, AlwaysSound, PTL

\* For any number of requests, instances and faults, unless updates have
\* overlapped or a list has failed: reported routes stay until the instance is
\* deleted, deleted ones stay away; and the routes of others always survive.
THEOREM TunnelRoutesFollow == Spec => []RoutesFollow
<1>1. IInv => RoutesFollow
    BY DEF IInv
<1>2. QED
    BY <1>1, AlwaysSound, PTL

=============================================================================
