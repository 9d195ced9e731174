----------------------- MODULE InstanceRegistryProof -----------------------
(***************************************************************************)
(* Proofs about InstanceRegistry, for any number of instances, keys,       *)
(* requests and faults.                                                    *)
(*                                                                         *)
(* The argument: a key enters an instance once, by the request that        *)
(* generated it, which until then is the only one to know it.  From then   *)
(* on it stays in that place or leaves it for good; what other requests    *)
(* have read is the key of the very place they act on.  So the key a       *)
(* request deletes, its own or one it took out, is in no instance in use.  *)
(***************************************************************************)
EXTENDS InstanceRegistry, TLAPS

-----------------------------------------------------------------------------
(* What a request has in hand: a key it generated and has not written, one *)
(* it has generated in vain, the key of the instance it read, a key it has *)
(* taken out, a key it has updated.                                        *)

Pends(q, k) == q.pc \in {"post", "patch", "insert", "write"} /\ q.key = k
Undoes(q, k) == q.pc = "undo" /\ q.key = k
Copies(q, k) == q.pc \notin {"new", "done"} /\ Has(q.copy, k)
Revokes(q, k) == q.pc = "revoke" /\ Has(q.copy, k)
Rekeys(q, k) == q.rekeyed /\ q.pc \in {"write", "undo"} /\ Has(q.copy, k)

\* What the fields of a request can be where it stands.
CreatorShape(q) ==
    /\ q.pc \in {"dbmax", "list", "generate", "post", "patch", "insert", "undo", "done"}
    /\ q.provider \in Providers /\ q.policy \in Policies
    /\ q.copy = Absent /\ q.store = "her" /\ ~q.rekeyed

UpdaterShape(q) ==
    LET litellm == NextProvider(q, q.copy) = "litellm" IN
    /\ q.left = 0
    /\ q.pc \notin {"dbmax", "list", "post", "patch", "insert"}
    /\ q.pc \in {"check", "read"} => q.copy = Absent
    /\ q.pc \in {"generate", "rekey", "write", "undo", "revoke"} => q.copy \in Instance
    /\ q.pc = "generate" => q.kind \in {"update", "keygen"} /\ q.copy.key = NoKey
    /\ q.pc = "rekey" => q.kind = "update" /\ q.copy.key # NoKey /\ litellm
    /\ q.pc \in {"write", "undo"} =>
          /\ q.kind \in {"update", "keygen"}
          /\ q.key # NoKey => q.copy.key = NoKey /\ ~q.rekeyed
          /\ q.rekeyed => q.kind = "update" /\ q.copy.key # NoKey /\ litellm
          /\ q.kind = "keygen" => q.key # NoKey
    /\ q.pc = "write" /\ q.key = NoKey /\ ~q.rekeyed /\ litellm =>
          q.copy.provider = "litellm" /\ NextPolicy(q, q.copy) = q.copy.policy
    /\ q.pc = "revoke" => q.kind \in {"update", "delete"} /\ q.copy.key # NoKey
    /\ q.pc \in {"drop", "forget"} => q.kind = "delete"

Shape(q) ==
    /\ q.pc = "new" => q = NewRequest
    /\ q.pc \notin {"new", "dbmax", "done"} => q.uid \in Uids
    /\ q.pc \notin {"post", "patch", "insert", "write", "undo", "done"} => q.key = NoKey /\ ~q.rekeyed
    /\ q.pc = "undo" => q.key # NoKey \/ q.rekeyed
    /\ q.pc # "new" => IF Creates(q) THEN CreatorShape(q) ELSE UpdaterShape(q)

-----------------------------------------------------------------------------
(* Whose a key is.                                                         *)

IsOf(ks, k, u) == ks[k] # Unissued /\ (ks[k].state = "live" => ks[k].uid = u)

\* A place has a key; what a row has in common with a resource does not count.
Holds(is, mg, s, u, k) == Has(is[s][u], k) /\ ~(s = "row" /\ k \in mg)

\* A key is in one place only, or in two of one instance, and knows whose it is.
SlotsOwn(is, ks, mg) ==
    \A k \in Keys, s \in Stores, u \in Uids :
        Has(is[s][u], k) =>
            IsOf(ks, k, u) /\ \A t \in Stores, v \in Uids : Has(is[t][v], k) => v = u /\ (t = s \/ k \in mg)

SlotsLive(is, ks, tn, mg) ==
    \A k \in Keys, s \in Stores, u \in Uids \ tn :
        Holds(is, mg, s, u, k) /\ ~is[s][u].deleted => ks[k].state = "live"

\* What request q has in hand is where q believes it is.
PendOwn(q, k, is, ks, mg) ==
    Pends(q, k) => /\ ks[k].state = "live" /\ ks[k].uid = q.uid /\ k \notin mg
                   /\ \A s \in Stores, u \in Uids : ~Has(is[s][u], k)

UndoOwn(q, k, is, ks, tn) ==
    Undoes(q, k) => /\ IsOf(ks, k, q.uid)
                    /\ \A s \in Stores, u \in Uids \ tn : ~Has(is[s][u], k)

CopyOwn(q, k, is, ks, mg) ==
    Copies(q, k) => /\ IsOf(ks, k, q.uid)
                    /\ \A s \in Stores, u \in Uids : Holds(is, mg, s, u, k) => s = q.store /\ u = q.uid

RevokeOwn(q, k, is, mg) ==
    Revokes(q, k) => \A s \in Stores, u \in Uids : Holds(is, mg, s, u, k) => is[s][u].deleted

Owns(q, is, ks, tn, mg) ==
    \A k \in Keys : /\ PendOwn(q, k, is, ks, mg) /\ UndoOwn(q, k, is, ks, tn)
                    /\ CopyOwn(q, k, is, ks, mg) /\ RevokeOwn(q, k, is, mg)

\* Who goes by the row knows that no resource has the key of it: there was none.
RowAlone(q, is, mg) ==
    q.store = "row" => q.uid \in Uids /\ \A k \in mg : ~Has(is["her"][q.uid], k)

\* Nobody else has a key that is on its way to its instance.
Apart(rq) ==
    \A r, o \in Requests, k \in Keys :
        Pends(rq[r], k) => ~Copies(rq[o], k) /\ (o # r => ~Pends(rq[o], k) /\ ~Undoes(rq[o], k))

Shaped(rq) == \A r \in Requests : Shape(rq[r])

KInv ==
    /\ TypeOK /\ Shaped(req)
    /\ SlotsOwn(inst, keys, migrated) /\ SlotsLive(inst, keys, torn, migrated)
    /\ \A r \in Requests : Owns(req[r], inst, keys, torn, migrated) /\ RowAlone(req[r], inst, migrated)
    /\ Apart(req)
    /\ \A k \in migrated : k \in Keys /\ keys[k] # Unissued

-----------------------------------------------------------------------------
(* A request takes a step.                                                 *)

EmptyHanded(q) ==
    \A k \in Keys : ~Pends(q, k) /\ ~Undoes(q, k) /\ ~Copies(q, k) /\ ~Revokes(q, k) /\ ~Rekeys(q, k)

\* The request stays with its store, or there is no resource.
Tied(q, p, is) ==
    \/ p.store = "her"
    \/ p.store = q.store /\ p.uid = q.uid
    \/ p.uid \in Uids /\ is["her"][p.uid] = Absent

\* Request r is now p, the others are as they were.
Moves(r, p) ==
    /\ p \in Request /\ Shape(p) /\ Tied(req[r], p, inst)
    /\ req' \in [Requests -> Request] /\ req'[r] = p
    /\ \A o \in Requests \ {r} : req'[o] = req[o]

LEMMA BecomesMoves ==
    ASSUME TypeOK, NEW r \in Requests, NEW p \in Request, Shape(p), Becomes(r, p),
           Tied(req[r], p, inst)
    PROVE  Moves(r, p)
    BY DEF TypeOK, Becomes, Moves

\* The end of a request or of an item leaves it with nothing in hand.
LEMMA OverProperties ==
    ASSUME NEW q \in Request, Shape(q), q.pc \notin {"new", "dbmax", "done"}
    PROVE  /\ Over(q) \in Request /\ Shape(Over(q)) /\ EmptyHanded(Over(q))
           /\ Over(q).store = "her" \/ (Over(q).store = q.store /\ Over(q).uid = q.uid)
<1>1. q.uid \in Uids
    BY DEF Shape
<1>2. CASE q.left = 0 \/ q.uid = MaxUid
    <2> DEFINE p == [q EXCEPT !.pc = "done"]
    <2>1. Over(q) = p
        BY <1>2 DEF Over
    <2>2. p \in Request /\ p.pc = "done"
        BY DEF Request, Pcs
    <2>3. EmptyHanded(p)
        BY <2>2 DEF EmptyHanded, Pends, Undoes, Copies, Revokes, Rekeys
    <2>4. /\ p.kind = q.kind /\ p.provider = q.provider /\ p.policy = q.policy
          /\ p.copy = q.copy /\ p.store = q.store /\ p.rekeyed = q.rekeyed /\ p.left = q.left
          /\ p.uid = q.uid
        BY DEF Request
    <2> HIDE DEF p
    <2>5. Shape(p)
        BY <2>2, <2>4 DEF Shape, Creates, CreatorShape, UpdaterShape
    <2>6. QED
        BY <2>1, <2>2, <2>3, <2>4, <2>5
<1>3. CASE q.left # 0 /\ q.uid # MaxUid
    <2> DEFINE p == [q EXCEPT !.pc = FirstCall(q.provider), !.uid = q.uid + 1, !.left = 0, !.key = NoKey]
    <2>1. Over(q) = p
        BY <1>3 DEF Over
    <2>2. Creates(q) /\ CreatorShape(q)
        BY <1>3 DEF Shape, UpdaterShape
    <2>3. q.uid + 1 \in Uids
        BY <1>1, <1>3, RegistryAssumptions DEF Uids
    <2>4. FirstCall(q.provider) \in {"generate", "post"}
        BY DEF FirstCall
    <2>5. p \in Request
        BY <2>3, <2>4 DEF Request, Pcs
    <2>6. /\ p.pc \in {"generate", "post"} /\ p.kind = q.kind /\ p.provider = q.provider
          /\ p.policy = q.policy /\ p.copy = q.copy /\ p.store = q.store /\ p.rekeyed = q.rekeyed
          /\ p.uid = q.uid + 1 /\ p.key = NoKey
        BY <2>4 DEF Request
    <2> HIDE DEF p
    <2>7. Shape(p)
        BY <2>2, <2>3, <2>6 DEF Shape, Creates, CreatorShape
    <2>8. NoKey \notin Keys
        BY RegistryAssumptions
    <2>9. EmptyHanded(p)
        BY <2>2, <2>6, <2>8 DEF EmptyHanded, Pends, Undoes, Copies, Revokes, Rekeys, CreatorShape, Has
    <2>10. p.store = "her"
        BY <2>2, <2>6 DEF CreatorShape
    <2>11. QED
        BY <2>1, <2>5, <2>7, <2>9, <2>10
<1>4. QED
    BY <1>2, <1>3

LEMMA EndsMoves ==
    ASSUME TypeOK, Shaped(req), NEW r \in Requests, req[r].pc \notin {"new", "dbmax", "done"}, Ends(r)
    PROVE  \E p : Moves(r, p) /\ EmptyHanded(p)
<1>1. req[r] \in Request /\ Shape(req[r])
    BY DEF TypeOK, Shaped
<1>2. /\ Over(req[r]) \in Request /\ Shape(Over(req[r])) /\ EmptyHanded(Over(req[r]))
      /\ Tied(req[r], Over(req[r]), inst)
    BY <1>1, OverProperties DEF Tied
<1>3. QED
    BY <1>2, BecomesMoves DEF Ends

\* The same request elsewhere.
Alike(q, p) ==
    /\ p.kind = q.kind /\ p.store = q.store /\ p.uid = q.uid /\ p.left = q.left
    /\ p.provider = q.provider /\ p.policy = q.policy /\ p.copy = q.copy /\ p.key = q.key
    /\ p.rekeyed = q.rekeyed

LEMMA GoesMoves ==
    ASSUME TypeOK, NEW r \in Requests, NEW pc \in Pcs, Goes(r, pc),
           \A p \in Request : p.pc = pc /\ Alike(req[r], p) => Shape(p)
    PROVE  \E p : Moves(r, p) /\ p.pc = pc /\ Alike(req[r], p)
<1> DEFINE p == [req[r] EXCEPT !.pc = pc]
<1>1. req[r] \in Request
    BY DEF TypeOK
<1>2. p \in Request /\ p.pc = pc /\ Alike(req[r], p) /\ Tied(req[r], p, inst)
    BY <1>1 DEF Request, Alike, Tied
<1>3. Becomes(r, p)
    BY DEF Goes
<1> HIDE DEF p
<1>4. QED
    BY <1>2, <1>3, BecomesMoves

\* A request that fails after its write takes back what it has done.
LEMMA FailsMoves ==
    ASSUME TypeOK, Shaped(req), NEW r \in Requests, Fails(r),
           req[r].pc \in {"post", "patch", "insert", "write"}
    PROVE  \E p : Moves(r, p) /\ (EmptyHanded(p) \/ (p.pc = "undo" /\ Alike(req[r], p)))
<1>1. req[r] \in Request /\ Shape(req[r])
    BY DEF TypeOK, Shaped
<1>2. CASE req[r].key # NoKey \/ req[r].rekeyed
    <2>1. Goes(r, "undo")
        BY <1>2 DEF Fails
    <2>2. \A p \in Request : p.pc = "undo" /\ Alike(req[r], p) => Shape(p)
        BY <1>1, <1>2 DEF Shape, Alike, Creates, CreatorShape, UpdaterShape, NextProvider, NextPolicy
    <2>3. QED
        BY <2>1, <2>2, GoesMoves DEF Pcs
<1>3. CASE ~(req[r].key # NoKey \/ req[r].rekeyed)
    <2>1. Ends(r)
        BY <1>3 DEF Fails
    <2>2. QED
        BY <2>1, EndsMoves
<1>4. QED
    BY <1>2, <1>3

-----------------------------------------------------------------------------
(* What a step does to the keys others have in hand.                       *)

\* What r gets in hand comes from its own hands, or nobody's.
LEMMA HandsApart ==
    ASSUME Apart(req), NEW r \in Requests, NEW p, Moves(r, p),
           \A k \in Keys : Pends(p, k) => Pends(req[r], k),
           \A k \in Keys : Undoes(p, k) => Pends(req[r], k) \/ Undoes(req[r], k),
           \A k \in Keys : Copies(p, k) =>
               Copies(req[r], k) \/ \A o \in Requests : ~Pends(req[o], k)
    PROVE  Apart(req')
<1> SUFFICES ASSUME NEW u \in Requests, NEW o \in Requests, NEW k \in Keys, Pends(req'[u], k)
             PROVE  ~Copies(req'[o], k) /\ (o # u => ~Pends(req'[o], k) /\ ~Undoes(req'[o], k))
    BY DEF Apart
<1>1. /\ req'[r] = p
      /\ \A v \in Requests \ {r} : req'[v] = req[v]
    BY DEF Moves
<1>2. Pends(req[u], k)
    BY <1>1
<1>3. ~Copies(req[o], k) /\ (o # u => ~Pends(req[o], k) /\ ~Undoes(req[o], k))
    BY <1>2 DEF Apart
<1>4. ~Copies(req'[o], k)
    BY <1>1, <1>2, <1>3
<1>5. o # u => ~Pends(req'[o], k) /\ ~Undoes(req'[o], k)
    BY <1>1, <1>3
<1>6. QED
    BY <1>4, <1>5

LEMMA EmptyOwns ==
    ASSUME NEW p, EmptyHanded(p), NEW is, NEW ks, NEW tn
    PROVE  Owns(p, is, ks, tn, migrated)
    BY DEF EmptyHanded, Owns, PendOwn, UndoOwn, CopyOwn, RevokeOwn

\* The instances are left alone; keys are issued, deleted or given a policy.
KeysChange(r) ==
    /\ inst' = inst /\ torn' = torn
    /\ \A k \in Keys :
          /\ keys[k] # Unissued =>
                /\ keys'[k] # Unissued
                /\ keys'[k].state = "live" => keys[k].state = "live" /\ keys'[k].uid = keys[k].uid
          /\ keys[k].state = "live" =>
                \/ keys'[k].state = "live"
                \/ /\ \A o \in Requests \ {r} : ~Pends(req[o], k)
                   /\ \A s \in Stores, u \in Uids \ torn :
                         Holds(inst, migrated, s, u, k) => inst[s][u].deleted

LEMMA KeysChangeOwns ==
    ASSUME KInv, NEW r \in Requests, KeysChange(r)
    PROVE  /\ SlotsOwn(inst', keys', migrated) /\ SlotsLive(inst', keys', torn', migrated)
           /\ \A o \in Requests \ {r} : Owns(req[o], inst', keys', torn', migrated)
<1>1. inst' = inst /\ torn' = torn
    BY DEF KeysChange
<1>2. ASSUME NEW k \in Keys, NEW u, IsOf(keys, k, u)
      PROVE  IsOf(keys', k, u)
    BY <1>2 DEF IsOf, KeysChange
<1>3. SlotsOwn(inst, keys', migrated)
    BY <1>2 DEF SlotsOwn, KInv
<1>4. ASSUME NEW k \in Keys, keys[k].state = "live"
      PROVE  keys[k] # Unissued
    BY <1>4 DEF Unissued
<1>5. SlotsLive(inst, keys', torn, migrated)
    BY <1>4 DEF SlotsLive, KInv, KeysChange
<1>6. ASSUME NEW o \in Requests \ {r}, NEW k \in Keys
      PROVE  /\ PendOwn(req[o], k, inst, keys', migrated) /\ UndoOwn(req[o], k, inst, keys', torn)
             /\ CopyOwn(req[o], k, inst, keys', migrated) /\ RevokeOwn(req[o], k, inst, migrated)
    <2>1. /\ PendOwn(req[o], k, inst, keys, migrated) /\ UndoOwn(req[o], k, inst, keys, torn)
          /\ CopyOwn(req[o], k, inst, keys, migrated) /\ RevokeOwn(req[o], k, inst, migrated)
        BY DEF KInv, Owns
    <2>2. PendOwn(req[o], k, inst, keys', migrated)
        BY <1>4, <2>1 DEF PendOwn, KeysChange
    <2>3. UndoOwn(req[o], k, inst, keys', torn) /\ CopyOwn(req[o], k, inst, keys', migrated)
        BY <1>2, <2>1 DEF UndoOwn, CopyOwn
    <2>4. QED
        BY <2>1, <2>2, <2>3
<1>7. QED
    BY <1>1, <1>3, <1>5, <1>6 DEF Owns

\* One place changes: it holds what it held, the key r has generated, or none.
PlaceChanges(r, s, u) ==
    /\ keys' = keys /\ torn \subseteq torn'
    /\ \A t \in Stores, v \in Uids : <<t, v>> # <<s, u>> => inst'[t][v] = inst[t][v]
    /\ \A k \in Keys :
          Has(inst'[s][u], k) =>
              \/ Has(inst[s][u], k) /\ (~inst'[s][u].deleted => ~inst[s][u].deleted)
              \/ Pends(req[r], k) /\ u = req[r].uid

LEMMA PlaceChangesOwns ==
    ASSUME KInv, NEW r \in Requests, NEW s \in Stores, NEW u \in Uids, PlaceChanges(r, s, u)
    PROVE  /\ SlotsOwn(inst', keys', migrated) /\ SlotsLive(inst', keys', torn', migrated)
           /\ \A o \in Requests \ {r} : Owns(req[o], inst', keys', torn', migrated)
<1>1. keys' = keys /\ torn \subseteq torn'
    BY DEF PlaceChanges
\* Where a key is now.
<1>2. ASSUME NEW k \in Keys, NEW t \in Stores, NEW v \in Uids, Has(inst'[t][v], k)
      PROVE  \/ Has(inst[t][v], k) /\ (~inst'[t][v].deleted => ~inst[t][v].deleted)
             \/ Pends(req[r], k) /\ v = req[r].uid /\ t = s /\ v = u
    BY <1>2 DEF PlaceChanges
<1>3. ASSUME NEW k \in Keys, Pends(req[r], k)
      PROVE  /\ keys[k].state = "live" /\ keys[k].uid = req[r].uid /\ IsOf(keys, k, req[r].uid)
             /\ \A t \in Stores, v \in Uids : ~Has(inst[t][v], k)
    BY <1>3 DEF KInv, Owns, PendOwn, IsOf, Unissued
<1>4. SlotsOwn(inst', keys, migrated)
    <2> SUFFICES ASSUME NEW k \in Keys, NEW t \in Stores, NEW v \in Uids, Has(inst'[t][v], k)
                 PROVE  /\ IsOf(keys, k, v)
                        /\ \A w \in Stores, x \in Uids :
                              Has(inst'[w][x], k) => x = v /\ (w = t \/ k \in migrated)
        BY DEF SlotsOwn
    <2>1. CASE Pends(req[r], k)
        BY <1>2, <1>3, <2>1
    <2>2. CASE ~Pends(req[r], k)
        BY <1>2, <2>2 DEF KInv, SlotsOwn
    <2>3. QED
        BY <2>1, <2>2
<1>5. SlotsLive(inst', keys, torn', migrated)
    BY <1>1, <1>2, <1>3 DEF KInv, SlotsLive, Holds
<1>6. ASSUME NEW o \in Requests \ {r}, NEW k \in Keys
      PROVE  /\ PendOwn(req[o], k, inst', keys, migrated) /\ UndoOwn(req[o], k, inst', keys, torn')
             /\ CopyOwn(req[o], k, inst', keys, migrated) /\ RevokeOwn(req[o], k, inst', migrated)
    <2>1. /\ PendOwn(req[o], k, inst, keys, migrated) /\ UndoOwn(req[o], k, inst, keys, torn)
          /\ CopyOwn(req[o], k, inst, keys, migrated) /\ RevokeOwn(req[o], k, inst, migrated)
        BY DEF KInv, Owns
    <2>2. Pends(req[r], k) => ~Pends(req[o], k) /\ ~Undoes(req[o], k) /\ ~Copies(req[o], k) /\ ~Revokes(req[o], k)
        BY DEF KInv, Apart, Copies, Revokes
    <2>3. CASE Pends(req[r], k)
        BY <2>2, <2>3 DEF PendOwn, UndoOwn, CopyOwn, RevokeOwn, Holds
    <2>4. CASE ~Pends(req[r], k)
        <3>1. \A t \in Stores, v \in Uids :
                 Has(inst'[t][v], k) => Has(inst[t][v], k) /\ (~inst'[t][v].deleted => ~inst[t][v].deleted)
            BY <1>2, <2>4
        <3>2. PendOwn(req[o], k, inst', keys, migrated) /\ CopyOwn(req[o], k, inst', keys, migrated)
            BY <2>1, <3>1 DEF PendOwn, CopyOwn, Holds
        <3>3. UndoOwn(req[o], k, inst', keys, torn')
            BY <1>1, <2>1, <3>1 DEF UndoOwn
        <3>4. RevokeOwn(req[o], k, inst', migrated)
            BY <2>1, <3>1 DEF RevokeOwn, Holds
        <3>5. QED
            BY <3>2, <3>3, <3>4
    <2>5. QED
        BY <2>3, <2>4
<1>7. QED
    BY <1>1, <1>4, <1>5, <1>6 DEF Owns

-----------------------------------------------------------------------------
(* The invariant after a step, by what the step changes.                   *)

OtherTypes ==
    /\ faults \in 0..MaxFaults /\ fresh \in SUBSET Requests
    /\ torn \in SUBSET Uids /\ excused \in SUBSET Uids

MigratedStay == migrated' = migrated

LEMMA MovesKInv ==
    ASSUME KInv, MigratedStay, NEW r \in Requests, NEW p, Moves(r, p),
           inst' \in Instances, keys' \in KeyTable, OtherTypes',
           SlotsOwn(inst', keys', migrated), SlotsLive(inst', keys', torn', migrated),
           \A o \in Requests \ {r} : Owns(req[o], inst', keys', torn', migrated),
           Owns(p, inst', keys', torn', migrated), Apart(req'),
           \A u \in Uids, k \in migrated : Has(inst'["her"][u], k) => Has(inst["her"][u], k),
           \A k \in Keys : keys[k] # Unissued => keys'[k] # Unissued
    PROVE  KInv'
<1>1. TypeOK'
    BY DEF Moves, OtherTypes, TypeOK, KInv, MigratedStay
<1>2. \A o \in Requests : Shape(req'[o]) /\ Owns(req'[o], inst', keys', torn', migrated)
    BY DEF KInv, Shaped, Moves
<1>3. ASSUME NEW o \in Requests
      PROVE  RowAlone(req'[o], inst', migrated)
    <2>1. RowAlone(req[o], inst, migrated)
        BY DEF KInv
    <2>2. CASE o # r
        BY <2>1, <2>2 DEF Moves, RowAlone
    <2>3. CASE o = r
        <3>1. req'[o] = p /\ Tied(req[o], p, inst)
            BY <2>3 DEF Moves
        <3>2. QED
            BY <2>1, <3>1 DEF Tied, RowAlone, Has
    <2>4. QED
        BY <2>2, <2>3
<1>4. \A k \in migrated : k \in Keys /\ keys'[k] # Unissued
    BY DEF KInv
<1>5. QED
    BY <1>1, <1>2, <1>3, <1>4 DEF KInv, Shaped, MigratedStay

\* r moves on, or reads its instance.
Turns(q, p) ==
    \A k \in Keys :
        /\ Pends(p, k) => Pends(q, k) /\ p.uid = q.uid
        /\ Undoes(p, k) => (Pends(q, k) \/ Undoes(q, k)) /\ p.uid = q.uid
        /\ Copies(p, k) => \/ Copies(q, k) /\ p.uid = q.uid /\ p.store = q.store
                           \/ p.store \in Stores /\ p.uid \in Uids /\ Has(inst[p.store][p.uid], k)
        /\ Revokes(p, k) => Revokes(q, k)

LEMMA QuietKInv ==
    ASSUME KInv, MigratedStay, NEW r \in Requests, NEW p, Moves(r, p), Turns(req[r], p),
           UNCHANGED <<inst, keys, torn>>, OtherTypes'
    PROVE  KInv'
<1>1. KeysChange(r)
    BY DEF KeysChange
<1>2. /\ SlotsOwn(inst', keys', migrated) /\ SlotsLive(inst', keys', torn', migrated)
      /\ \A o \in Requests \ {r} : Owns(req[o], inst', keys', torn', migrated)
    BY <1>1, KeysChangeOwns
<1>3. ASSUME NEW k \in Keys
      PROVE  /\ PendOwn(p, k, inst, keys, migrated) /\ UndoOwn(p, k, inst, keys, torn)
             /\ CopyOwn(p, k, inst, keys, migrated) /\ RevokeOwn(p, k, inst, migrated)
    <2>1. /\ PendOwn(req[r], k, inst, keys, migrated) /\ UndoOwn(req[r], k, inst, keys, torn)
          /\ CopyOwn(req[r], k, inst, keys, migrated) /\ RevokeOwn(req[r], k, inst, migrated)
        BY DEF KInv, Owns
    <2>2. PendOwn(p, k, inst, keys, migrated)
        BY <2>1 DEF Turns, PendOwn
    <2>3. UndoOwn(p, k, inst, keys, torn)
        BY <2>1 DEF Turns, PendOwn, UndoOwn, IsOf, Unissued
    <2>4. CopyOwn(p, k, inst, keys, migrated)
        <3>1. CASE Copies(req[r], k) /\ p.uid = req[r].uid /\ p.store = req[r].store
            BY <2>1, <3>1 DEF CopyOwn
        \* Read just now: from the row, when no resource has the key.
        <3>2. CASE p.store \in Stores /\ p.uid \in Uids /\ Has(inst[p.store][p.uid], k)
            <4>1. RowAlone(p, inst, migrated)
                BY DEF KInv, Moves, Tied, RowAlone, Has
            <4>2. /\ IsOf(keys, k, p.uid)
                  /\ \A t \in Stores, v \in Uids :
                        Has(inst[t][v], k) => v = p.uid /\ (t = p.store \/ k \in migrated)
                BY <3>2 DEF KInv, SlotsOwn
            <4>3. ASSUME NEW t \in Stores, NEW v \in Uids, Holds(inst, migrated, t, v, k)
                  PROVE  t = p.store /\ v = p.uid
                BY <3>2, <4>1, <4>2, <4>3 DEF Holds, RowAlone, Stores
            <4>4. QED
                BY <4>2, <4>3 DEF CopyOwn
        <3>3. QED
            BY <3>1, <3>2 DEF Turns, CopyOwn
    <2>5. RevokeOwn(p, k, inst, migrated)
        BY <2>1 DEF Turns, RevokeOwn
    <2>6. QED
        BY <2>2, <2>3, <2>4, <2>5
<1>4. Owns(p, inst', keys', torn', migrated)
    BY <1>3 DEF Owns
<1>5. Apart(req')
    <2>1. ASSUME NEW k \in Keys, Copies(p, k)
          PROVE  Copies(req[r], k) \/ \A o \in Requests : ~Pends(req[o], k)
        <3>1. CASE Copies(req[r], k)
            BY <3>1
        <3>2. CASE ~Copies(req[r], k)
            <4>1. p.store \in Stores /\ p.uid \in Uids /\ Has(inst[p.store][p.uid], k)
                BY <2>1, <3>2 DEF Turns
            <4>2. QED
                BY <4>1 DEF KInv, Owns, PendOwn
        <3>3. QED
            BY <3>1, <3>2
    <2>2. \A k \in Keys : /\ Pends(p, k) => Pends(req[r], k)
                          /\ Undoes(p, k) => Pends(req[r], k) \/ Undoes(req[r], k)
        BY DEF Turns
    <2>3. QED
        BY <2>1, <2>2, HandsApart DEF KInv
<1>6. inst' \in Instances /\ keys' \in KeyTable
    BY DEF KInv, TypeOK
<1>7. QED
    BY <1>1, <1>2, <1>4, <1>5, <1>6, MovesKInv DEF KeysChange

LEMMA KeysChangeKInv ==
    ASSUME KInv, MigratedStay, NEW r \in Requests, NEW p, Moves(r, p), KeysChange(r),
           Owns(p, inst', keys', torn', migrated), Apart(req'), keys' \in KeyTable, OtherTypes'
    PROVE  KInv'
<1>1. inst' \in Instances /\ inst' = inst
    BY DEF KInv, TypeOK, KeysChange
<1>2. \A k \in Keys : keys[k] # Unissued => keys'[k] # Unissued
    BY DEF KeysChange
<1>3. QED
    BY <1>1, <1>2, KeysChangeOwns, MovesKInv

LEMMA PlaceChangesKInv ==
    ASSUME KInv, MigratedStay, NEW r \in Requests, NEW p, Moves(r, p),
           NEW s \in Stores, NEW u \in Uids, PlaceChanges(r, s, u),
           Owns(p, inst', keys', torn', migrated), inst' \in Instances, OtherTypes',
           \A k \in Keys : /\ Pends(p, k) => Pends(req[r], k)
                           /\ Undoes(p, k) => Pends(req[r], k) \/ Undoes(req[r], k)
                           /\ Copies(p, k) => Copies(req[r], k)
    PROVE  KInv'
<1>1. Apart(req')
    BY HandsApart DEF KInv
<1>2. keys' \in KeyTable /\ keys' = keys
    BY DEF KInv, TypeOK, PlaceChanges
<1>3. ASSUME NEW v \in Uids, NEW k \in migrated, Has(inst'["her"][v], k)
      PROVE  Has(inst["her"][v], k)
    <2>1. k \in Keys /\ ~Pends(req[r], k)
        BY DEF KInv, Owns, PendOwn
    <2>2. QED
        BY <1>3, <2>1 DEF PlaceChanges, Stores
<1>4. QED
    BY <1>1, <1>2, <1>3, PlaceChangesOwns, MovesKInv

LEMMA EmptyTurns ==
    ASSUME NEW q, NEW p, EmptyHanded(p)
    PROVE  Turns(q, p)
    BY DEF EmptyHanded, Turns

\* A request without a key and without a copy that has one.
LEMMA NothingInHand ==
    ASSUME NEW p, p.key = NoKey, p.copy = Absent \/ p.copy.key = NoKey
    PROVE  EmptyHanded(p)
<1>1. NoKey \notin Keys
    BY RegistryAssumptions
<1>2. QED
    BY <1>1 DEF EmptyHanded, Pends, Undoes, Copies, Revokes, Rekeys, Has

-----------------------------------------------------------------------------
(* The steps: a request begins, chooses its uid, reads its instance.       *)

LEMMA FaultType ==
    ASSUME TypeOK, NEW kind, Fault(kind)
    PROVE  faults' \in 0..MaxFaults
    BY RegistryAssumptions DEF TypeOK, Fault

LEMMA QuietTypes ==
    ASSUME TypeOK, UNCHANGED <<torn, excused>>, fresh' = fresh \/ \E r \in Requests : Reads(r),
           faults' = faults \/ \E kind : Fault(kind)
    PROVE  OtherTypes'
<1>1. faults' \in 0..MaxFaults
    BY FaultType DEF TypeOK
<1>2. QED
    BY <1>1 DEF TypeOK, OtherTypes, Reads

LEMMA BeginCreateKInv ==
    ASSUME KInv, MigratedStay, NEW r \in Requests, BeginCreate(r)
    PROVE  KInv'
<1>1. TypeOK /\ req[r] = NewRequest /\ req[r] \in Request
    BY DEF KInv, Shaped, Shape, BeginCreate, TypeOK
<1>2. \E p \in Request : /\ Becomes(r, p) /\ Shape(p)
                         /\ p.key = NoKey /\ p.copy = Absent /\ p.store = "her"
    <2>1. PICK pr \in Providers, pol \in Policies :
             \/ \E u \in Uids :
                   Becomes(r, [req[r] EXCEPT !.pc = FirstCall(pr), !.uid = u, !.provider = pr, !.policy = pol])
             \/ \E kind \in Kinds \cap {"create", "import"} :
                   Becomes(r, [req[r] EXCEPT !.pc = "dbmax", !.kind = kind, !.auto = TRUE, !.provider = pr,
                                  !.policy = pol, !.left = IF kind = "import" THEN 1 ELSE 0])
        BY DEF BeginCreate
    <2>2. ASSUME NEW u \in Uids,
                 Becomes(r, [req[r] EXCEPT !.pc = FirstCall(pr), !.uid = u, !.provider = pr, !.policy = pol])
          PROVE  \E p \in Request : /\ Becomes(r, p) /\ Shape(p)
                                    /\ p.key = NoKey /\ p.copy = Absent /\ p.store = "her"
        <3> DEFINE p == [req[r] EXCEPT !.pc = FirstCall(pr), !.uid = u, !.provider = pr, !.policy = pol]
        <3>1. FirstCall(pr) \in {"generate", "post"}
            BY DEF FirstCall
        <3>2. p \in Request
            BY <1>1, <3>1 DEF Request, Pcs
        <3>3. /\ p.pc \in {"generate", "post"} /\ p.kind = "create" /\ p.store = "her" /\ p.uid = u
              /\ p.provider = pr /\ p.policy = pol /\ p.copy = Absent /\ p.key = NoKey /\ p.rekeyed = FALSE
            BY <1>1, <3>1 DEF NewRequest
        <3> HIDE DEF p
        <3>4. Shape(p)
            BY <3>3 DEF Shape, Creates, CreatorShape
        <3>5. QED
            BY <2>2, <3>2, <3>3, <3>4 DEF p
    <2>3. ASSUME NEW kind \in Kinds \cap {"create", "import"},
                 Becomes(r, [req[r] EXCEPT !.pc = "dbmax", !.kind = kind, !.auto = TRUE, !.provider = pr,
                                !.policy = pol, !.left = IF kind = "import" THEN 1 ELSE 0])
          PROVE  \E p \in Request : /\ Becomes(r, p) /\ Shape(p)
                                    /\ p.key = NoKey /\ p.copy = Absent /\ p.store = "her"
        <3> DEFINE left == IF kind = "import" THEN 1 ELSE 0
                   p == [req[r] EXCEPT !.pc = "dbmax", !.kind = kind, !.auto = TRUE, !.provider = pr,
                                       !.policy = pol, !.left = left]
        <3>1. left \in {0, 1}
            OBVIOUS
        <3>2. Becomes(r, p)
            BY <2>3
        <3> HIDE DEF left
        <3>3. p \in Request
            BY <1>1, <3>1 DEF Request, Pcs, AllKinds
        <3>4. /\ p.pc = "dbmax" /\ p.kind = kind /\ p.store = "her"
              /\ p.provider = pr /\ p.policy = pol /\ p.copy = Absent /\ p.key = NoKey /\ p.rekeyed = FALSE
            BY <1>1 DEF NewRequest
        <3> HIDE DEF p
        <3>5. Shape(p)
            BY <3>4 DEF Shape, Creates, CreatorShape
        <3>6. QED
            BY <3>2, <3>3, <3>4, <3>5
    <2>4. QED
        BY <2>1, <2>2, <2>3
<1>3. PICK p \in Request : Moves(r, p) /\ EmptyHanded(p)
    BY <1>1, <1>2, BecomesMoves, NothingInHand DEF Tied
<1>4. UNCHANGED <<inst, keys, torn>> /\ OtherTypes'
    BY <1>1, QuietTypes DEF BeginCreate
<1>5. QED
    BY <1>3, <1>4, EmptyTurns, QuietKInv

LEMMA BeginOtherKInv ==
    ASSUME KInv, MigratedStay, NEW r \in Requests, BeginOther(r)
    PROVE  KInv'
<1>1. TypeOK /\ req[r] = NewRequest /\ req[r] \in Request
    BY DEF KInv, Shaped, Shape, BeginOther, TypeOK
<1> DEFINE Begins(p) == /\ Becomes(r, p) /\ Shape(p)
                     /\ p.key = NoKey /\ p.copy = Absent /\ p.store = "her"
<1>2. PICK u \in Uids :
         \/ \E pr \in Providers \cup {"same"}, pol \in Policies \cup {"same"} :
               Becomes(r, [req[r] EXCEPT !.pc = "check", !.kind = "update", !.uid = u,
                              !.provider = pr, !.policy = pol])
         \/ Becomes(r, [req[r] EXCEPT !.pc = "read", !.kind = "keygen", !.uid = u])
         \/ \E purge \in BOOLEAN :
               Becomes(r, [req[r] EXCEPT !.pc = "check", !.kind = "delete", !.uid = u, !.purge = purge])
    BY DEF BeginOther
\* Whatever it is asked for, it is a request that has only begun.
<1>3. ASSUME NEW p \in Request, Becomes(r, p), p.pc \in {"check", "read"},
             p.kind \in {"update", "keygen", "delete"}, p.uid = u, p.left = 0,
             p.copy = Absent, p.key = NoKey, p.rekeyed = FALSE, p.store = "her"
      PROVE  \E q \in Request : Begins(q)
    <2>1. Shape(p)
        BY <1>3 DEF Shape, Creates, UpdaterShape
    <2>2. QED
        BY <1>3, <2>1
<1>4. ASSUME NEW pr \in Providers \cup {"same"}, NEW pol \in Policies \cup {"same"},
             Becomes(r, [req[r] EXCEPT !.pc = "check", !.kind = "update", !.uid = u,
                            !.provider = pr, !.policy = pol])
      PROVE  \E q \in Request : Begins(q)
    <2> DEFINE p == [req[r] EXCEPT !.pc = "check", !.kind = "update", !.uid = u,
                                   !.provider = pr, !.policy = pol]
    <2>1. p \in Request
        BY <1>1 DEF Request, Pcs, AllKinds
    <2>2. /\ p.pc = "check" /\ p.kind = "update" /\ p.uid = u /\ p.left = 0
          /\ p.copy = Absent /\ p.key = NoKey /\ p.rekeyed = FALSE /\ p.store = "her"
        BY <1>1 DEF NewRequest
    <2> HIDE DEF p, Begins
    <2>3. QED
        BY <1>3, <1>4, <2>1, <2>2 DEF p
<1>5. ASSUME Becomes(r, [req[r] EXCEPT !.pc = "read", !.kind = "keygen", !.uid = u])
      PROVE  \E q \in Request : Begins(q)
    <2> DEFINE p == [req[r] EXCEPT !.pc = "read", !.kind = "keygen", !.uid = u]
    <2>1. p \in Request
        BY <1>1 DEF Request, Pcs, AllKinds
    <2>2. /\ p.pc = "read" /\ p.kind = "keygen" /\ p.uid = u /\ p.left = 0
          /\ p.copy = Absent /\ p.key = NoKey /\ p.rekeyed = FALSE /\ p.store = "her"
        BY <1>1 DEF NewRequest
    <2> HIDE DEF p, Begins
    <2>3. QED
        BY <1>3, <1>5, <2>1, <2>2 DEF p
<1>6. ASSUME NEW purge \in BOOLEAN,
             Becomes(r, [req[r] EXCEPT !.pc = "check", !.kind = "delete", !.uid = u, !.purge = purge])
      PROVE  \E q \in Request : Begins(q)
    <2> DEFINE p == [req[r] EXCEPT !.pc = "check", !.kind = "delete", !.uid = u, !.purge = purge]
    <2>1. p \in Request
        BY <1>1 DEF Request, Pcs, AllKinds
    <2>2. /\ p.pc = "check" /\ p.kind = "delete" /\ p.uid = u /\ p.left = 0
          /\ p.copy = Absent /\ p.key = NoKey /\ p.rekeyed = FALSE /\ p.store = "her"
        BY <1>1 DEF NewRequest
    <2> HIDE DEF p, Begins
    <2>3. QED
        BY <1>3, <1>6, <2>1, <2>2 DEF p
<1>7. \E q \in Request : Begins(q)
    BY <1>2, <1>4, <1>5, <1>6
<1>8. PICK p \in Request : Moves(r, p) /\ EmptyHanded(p)
    BY <1>1, <1>7, BecomesMoves, NothingInHand DEF Tied
<1>9. UNCHANGED <<inst, keys, torn>> /\ OtherTypes'
    BY <1>1, QuietTypes DEF BeginOther
<1>10. QED
    BY <1>8, <1>9, EmptyTurns, QuietKInv

LEMMA NothingKInv ==
    ASSUME KInv, MigratedStay, NEW r \in Requests, NEW p \in Request, Becomes(r, p), Shape(p),
           p.key = NoKey, p.copy = Absent \/ p.copy.key = NoKey, Tied(req[r], p, inst),
           UNCHANGED <<inst, keys, torn>>, OtherTypes'
    PROVE  KInv'
<1>1. TypeOK
    BY DEF KInv
<1>2. Moves(r, p) /\ EmptyHanded(p)
    BY <1>1, BecomesMoves, NothingInHand
<1>3. QED
    BY <1>2, EmptyTurns, QuietKInv

LEMMA EndsKInv ==
    ASSUME KInv, MigratedStay, NEW r \in Requests, Ends(r), req[r].pc \notin {"new", "dbmax", "done"},
           UNCHANGED <<inst, keys, torn>>, OtherTypes'
    PROVE  KInv'
<1>1. PICK p : Moves(r, p) /\ EmptyHanded(p)
    BY EndsMoves DEF KInv
<1>2. QED
    BY <1>1, EmptyTurns, QuietKInv

LEMMA ReadMaxKInv ==
    ASSUME KInv, MigratedStay, NEW r \in Requests, ReadMax(r)
    PROVE  KInv'
<1>1. TypeOK /\ req[r] \in Request /\ Shape(req[r])
    BY DEF KInv, Shaped, TypeOK
<1>2. UNCHANGED <<inst, keys, torn>> /\ OtherTypes'
    BY <1>1, QuietTypes DEF ReadMax
<1>3. Creates(req[r]) /\ CreatorShape(req[r]) /\ req[r].key = NoKey
    BY <1>1 DEF ReadMax, Shape, UpdaterShape
<1>4. PICK u \in Uids \cup {0} : IF u + 1 \in Uids
                                 THEN Becomes(r, [req[r] EXCEPT !.pc = "list", !.uid = u + 1])
                                 ELSE Goes(r, "done")
    BY DEF ReadMax
<1>5. CASE u + 1 \in Uids
    <2> DEFINE p == [req[r] EXCEPT !.pc = "list", !.uid = u + 1]
    <2>1. p \in Request
        BY <1>1, <1>5 DEF Request, Pcs
    <2>2. /\ p.pc = "list" /\ p.kind = req[r].kind /\ p.store = req[r].store /\ p.uid = u + 1
          /\ p.provider = req[r].provider /\ p.policy = req[r].policy
          /\ p.copy = req[r].copy /\ p.key = req[r].key /\ p.rekeyed = req[r].rekeyed
        BY <1>1 DEF Request
    <2>3. Becomes(r, p)
        BY <1>4, <1>5
    <2> HIDE DEF p
    <2>4. Shape(p) /\ p.key = NoKey /\ p.copy = Absent /\ Tied(req[r], p, inst)
        BY <1>3, <1>5, <2>2 DEF Shape, Creates, CreatorShape, Tied
    <2>5. QED
        BY <1>2, <2>1, <2>3, <2>4, NothingKInv
<1>6. CASE u + 1 \notin Uids
    <2> DEFINE p == [req[r] EXCEPT !.pc = "done"]
    <2>1. p \in Request
        BY <1>1 DEF Request, Pcs
    <2>2. /\ p.pc = "done" /\ p.kind = req[r].kind /\ p.store = req[r].store
          /\ p.provider = req[r].provider /\ p.policy = req[r].policy
          /\ p.copy = req[r].copy /\ p.key = req[r].key /\ p.rekeyed = req[r].rekeyed
        BY <1>1 DEF Request
    <2>3. Becomes(r, p)
        BY <1>4, <1>6 DEF Goes
    <2> HIDE DEF p
    <2>4. Shape(p) /\ p.key = NoKey /\ p.copy = Absent /\ Tied(req[r], p, inst)
        BY <1>3, <2>2 DEF Shape, Creates, CreatorShape, Tied
    <2>5. QED
        BY <1>2, <2>1, <2>3, <2>4, NothingKInv
<1>7. QED
    BY <1>5, <1>6

LEMMA ListHersKInv ==
    ASSUME KInv, MigratedStay, NEW r \in Requests, ListHers(r)
    PROVE  KInv'
<1>1. TypeOK /\ req[r] \in Request /\ Shape(req[r])
    BY DEF KInv, Shaped, TypeOK
<1>2. UNCHANGED <<inst, keys, torn>> /\ OtherTypes'
    BY <1>1, QuietTypes DEF ListHers
<1>3. /\ Creates(req[r]) /\ CreatorShape(req[r]) /\ req[r].key = NoKey
      /\ req[r].uid \in Uids
    BY <1>1 DEF ListHers, Shape, UpdaterShape
<1>4. FirstCall(req[r].provider) \in {"generate", "post"}
    BY DEF FirstCall
\* Whatever the listing has shown, the creation goes on with nothing in hand.
<1>5. ASSUME NEW p \in Request, Becomes(r, p), p.kind = req[r].kind, p.store = req[r].store,
             p.provider = req[r].provider, p.policy = req[r].policy, p.copy = req[r].copy,
             p.key = req[r].key, p.rekeyed = req[r].rekeyed,
             p.pc = "done" \/ (p.pc \in {"generate", "post"} /\ p.uid \in Uids)
      PROVE  KInv'
    <2>1. Shape(p) /\ p.key = NoKey /\ p.copy = Absent /\ Tied(req[r], p, inst)
        BY <1>3, <1>5 DEF Shape, Creates, CreatorShape, Tied
    <2>2. QED
        BY <1>2, <1>5, <2>1, NothingKInv
<1>6. CASE Goes(r, "done")
    <2> DEFINE p == [req[r] EXCEPT !.pc = "done"]
    <2>1. p \in Request
        BY <1>1 DEF Request, Pcs
    <2>2. QED
        BY <1>1, <1>5, <1>6, <2>1 DEF Request, Goes
<1>7. ASSUME NEW v \in Uids,
             Becomes(r, [req[r] EXCEPT !.pc = FirstCall(req[r].provider), !.uid = v, !.seen = Used("her")])
      PROVE  KInv'
    <2> DEFINE p == [req[r] EXCEPT !.pc = FirstCall(req[r].provider), !.uid = v, !.seen = Used("her")]
    <2>1. Used("her") \in SUBSET Uids
        BY DEF Used
    <2>2. p \in Request
        BY <1>1, <1>4, <2>1 DEF Request, Pcs
    <2>3. /\ p.kind = req[r].kind /\ p.store = req[r].store
          /\ p.provider = req[r].provider /\ p.policy = req[r].policy /\ p.copy = req[r].copy
          /\ p.key = req[r].key /\ p.rekeyed = req[r].rekeyed
          /\ p.pc \in {"generate", "post"} /\ p.uid \in Uids
        BY <1>1, <1>4 DEF Request
    <2>4. Becomes(r, p)
        BY <1>7
    <2> HIDE DEF p
    <2>5. QED
        BY <1>5, <2>2, <2>3, <2>4
<1>8. CASE Becomes(r, [req[r] EXCEPT !.pc = FirstCall(req[r].provider), !.auto = FALSE])
    <2> DEFINE p == [req[r] EXCEPT !.pc = FirstCall(req[r].provider), !.auto = FALSE]
    <2>1. p \in Request
        BY <1>1, <1>4 DEF Request, Pcs
    <2>2. /\ p.kind = req[r].kind /\ p.store = req[r].store
          /\ p.provider = req[r].provider /\ p.policy = req[r].policy /\ p.copy = req[r].copy
          /\ p.key = req[r].key /\ p.rekeyed = req[r].rekeyed
          /\ p.pc \in {"generate", "post"} /\ p.uid \in Uids
        BY <1>1, <1>3, <1>4 DEF Request
    <2>3. Becomes(r, p)
        BY <1>8
    <2> HIDE DEF p
    <2>4. QED
        BY <1>5, <2>1, <2>2, <2>3
<1>9. QED
    BY <1>6, <1>7, <1>8 DEF ListHers

LEMMA HasCrdKInv ==
    ASSUME KInv, MigratedStay, NEW r \in Requests, HasCrd(r)
    PROVE  KInv'
<1>1. TypeOK /\ req[r] \in Request /\ Shape(req[r])
    BY DEF KInv, Shaped, TypeOK
<1>2. UNCHANGED <<inst, keys, torn>> /\ OtherTypes'
    BY <1>1, QuietTypes DEF HasCrd
<1>3. /\ ~Creates(req[r]) /\ UpdaterShape(req[r]) /\ req[r].key = NoKey /\ ~req[r].rekeyed
      /\ req[r].uid \in Uids /\ req[r].copy = Absent
    BY <1>1 DEF HasCrd, Shape, CreatorShape, UpdaterShape
<1>4. PICK s \in Stores : /\ s = "her" <=> inst["her"][req[r].uid] # Absent
                          /\ Becomes(r, [req[r] EXCEPT !.pc = "read", !.store = s])
    BY DEF HasCrd
<1> DEFINE p == [req[r] EXCEPT !.pc = "read", !.store = s]
<1>5. p \in Request
    BY <1>1 DEF Request, Pcs
<1>6. /\ p.pc = "read" /\ p.kind = req[r].kind /\ p.uid = req[r].uid /\ p.left = req[r].left
      /\ p.store = s
      /\ p.provider = req[r].provider /\ p.policy = req[r].policy
      /\ p.copy = req[r].copy /\ p.key = req[r].key /\ p.rekeyed = req[r].rekeyed
    BY <1>1 DEF Request
<1>7. Becomes(r, p)
    BY <1>4
<1> HIDE DEF p
<1>8. Shape(p) /\ p.key = NoKey /\ p.copy = Absent /\ Tied(req[r], p, inst)
    BY <1>3, <1>4, <1>6 DEF Shape, Creates, UpdaterShape, Tied
<1>9. QED
    BY <1>2, <1>5, <1>7, <1>8, NothingKInv

\* The request goes on with the instance it has just read.
LEMMA ReadsKInv ==
    ASSUME KInv, MigratedStay, NEW r \in Requests, NEW p \in Request, Becomes(r, p), Shape(p),
           p.key = NoKey, ~p.rekeyed, p.pc # "revoke", p.store \in Stores, p.uid \in Uids,
           p.store = req[r].store, p.uid = req[r].uid,
           \A k \in Keys : Has(p.copy, k) => Has(inst[p.store][p.uid], k),
           UNCHANGED <<inst, keys, torn>>, OtherTypes'
    PROVE  KInv'
<1>1. TypeOK
    BY DEF KInv
<1>2. Moves(r, p)
    BY <1>1, BecomesMoves DEF Tied
<1>3. Turns(req[r], p)
    BY RegistryAssumptions DEF Turns, Pends, Undoes, Copies, Revokes
<1>4. QED
    BY <1>2, <1>3, QuietKInv

LEMMA ReaderShape ==
    ASSUME KInv, NEW r \in Requests, req[r].pc = "read"
    PROVE  /\ TypeOK /\ req[r] \in Request
           /\ ~Creates(req[r]) /\ UpdaterShape(req[r]) /\ req[r].key = NoKey /\ ~req[r].rekeyed
           /\ req[r].uid \in Uids /\ req[r].store \in Stores /\ req[r].left = 0
           /\ Here(r) \in Instance \cup {Absent}
<1>1. TypeOK /\ req[r] \in Request /\ Shape(req[r])
    BY DEF KInv, Shaped, TypeOK
<1>2. /\ ~Creates(req[r]) /\ UpdaterShape(req[r]) /\ req[r].key = NoKey /\ ~req[r].rekeyed
      /\ req[r].uid \in Uids
    BY <1>1 DEF Shape, CreatorShape
<1>3. req[r].store \in Stores
    BY <1>1 DEF Request
<1>4. inst \in [Stores -> [Uids -> Instance \cup {Absent}]]
    BY <1>1 DEF TypeOK, Instances
<1>5. Here(r) \in Instance \cup {Absent}
    BY <1>2, <1>3, <1>4 DEF Here
<1>6. req[r].left = 0
    BY <1>2 DEF UpdaterShape
<1>7. QED
    BY <1>1, <1>2, <1>3, <1>5, <1>6

LEMMA ReadForUpdateKInv ==
    ASSUME KInv, MigratedStay, NEW r \in Requests, ReadForUpdate(r)
    PROVE  KInv'
<1>1. /\ TypeOK /\ req[r] \in Request
      /\ ~Creates(req[r]) /\ UpdaterShape(req[r]) /\ req[r].key = NoKey /\ ~req[r].rekeyed
      /\ req[r].uid \in Uids /\ req[r].store \in Stores /\ req[r].left = 0
      /\ Here(r) \in Instance \cup {Absent} /\ req[r].pc = "read" /\ req[r].kind = "update"
    BY ReaderShape DEF ReadForUpdate
<1>2. UNCHANGED <<inst, keys, torn>> /\ OtherTypes'
    BY <1>1, QuietTypes DEF ReadForUpdate
<1> DEFINE i == AsRead(r)
           litellm == NextProvider(req[r], i) = "litellm"
           changes == i.provider # "litellm" \/ NextPolicy(req[r], i) # i.policy
           pc == CASE litellm /\ i.key = NoKey -> "generate"
                   [] litellm /\ i.key # NoKey /\ changes -> "rekey"
                   [] OTHER -> "write"
           p == [req[r] EXCEPT !.copy = i, !.pc = pc]
<1>3. Ends(r) \/ Becomes(r, p)
    BY DEF ReadForUpdate
<1>4. CASE Ends(r)
    BY <1>1, <1>2, <1>4, EndsKInv
<1>5. CASE Becomes(r, p)
    <2>1. i \in Instance
        BY <1>1, RegistryAssumptions DEF AsRead, Blank, Instance, Providers
    <2>2. \A k \in Keys : Has(i, k) => Has(Here(r), k)
        BY RegistryAssumptions DEF AsRead, Blank, Has
    <2>3. /\ pc \in {"generate", "rekey", "write"}
          /\ pc = "generate" => i.key = NoKey
          /\ pc = "rekey" => i.key # NoKey /\ litellm
          /\ pc = "write" /\ litellm => i.provider = "litellm" /\ NextPolicy(req[r], i) = i.policy
        OBVIOUS
    <2> HIDE DEF i, pc
    <2>4. p \in Request
        <3>1. req[r] \in Request /\ pc \in Pcs
            BY <1>1, <2>3 DEF Pcs
        <3>2. QED
            BY ONLY <2>1, <3>1 DEF Request
    <2>5. /\ p.pc = pc /\ p.kind = "update" /\ p.store = req[r].store /\ p.uid = req[r].uid
          /\ p.left = 0 /\ p.provider = req[r].provider /\ p.policy = req[r].policy
          /\ p.copy = i /\ p.key = NoKey /\ ~p.rekeyed
        BY <1>1 DEF Request
    <2> HIDE DEF p
    <2>6. NextProvider(p, p.copy) = NextProvider(req[r], i) /\ NextPolicy(p, p.copy) = NextPolicy(req[r], i)
        BY <2>5 DEF NextProvider, NextPolicy
    <2>7. UpdaterShape(p)
        BY <2>1, <2>3, <2>5, <2>6 DEF UpdaterShape
    <2>8. Shape(p)
        BY <1>1, <2>3, <2>5, <2>7 DEF Shape, Creates
    <2>9. \A k \in Keys : Has(p.copy, k) => Has(inst[p.store][p.uid], k)
        BY <2>2, <2>5 DEF Here
    <2>10. QED
        BY <1>1, <1>2, <1>5, <2>3, <2>4, <2>5, <2>8, <2>9, ReadsKInv
<1>6. QED
    BY <1>3, <1>4, <1>5

LEMMA ReadForKeygenKInv ==
    ASSUME KInv, MigratedStay, NEW r \in Requests, ReadForKeygen(r)
    PROVE  KInv'
<1>1. /\ TypeOK /\ req[r] \in Request
      /\ ~Creates(req[r]) /\ UpdaterShape(req[r]) /\ req[r].key = NoKey /\ ~req[r].rekeyed
      /\ req[r].uid \in Uids /\ req[r].left = 0 /\ req[r].pc = "read" /\ req[r].kind = "keygen"
    BY ReaderShape DEF ReadForKeygen
<1>2. UNCHANGED <<inst, keys, torn>> /\ OtherTypes'
    BY <1>1, QuietTypes DEF ReadForKeygen
<1>3. PICK s \in Stores :
         /\ s = "her" <=> inst["her"][req[r].uid] # Absent
         /\ LET i == inst[s][req[r].uid] IN
            IF i # Absent /\ i.provider = "litellm" /\ i.key = NoKey
            THEN Becomes(r, [req[r] EXCEPT !.store = s, !.copy = i, !.pc = "generate"])
            ELSE Ends(r)
    BY DEF ReadForKeygen
<1> DEFINE i == inst[s][req[r].uid]
           p == [req[r] EXCEPT !.store = s, !.copy = i, !.pc = "generate"]
<1>4. CASE Ends(r)
    BY <1>1, <1>2, <1>4, EndsKInv
<1>5. CASE i # Absent /\ i.key = NoKey /\ Becomes(r, p)
    <2>1. i \in Instance
        <3>1. inst \in [Stores -> [Uids -> Instance \cup {Absent}]] /\ s \in Stores
            BY <1>1, <1>3 DEF TypeOK, Instances
        <3>2. QED
            BY <1>1, <1>5, <3>1
    <2> HIDE DEF i
    <2>2. p \in Request
        BY <1>1, <1>3, <2>1 DEF Request, Pcs
    <2>3. /\ p.pc = "generate" /\ p.kind = "keygen" /\ p.store = s /\ p.uid = req[r].uid
          /\ p.left = 0 /\ p.copy = i /\ p.key = NoKey /\ ~p.rekeyed
        BY <1>1 DEF Request
    <2>4. i.key = NoKey /\ Becomes(r, p)
        BY <1>5
    <2> HIDE DEF p
    <2>5. Shape(p)
        BY <1>1, <2>1, <2>3, <2>4 DEF Shape, Creates, UpdaterShape
    <2>6. Tied(req[r], p, inst)
        BY <1>1, <1>3, <2>3 DEF Tied
    <2>7. QED
        BY <1>2, <2>2, <2>3, <2>4, <2>5, <2>6, NothingKInv
<1>6. QED
    BY <1>3, <1>4, <1>5

LEMMA ReadForDeleteKInv ==
    ASSUME KInv, MigratedStay, NEW r \in Requests, ReadForDelete(r)
    PROVE  KInv'
<1>1. /\ TypeOK /\ req[r] \in Request
      /\ ~Creates(req[r]) /\ UpdaterShape(req[r]) /\ req[r].key = NoKey /\ ~req[r].rekeyed
      /\ req[r].uid \in Uids /\ req[r].store \in Stores /\ req[r].left = 0
      /\ Here(r) \in Instance \cup {Absent} /\ req[r].pc = "read" /\ req[r].kind = "delete"
    BY ReaderShape DEF ReadForDelete
<1>2. UNCHANGED <<inst, keys, torn>> /\ OtherTypes'
    BY <1>1, QuietTypes DEF ReadForDelete
<1> DEFINE p == [req[r] EXCEPT !.copy = Here(r), !.pc = "drop"]
<1>3. p \in Request
    BY <1>1 DEF Request, Pcs
<1>4. /\ p.pc = "drop" /\ p.kind = "delete" /\ p.store = req[r].store /\ p.uid = req[r].uid
      /\ p.left = 0 /\ p.copy = Here(r) /\ p.key = NoKey /\ ~p.rekeyed
    BY <1>1 DEF Request
<1>5. Becomes(r, p)
    BY DEF ReadForDelete
<1> HIDE DEF p
<1>6. Shape(p)
    BY <1>1, <1>4 DEF Shape, Creates, UpdaterShape
<1>7. \A k \in Keys : Has(p.copy, k) => Has(inst[p.store][p.uid], k)
    BY <1>4 DEF Here
<1>8. QED
    BY <1>1, <1>2, <1>3, <1>4, <1>5, <1>6, <1>7, ReadsKInv

-----------------------------------------------------------------------------
(* The steps: LiteLLM is asked for a key, or to change or delete one.      *)

LEMMA ExcuseType ==
    ASSUME TypeOK, NEW u \in Uids, NEW b, Excuse(u, b) \/ UNCHANGED excused
    PROVE  excused' \in SUBSET Uids
    BY DEF TypeOK, Excuse

LEMMA AskType ==
    ASSUME TypeOK, NEW r \in Requests, UNCHANGED <<fresh, torn>>,
           excused' \in SUBSET Uids, faults' = faults \/ \E kind : Fault(kind)
    PROVE  OtherTypes'
<1>1. faults' \in 0..MaxFaults
    BY FaultType DEF TypeOK
<1>2. QED
    BY <1>1 DEF TypeOK, OtherTypes

\* A key is new: nothing and nobody has it.
LEMMA IssueChanges ==
    ASSUME KInv, NEW r \in Requests, NEW k \in Keys, Issue(r, k), UNCHANGED <<inst, torn>>,
           AskedPolicy(req[r]) \in Policies, req[r].uid \in Uids
    PROVE  /\ KeysChange(r) /\ keys' \in KeyTable
           /\ keys'[k].state = "live" /\ keys'[k].uid = req[r].uid /\ k \notin migrated
           /\ \A s \in Stores, u \in Uids : ~Has(inst[s][u], k)
           /\ \A o \in Requests : ~Pends(req[o], k) /\ ~Undoes(req[o], k) /\ ~Copies(req[o], k)
<1>1. keys \in [Keys -> KeyInfo \cup {Unissued, Revoked}]
    BY DEF KInv, TypeOK, KeyTable
<1> DEFINE i == [state |-> "live", uid |-> req[r].uid, policy |-> AskedPolicy(req[r])]
<1>2. i \in KeyInfo /\ i.state = "live" /\ i.uid = req[r].uid
    BY DEF KeyInfo
<1>3. keys[k] = Unissued /\ keys' = [keys EXCEPT ![k] = i]
    BY DEF Issue, IsNextKey
<1> HIDE DEF i
<1>4. keys'[k] = i /\ \A j \in Keys : j # k => keys'[j] = keys[j]
    BY <1>1, <1>3
<1>5. keys' \in KeyTable
    BY <1>1, <1>2, <1>3 DEF KeyTable
<1>6. keys[k].state # "live"
    BY <1>3 DEF Unissued
<1>7. KeysChange(r)
    <2> SUFFICES ASSUME NEW j \in Keys
                 PROVE  /\ keys[j] # Unissued =>
                              /\ keys'[j] # Unissued
                              /\ keys'[j].state = "live" => keys[j].state = "live" /\ keys'[j].uid = keys[j].uid
                        /\ keys[j].state = "live" => keys'[j].state = "live"
        BY DEF KeysChange
    <2>1. QED
        BY <1>3, <1>4, <1>6
<1>8. \A s \in Stores, u \in Uids : ~Has(inst[s][u], k)
    BY <1>3 DEF KInv, SlotsOwn, IsOf
<1>9. \A o \in Requests : ~Pends(req[o], k) /\ ~Undoes(req[o], k) /\ ~Copies(req[o], k)
    BY <1>3, <1>6 DEF KInv, Owns, PendOwn, UndoOwn, CopyOwn, IsOf
<1>10. k \notin migrated
    BY <1>3 DEF KInv
<1>11. QED
    BY <1>2, <1>4, <1>5, <1>7, <1>8, <1>9, <1>10

LEMMA PolicyChanges ==
    ASSUME TypeOK, NEW r \in Requests, NEW k \in Keys, NEW pol \in Policies, SetPolicy(k, pol),
           UNCHANGED <<inst, torn>>
    PROVE  KeysChange(r) /\ keys' \in KeyTable
<1>1. keys \in [Keys -> KeyInfo \cup {Unissued, Revoked}]
    BY DEF TypeOK, KeyTable
<1>2. CASE keys[k].state # "live"
    <2>1. keys' = keys
        BY <1>2 DEF SetPolicy
    <2>2. QED
        BY <1>1, <2>1 DEF KeysChange, KeyTable
<1>3. CASE keys[k].state = "live"
    <2>1. keys[k] \in KeyInfo
        BY <1>1, <1>3 DEF Unissued, Revoked
    <2> DEFINE i == [keys[k] EXCEPT !.policy = pol]
    <2>2. i \in KeyInfo /\ i.state = "live" /\ i.uid = keys[k].uid /\ i # Unissued
        BY <2>1 DEF KeyInfo, Unissued
    <2>3. keys' = [keys EXCEPT ![k] = i]
        BY <1>3 DEF SetPolicy
    <2> HIDE DEF i
    <2>4. keys'[k] = i /\ \A j \in Keys : j # k => keys'[j] = keys[j]
        BY <1>1, <2>3
    <2>5. keys' \in KeyTable
        BY <1>1, <2>2, <2>3 DEF KeyTable
    <2>6. KeysChange(r)
        BY <1>3, <2>2, <2>4 DEF KeysChange
    <2>7. QED
        BY <2>5, <2>6
<1>4. QED
    BY <1>2, <1>3

LEMMA RevokeChanges ==
    ASSUME TypeOK, NEW r \in Requests, NEW k \in Keys, keys' = [keys EXCEPT ![k] = Revoked],
           UNCHANGED <<inst, torn>>,
           \A o \in Requests \ {r} : ~Pends(req[o], k),
           \A s \in Stores, u \in Uids \ torn : Holds(inst, migrated, s, u, k) => inst[s][u].deleted
    PROVE  KeysChange(r) /\ keys' \in KeyTable
<1>1. keys \in [Keys -> KeyInfo \cup {Unissued, Revoked}]
    BY DEF TypeOK, KeyTable
<1>2. keys'[k] = Revoked /\ \A j \in Keys : j # k => keys'[j] = keys[j]
    BY <1>1
<1>3. Revoked # Unissued /\ Revoked.state # "live"
    BY DEF Revoked, Unissued
<1>4. KeysChange(r)
    BY <1>2, <1>3 DEF KeysChange
<1>5. keys' \in KeyTable
    BY <1>1 DEF KeyTable
<1>6. QED
    BY <1>4, <1>5

\* Keys change and r keeps in hand at most what it has read.
LEMMA KeysTurnKInv ==
    ASSUME KInv, MigratedStay, NEW r \in Requests, NEW p, Moves(r, p), KeysChange(r), keys' \in KeyTable, OtherTypes',
           \A k \in Keys : /\ ~Pends(p, k) /\ ~Undoes(p, k)
                           /\ Copies(p, k) => Copies(req[r], k) /\ p.uid = req[r].uid /\ p.store = req[r].store
                           /\ Revokes(p, k) => Revokes(req[r], k)
    PROVE  KInv'
<1>1. inst' = inst /\ torn' = torn
    BY DEF KeysChange
<1>2. ASSUME NEW k \in Keys
      PROVE  /\ PendOwn(p, k, inst, keys', migrated) /\ UndoOwn(p, k, inst, keys', torn)
             /\ CopyOwn(p, k, inst, keys', migrated) /\ RevokeOwn(p, k, inst, migrated)
    <2>1. CopyOwn(req[r], k, inst, keys, migrated) /\ RevokeOwn(req[r], k, inst, migrated)
        BY DEF KInv, Owns
    <2>2. \A u : IsOf(keys, k, u) => IsOf(keys', k, u)
        BY DEF IsOf, KeysChange
    <2>3. QED
        BY <2>1, <2>2 DEF PendOwn, UndoOwn, CopyOwn, RevokeOwn
<1>3. Owns(p, inst', keys', torn', migrated)
    BY <1>1, <1>2 DEF Owns
<1>4. Apart(req')
    BY HandsApart DEF KInv
<1>5. QED
    BY <1>3, <1>4, KeysChangeKInv

LEMMA EndsKeysKInv ==
    ASSUME KInv, MigratedStay, NEW r \in Requests, Ends(r), req[r].pc \notin {"new", "dbmax", "done"},
           KeysChange(r), keys' \in KeyTable, OtherTypes'
    PROVE  KInv'
<1>1. PICK p : Moves(r, p) /\ EmptyHanded(p)
    BY EndsMoves DEF KInv
<1>2. QED
    BY <1>1, KeysTurnKInv DEF EmptyHanded

LEMMA GenerateKeyKInv ==
    ASSUME KInv, MigratedStay, NEW r \in Requests, GenerateKey(r)
    PROVE  KInv'
<1>1. TypeOK /\ req[r] \in Request /\ Shape(req[r]) /\ req[r].pc = "generate"
    BY DEF KInv, Shaped, TypeOK, GenerateKey
<1>2. /\ req[r].uid \in Uids /\ req[r].key = NoKey /\ ~req[r].rekeyed
      /\ req[r].copy = Absent \/ (req[r].copy \in Instance /\ req[r].copy.key = NoKey)
    BY <1>1 DEF Shape, CreatorShape, UpdaterShape
<1>3. AskedPolicy(req[r]) \in Policies
    <2>1. CASE Creates(req[r])
        BY <1>1, <2>1 DEF Shape, CreatorShape, AskedPolicy
    <2>2. CASE ~Creates(req[r])
        <3>1. req[r].copy \in Instance /\ req[r].policy \in Policies \cup {"same"}
            BY <1>1, <2>2 DEF Shape, UpdaterShape, Request
        <3>2. req[r].copy.policy \in Policies
            BY <3>1 DEF Instance
        <3>3. QED
            BY <2>2, <3>1, <3>2 DEF AskedPolicy, NextPolicy
    <2>3. QED
        BY <2>1, <2>2
<1>4. /\ UNCHANGED <<inst, fresh, torn>> /\ excused' \in SUBSET Uids
      /\ faults' = faults \/ \E kind : Fault(kind)
    <2>1. excused' = excused \/ Excuse(req[r].uid, TRUE)
        BY DEF GenerateKey
    <2>2. QED
        BY <1>1, <1>2, <2>1, ExcuseType DEF GenerateKey
<1>5. OtherTypes'
    BY <1>1, <1>4, AskType
<1>6. PICK k \in Keys :
         \/ Issue(r, k) /\ Becomes(r, [req[r] EXCEPT !.key = k, !.pc = IF Creates(req[r]) THEN "post" ELSE "write"])
         \/ Ends(r) /\ (UNCHANGED keys \/ Issue(r, k))
    BY DEF GenerateKey
<1> DEFINE pc == IF Creates(req[r]) THEN "post" ELSE "write"
           p == [req[r] EXCEPT !.key = k, !.pc = pc]
<1>7. CASE Issue(r, k) /\ Becomes(r, p)
    <2>1. /\ KeysChange(r) /\ keys' \in KeyTable
          /\ keys'[k].state = "live" /\ keys'[k].uid = req[r].uid /\ k \notin migrated
          /\ \A s \in Stores, u \in Uids : ~Has(inst[s][u], k)
          /\ \A o \in Requests : ~Pends(req[o], k) /\ ~Undoes(req[o], k) /\ ~Copies(req[o], k)
        BY <1>2, <1>3, <1>4, <1>6, <1>7, IssueChanges
    <2>2. pc \in {"post", "write"} /\ (pc = "post" <=> Creates(req[r]))
        OBVIOUS
    <2> HIDE DEF pc
    <2>3. p \in Request
        BY <1>1, <1>6, <2>2 DEF Request, Pcs
    <2>4. /\ p.pc = pc /\ p.key = k /\ p.kind = req[r].kind /\ p.store = req[r].store
          /\ p.uid = req[r].uid /\ p.left = req[r].left /\ p.provider = req[r].provider
          /\ p.policy = req[r].policy /\ p.copy = req[r].copy /\ p.rekeyed = req[r].rekeyed
        BY <1>1 DEF Request
    <2>5. Becomes(r, p) /\ k # NoKey
        BY <1>6, <1>7, RegistryAssumptions
    <2> HIDE DEF p
    <2>6. Shape(p)
        BY <1>1, <1>2, <2>2, <2>4, <2>5 DEF Shape, Creates, CreatorShape, UpdaterShape, NextProvider, NextPolicy
    <2>7. Moves(r, p)
        BY <1>1, <2>3, <2>4, <2>5, <2>6, BecomesMoves DEF Tied
    \* All it has in hand is the key.
    <2>8. ASSUME NEW j \in Keys
          PROVE  (Pends(p, j) => j = k) /\ ~Undoes(p, j) /\ ~Copies(p, j) /\ ~Revokes(p, j)
        BY <1>2, <2>2, <2>4, RegistryAssumptions DEF Pends, Undoes, Copies, Revokes, Has
    <2>9. inst' = inst
        BY <1>4
    <2>10. Owns(p, inst', keys', torn', migrated)
        BY <2>1, <2>4, <2>8, <2>9 DEF Owns, PendOwn, UndoOwn, CopyOwn, RevokeOwn
    <2>11. Apart(req')
        <3> SUFFICES ASSUME NEW u \in Requests, NEW o \in Requests, NEW j \in Keys, Pends(req'[u], j)
                     PROVE  ~Copies(req'[o], j) /\ (o # u => ~Pends(req'[o], j) /\ ~Undoes(req'[o], j))
            BY DEF Apart
        <3>1. req'[r] = p /\ \A v \in Requests \ {r} : req'[v] = req[v]
            BY <2>7 DEF Moves
        <3>2. CASE u = r
            BY <2>1, <2>8, <3>1, <3>2
        <3>3. CASE u # r
            <4>1. Pends(req[u], j) /\ j # k
                BY <2>1, <3>1, <3>3
            <4>2. ~Copies(req[o], j) /\ (o # u => ~Pends(req[o], j) /\ ~Undoes(req[o], j))
                BY <4>1 DEF KInv, Apart
            <4>3. QED
                BY <2>8, <3>1, <4>1, <4>2
        <3>4. QED
            BY <3>2, <3>3
    <2>12. QED
        BY <1>5, <2>1, <2>7, <2>10, <2>11, KeysChangeKInv
<1>8. CASE Ends(r) /\ UNCHANGED keys
    BY <1>1, <1>4, <1>5, <1>8, EndsKInv
<1>9. CASE Ends(r) /\ Issue(r, k)
    <2>1. KeysChange(r) /\ keys' \in KeyTable
        BY <1>2, <1>3, <1>4, <1>6, <1>9, IssueChanges
    <2>2. QED
        BY <1>1, <1>5, <1>9, <2>1, EndsKeysKInv
<1>10. QED
    BY <1>6, <1>7, <1>8, <1>9

LEMMA UpdateKeyKInv ==
    ASSUME KInv, MigratedStay, NEW r \in Requests, UpdateKey(r)
    PROVE  KInv'
<1>1. TypeOK /\ req[r] \in Request /\ Shape(req[r]) /\ req[r].pc = "rekey"
    BY DEF KInv, Shaped, TypeOK, UpdateKey
<1>2. /\ ~Creates(req[r]) /\ UpdaterShape(req[r]) /\ req[r].uid \in Uids /\ req[r].key = NoKey
      /\ req[r].copy \in Instance /\ req[r].copy.key # NoKey
    BY <1>1 DEF Shape, CreatorShape, UpdaterShape
<1>3. req[r].copy.key \in Keys /\ req[r].copy.policy \in Policies
    BY <1>2 DEF Instance
<1>4. NextPolicy(req[r], req[r].copy) \in Policies
    BY <1>1, <1>3 DEF Request, NextPolicy
<1>5. /\ UNCHANGED <<inst, fresh, torn>> /\ excused' \in SUBSET Uids
      /\ faults' = faults \/ \E kind : Fault(kind)
    <2>1. excused' = excused \/ Excuse(req[r].uid, TRUE)
        BY DEF UpdateKey
    <2>2. QED
        BY <1>1, <1>2, <2>1, ExcuseType DEF UpdateKey
<1>6. OtherTypes'
    BY <1>1, <1>5, AskType
<1> DEFINE p == [req[r] EXCEPT !.rekeyed = TRUE, !.pc = "write"]
<1>7. CASE SetPolicy(req[r].copy.key, NextPolicy(req[r], req[r].copy)) /\ Becomes(r, p)
    <2>1. KeysChange(r) /\ keys' \in KeyTable
        BY <1>1, <1>3, <1>4, <1>5, <1>7, PolicyChanges
    <2>2. p \in Request
        BY <1>1 DEF Request, Pcs
    <2>3. /\ p.pc = "write" /\ p.key = NoKey /\ p.kind = req[r].kind /\ p.store = req[r].store
          /\ p.uid = req[r].uid /\ p.left = req[r].left /\ p.provider = req[r].provider
          /\ p.policy = req[r].policy /\ p.copy = req[r].copy /\ p.rekeyed = TRUE
        BY <1>1, <1>2 DEF Request
    <2>4. Becomes(r, p)
        BY <1>7
    <2> HIDE DEF p
    <2>5. Shape(p)
        BY <1>1, <1>2, <2>3 DEF Shape, Creates, UpdaterShape, NextProvider, NextPolicy
    <2>6. Moves(r, p)
        BY <1>1, <2>2, <2>3, <2>4, <2>5, BecomesMoves DEF Tied
    <2>7. ASSUME NEW k \in Keys
          PROVE  /\ ~Pends(p, k) /\ ~Undoes(p, k) /\ ~Revokes(p, k)
                 /\ Copies(p, k) => Copies(req[r], k)
        BY <1>1, <2>3, RegistryAssumptions DEF Pends, Undoes, Copies, Revokes
    <2>8. QED
        BY <1>6, <2>1, <2>3, <2>6, <2>7, KeysTurnKInv
<1>8. CASE Ends(r) /\ UNCHANGED keys
    BY <1>1, <1>5, <1>6, <1>8, EndsKInv
<1>9. CASE Ends(r) /\ SetPolicy(req[r].copy.key, NextPolicy(req[r], req[r].copy))
    <2>1. KeysChange(r) /\ keys' \in KeyTable
        BY <1>1, <1>3, <1>4, <1>5, <1>9, PolicyChanges
    <2>2. QED
        BY <1>1, <1>6, <1>9, <2>1, EndsKeysKInv
<1>10. QED
    BY <1>7, <1>8, <1>9 DEF UpdateKey

LEMMA UndoKeyKInv ==
    ASSUME KInv, MigratedStay, NEW r \in Requests, UndoKey(r)
    PROVE  KInv'
<1>1. TypeOK /\ req[r] \in Request /\ Shape(req[r]) /\ req[r].pc = "undo" /\ Ends(r)
    BY DEF KInv, Shaped, TypeOK, UndoKey
<1>2. req[r].uid \in Uids
    BY <1>1 DEF Shape
<1>3. /\ UNCHANGED <<inst, fresh, torn>> /\ excused' \in SUBSET Uids
      /\ faults' = faults \/ \E kind : Fault(kind)
    <2>1. excused' = excused \/ \E b : Excuse(req[r].uid, b)
        BY DEF UndoKey
    <2>2. QED
        BY <1>1, <1>2, <2>1, ExcuseType DEF UndoKey
<1>4. OtherTypes'
    BY <1>1, <1>3, AskType
\* The key that was generated for nothing has not reached the instance.
<1>5. CASE req[r].key # NoKey /\ keys' = [keys EXCEPT ![req[r].key] = Revoked]
    <2>1. req[r].key \in Keys /\ Undoes(req[r], req[r].key)
        BY <1>1, <1>5 DEF Request, Undoes
    <2>2. \A o \in Requests \ {r} : ~Pends(req[o], req[r].key)
        BY <2>1 DEF KInv, Apart
    <2>3. \A s \in Stores, u \in Uids \ torn : ~Has(inst[s][u], req[r].key)
        BY <2>1 DEF KInv, Owns, UndoOwn
    <2>4. KeysChange(r) /\ keys' \in KeyTable
        BY <1>1, <1>3, <1>5, <2>1, <2>2, <2>3, RevokeChanges DEF Holds
    <2>5. QED
        BY <1>1, <1>4, <2>4, EndsKeysKInv
<1>6. CASE req[r].key = NoKey /\ SetPolicy(req[r].copy.key, req[r].copy.policy)
    <2>1. req[r].rekeyed /\ ~Creates(req[r]) /\ req[r].copy \in Instance /\ req[r].copy.key # NoKey
        BY <1>1, <1>6 DEF Shape, CreatorShape, UpdaterShape
    <2>2. req[r].copy.key \in Keys /\ req[r].copy.policy \in Policies
        BY <2>1 DEF Instance
    <2>3. KeysChange(r) /\ keys' \in KeyTable
        BY <1>1, <1>3, <1>6, <2>2, PolicyChanges
    <2>4. QED
        BY <1>1, <1>4, <2>3, EndsKeysKInv
<1>7. CASE UNCHANGED keys
    BY <1>1, <1>3, <1>4, <1>7, EndsKInv
<1>8. QED
    BY <1>5, <1>6, <1>7 DEF UndoKey

LEMMA RevokeOldKInv ==
    ASSUME KInv, MigratedStay, NEW r \in Requests, RevokeOld(r)
    PROVE  KInv'
<1>1. TypeOK /\ req[r] \in Request /\ Shape(req[r]) /\ req[r].pc = "revoke"
    BY DEF KInv, Shaped, TypeOK, RevokeOld
<1>2. /\ ~Creates(req[r]) /\ UpdaterShape(req[r]) /\ req[r].uid \in Uids
      /\ req[r].key = NoKey /\ ~req[r].rekeyed
      /\ req[r].copy \in Instance /\ req[r].copy.key # NoKey
    BY <1>1 DEF Shape, CreatorShape, UpdaterShape
<1>3. /\ UNCHANGED <<inst, fresh, torn>> /\ excused' \in SUBSET Uids
      /\ faults' = faults \/ \E kind : Fault(kind)
    <2>1. excused' = excused \/ Excuse(req[r].uid, TRUE)
        BY DEF RevokeOld
    <2>2. QED
        BY <1>1, <1>2, <2>1, ExcuseType DEF RevokeOld
<1>4. OtherTypes'
    BY <1>1, <1>3, AskType
<1>5. KeysChange(r) /\ keys' \in KeyTable
    <2>1. CASE UNCHANGED keys
        BY <1>1, <1>3, <2>1 DEF KeysChange, TypeOK
    <2>2. CASE keys' = [keys EXCEPT ![req[r].copy.key] = Revoked]
        <3>1. req[r].copy.key \in Keys /\ req[r].copy # Absent
            BY <1>2 DEF Instance, Absent
        <3>2. Revokes(req[r], req[r].copy.key) /\ Copies(req[r], req[r].copy.key)
            BY <1>1, <3>1 DEF Revokes, Copies, Has
        <3>3. \A o \in Requests \ {r} : ~Pends(req[o], req[r].copy.key)
            BY <3>1, <3>2 DEF KInv, Apart
        <3>4. \A s \in Stores, u \in Uids :
                 Holds(inst, migrated, s, u, req[r].copy.key) => inst[s][u].deleted
            BY <3>1, <3>2 DEF KInv, Owns, RevokeOwn
        <3>5. QED
            BY <1>1, <1>3, <2>2, <3>1, <3>3, <3>4, RevokeChanges
    <2>3. QED
        BY <2>1, <2>2 DEF RevokeOld
<1>6. CASE Ends(r)
    BY <1>1, <1>4, <1>5, <1>6, EndsKeysKInv
<1>7. CASE req[r].kind = "delete" /\ Goes(r, "forget")
    <2>1. \A p \in Request : p.pc = "forget" /\ Alike(req[r], p) => Shape(p)
        BY <1>2, <1>7 DEF Shape, Alike, Creates, UpdaterShape
    <2>2. PICK p : Moves(r, p) /\ p.pc = "forget" /\ Alike(req[r], p)
        BY <1>1, <1>7, <2>1, GoesMoves DEF Pcs
    <2>3. QED
        BY <1>1, <1>4, <1>5, <2>2, KeysTurnKInv DEF Alike, Pends, Undoes, Copies, Revokes
<1>8. QED
    BY <1>6, <1>7 DEF RevokeOld

-----------------------------------------------------------------------------
(* The steps: an instance is written.                                      *)

LEMMA PutPlace ==
    ASSUME TypeOK, NEW s \in Stores, NEW u \in Uids, NEW i \in Instance \cup {Absent}, Put(s, u, i)
    PROVE  /\ inst' \in Instances /\ inst'[s][u] = i
           /\ \A t \in Stores, v \in Uids : <<t, v>> # <<s, u>> => inst'[t][v] = inst[t][v]
<1>1. inst \in [Stores -> [Uids -> Instance \cup {Absent}]]
    BY DEF TypeOK, Instances
<1>2. inst' = [inst EXCEPT ![s] = [inst[s] EXCEPT ![u] = i]]
    BY DEF Put
<1> DEFINE f == [inst[s] EXCEPT ![u] = i]
<1>3. f \in [Uids -> Instance \cup {Absent}] /\ f[u] = i /\ \A v \in Uids : v # u => f[v] = inst[s][v]
    BY <1>1
<1>4. inst' = [inst EXCEPT ![s] = f]
    BY <1>2
<1> HIDE DEF f
<1>5. inst' \in Instances /\ inst'[s] = f /\ \A t \in Stores : t # s => inst'[t] = inst[t]
    BY <1>1, <1>3, <1>4 DEF Instances
<1>6. QED
    BY <1>3, <1>5

LEMMA WriteTypes ==
    ASSUME TypeOK, NEW u \in Uids, torn' = torn \/ torn' = torn \cup {u},
           excused' = excused \/ \E b : Excuse(u, b),
           fresh' = fresh \/ \E s, v, i : Put(s, v, i),
           faults' = faults \/ \E kind : Fault(kind)
    PROVE  OtherTypes' /\ torn \subseteq torn'
<1>1. faults' \in 0..MaxFaults
    BY FaultType DEF TypeOK
<1>2. excused' \in SUBSET Uids
    BY ExcuseType
<1>3. fresh' \in SUBSET Requests
    BY DEF TypeOK, Put
<1>4. QED
    BY <1>1, <1>2, <1>3 DEF TypeOK, OtherTypes

\* One place changes, and what r keeps in hand is not there, or not in use, or
\* is there by a write that has been reported as failed.
LEMMA PlaceTurnKInv ==
    ASSUME KInv, MigratedStay, NEW r \in Requests, NEW p, Moves(r, p),
           NEW s \in Stores, NEW u \in Uids, PlaceChanges(r, s, u), inst' \in Instances, OtherTypes',
           \A k \in Keys :
               /\ ~Pends(p, k)
               /\ Undoes(p, k) => Pends(req[r], k) /\ p.uid = req[r].uid /\ u \in torn'
               /\ Copies(p, k) => Copies(req[r], k) /\ p.uid = req[r].uid /\ p.store = req[r].store
               /\ Revokes(p, k) => \A t \in Stores, v \in Uids :
                     t = p.store /\ v = p.uid /\ Has(inst'[t][v], k) => inst'[t][v].deleted
    PROVE  KInv'
<1>1. keys' = keys /\ torn \subseteq torn'
    BY DEF PlaceChanges
<1>2. ASSUME NEW k \in Keys, NEW t \in Stores, NEW v \in Uids, Has(inst'[t][v], k)
      PROVE  \/ Has(inst[t][v], k)
             \/ Pends(req[r], k) /\ v = req[r].uid /\ t = s /\ v = u
    BY <1>2 DEF PlaceChanges
<1>3. ASSUME NEW k \in Keys
      PROVE  /\ PendOwn(req[r], k, inst, keys, migrated) /\ UndoOwn(req[r], k, inst, keys, torn)
             /\ CopyOwn(req[r], k, inst, keys, migrated) /\ RevokeOwn(req[r], k, inst, migrated)
    BY DEF KInv, Owns
<1>4. ASSUME NEW k \in Keys
      PROVE  /\ PendOwn(p, k, inst', keys, migrated) /\ UndoOwn(p, k, inst', keys, torn')
             /\ CopyOwn(p, k, inst', keys, migrated) /\ RevokeOwn(p, k, inst', migrated)
    <2>1. PendOwn(p, k, inst', keys, migrated)
        BY DEF PendOwn
    <2>2. UndoOwn(p, k, inst', keys, torn')
        BY <1>2, <1>3 DEF PendOwn, UndoOwn, IsOf, Unissued
    <2>3. Copies(p, k) => ~Pends(req[r], k)
        BY DEF KInv, Apart
    <2>4. CopyOwn(p, k, inst', keys, migrated)
        BY <1>2, <1>3, <2>3 DEF CopyOwn, Holds
    <2>5. Revokes(p, k) => Copies(p, k)
        BY DEF Revokes, Copies
    <2>6. RevokeOwn(p, k, inst', migrated)
        BY <2>4, <2>5 DEF CopyOwn, RevokeOwn, Holds
    <2>7. QED
        BY <2>1, <2>2, <2>4, <2>6
<1>5. Owns(p, inst', keys', torn', migrated)
    BY <1>1, <1>4 DEF Owns
<1>6. \A k \in Keys : /\ Pends(p, k) => Pends(req[r], k)
                      /\ Undoes(p, k) => Pends(req[r], k) \/ Undoes(req[r], k)
                      /\ Copies(p, k) => Copies(req[r], k)
    OBVIOUS
<1>7. QED
    BY <1>5, <1>6, PlaceChangesKInv

LEMMA EndsPlaceKInv ==
    ASSUME KInv, MigratedStay, NEW r \in Requests, Ends(r), req[r].pc \notin {"new", "dbmax", "done"},
           NEW s \in Stores, NEW u \in Uids, PlaceChanges(r, s, u), inst' \in Instances, OtherTypes'
    PROVE  KInv'
<1>1. PICK p : Moves(r, p) /\ EmptyHanded(p)
    BY EndsMoves DEF KInv
<1>2. QED
    BY <1>1, PlaceTurnKInv DEF EmptyHanded

\* A write that was made and has failed.
LEMMA LostKInv ==
    ASSUME KInv, MigratedStay, NEW r \in Requests, Fails(r), req[r].pc \in {"post", "patch", "insert", "write"},
           NEW s \in Stores, NEW u \in Uids, PlaceChanges(r, s, u), inst' \in Instances, OtherTypes',
           u \in torn'
    PROVE  KInv'
<1>1. PICK p : Moves(r, p) /\ (EmptyHanded(p) \/ (p.pc = "undo" /\ Alike(req[r], p)))
    BY FailsMoves DEF KInv
<1>2. CASE EmptyHanded(p)
    BY <1>1, <1>2, PlaceTurnKInv DEF EmptyHanded
<1>3. CASE p.pc = "undo" /\ Alike(req[r], p)
    <2>1. \A k \in Keys :
             /\ ~Pends(p, k)
             /\ Undoes(p, k) => Pends(req[r], k) /\ p.uid = req[r].uid
             /\ Copies(p, k) => Copies(req[r], k) /\ p.uid = req[r].uid /\ p.store = req[r].store
             /\ ~Revokes(p, k)
        BY <1>3 DEF Alike, Pends, Undoes, Copies, Revokes
    <2>2. QED
        BY <1>1, <2>1, PlaceTurnKInv
<1>4. QED
    BY <1>1, <1>2, <1>3

LEMMA FailsKInv ==
    ASSUME KInv, MigratedStay, NEW r \in Requests, Fails(r), req[r].pc \in {"post", "patch", "insert", "write"},
           UNCHANGED <<inst, keys, torn>>, OtherTypes'
    PROVE  KInv'
<1>1. PICK p : Moves(r, p) /\ (EmptyHanded(p) \/ (p.pc = "undo" /\ Alike(req[r], p)))
    BY FailsMoves DEF KInv
<1>2. Turns(req[r], p)
    <2>1. CASE EmptyHanded(p)
        BY <2>1, EmptyTurns
    <2>2. CASE p.pc = "undo" /\ Alike(req[r], p)
        BY <2>2 DEF Turns, Alike, Pends, Undoes, Copies, Revokes
    <2>3. QED
        BY <1>1, <2>1, <2>2
<1>3. QED
    BY <1>1, <1>2, QuietKInv

LEMMA GoesKInv ==
    ASSUME KInv, MigratedStay, NEW r \in Requests, req[r].pc \in {"post", "patch"},
           NEW pc \in {"patch", "insert"}, Goes(r, pc), UNCHANGED <<inst, keys, torn>>, OtherTypes'
    PROVE  KInv'
<1>1. TypeOK /\ req[r] \in Request /\ Shape(req[r])
    BY DEF KInv, Shaped, TypeOK
<1>2. \A p \in Request : p.pc = pc /\ Alike(req[r], p) => Shape(p)
    BY <1>1 DEF Shape, Alike, Creates, CreatorShape, UpdaterShape
<1>3. PICK p : Moves(r, p) /\ p.pc = pc /\ Alike(req[r], p)
    BY <1>1, <1>2, GoesMoves DEF Pcs
<1>4. Turns(req[r], p)
    BY <1>3 DEF Turns, Alike, Pends, Undoes, Copies, Revokes
<1>5. QED
    BY <1>3, <1>4, QuietKInv

LEMMA CreatorAtWrite ==
    ASSUME KInv, NEW r \in Requests, req[r].pc \in {"post", "patch", "insert"}
    PROVE  /\ TypeOK /\ req[r] \in Request /\ Creates(req[r]) /\ CreatorShape(req[r])
           /\ req[r].uid \in Uids /\ Wanted(r) \in Instance
           /\ \A k \in Keys : Has(Wanted(r), k) => Pends(req[r], k)
<1>1. TypeOK /\ req[r] \in Request /\ Shape(req[r])
    BY DEF KInv, Shaped, TypeOK
<1>2. Creates(req[r]) /\ CreatorShape(req[r]) /\ req[r].uid \in Uids
    BY <1>1 DEF Shape, UpdaterShape
<1>3. Wanted(r) \in Instance
    BY <1>1, <1>2 DEF Wanted, Instance, Request, CreatorShape
<1>4. \A k \in Keys : Has(Wanted(r), k) => Pends(req[r], k)
    BY DEF Has, Wanted, Pends
<1>5. QED
    BY <1>1, <1>2, <1>3, <1>4

LEMMA WantedPlace ==
    ASSUME KInv, NEW r \in Requests, req[r].pc \in {"post", "patch", "insert"},
           NEW s \in Stores, Put(s, req[r].uid, Wanted(r)), keys' = keys, torn \subseteq torn'
    PROVE  PlaceChanges(r, s, req[r].uid) /\ inst' \in Instances
<1>1. /\ TypeOK /\ req[r].uid \in Uids /\ Wanted(r) \in Instance
      /\ \A k \in Keys : Has(Wanted(r), k) => Pends(req[r], k)
    BY CreatorAtWrite
<1>2. /\ inst' \in Instances /\ inst'[s][req[r].uid] = Wanted(r)
      /\ \A t \in Stores, v \in Uids : <<t, v>> # <<s, req[r].uid>> => inst'[t][v] = inst[t][v]
    BY <1>1, PutPlace
<1>3. QED
    BY <1>1, <1>2 DEF PlaceChanges

LEMMA PostHerKInv ==
    ASSUME KInv, MigratedStay, NEW r \in Requests, PostHer(r)
    PROVE  KInv'
<1>1. TypeOK /\ req[r].uid \in Uids /\ req[r].pc = "post" /\ keys' = keys /\ "her" \in Stores
    BY CreatorAtWrite DEF PostHer, Stores
<1>2. OtherTypes' /\ torn \subseteq torn'
    <2>1. /\ torn' = torn \/ torn' = torn \cup {req[r].uid}
          /\ excused' = excused
          /\ fresh' = fresh \/ \E s, v, i : Put(s, v, i)
          /\ faults' = faults \/ \E kind : Fault(kind)
        BY DEF PostHer
    <2>2. QED
        BY <1>1, <2>1, WriteTypes
<1>3. CASE Put("her", req[r].uid, Wanted(r)) /\ Ends(r)
    <2>1. PlaceChanges(r, "her", req[r].uid) /\ inst' \in Instances
        BY <1>1, <1>2, <1>3, WantedPlace
    <2>2. QED
        BY <1>1, <1>2, <1>3, <2>1, EndsPlaceKInv
<1>4. CASE Put("her", req[r].uid, Wanted(r)) /\ Fails(r) /\ torn' = torn \cup {req[r].uid}
    <2>1. PlaceChanges(r, "her", req[r].uid) /\ inst' \in Instances
        BY <1>1, <1>2, <1>4, WantedPlace
    <2>2. QED
        BY <1>1, <1>2, <1>4, <2>1, LostKInv
<1>5. CASE (Goes(r, "patch") \/ Goes(r, "insert")) /\ UNCHANGED <<inst, torn>>
    BY <1>1, <1>2, <1>5, GoesKInv
<1>6. CASE Fails(r) /\ UNCHANGED <<inst, torn>>
    BY <1>1, <1>2, <1>6, FailsKInv
<1>7. QED
    BY <1>3, <1>4, <1>5, <1>6 DEF PostHer

LEMMA PatchHerKInv ==
    ASSUME KInv, MigratedStay, NEW r \in Requests, PatchHer(r)
    PROVE  KInv'
<1>1. TypeOK /\ req[r].uid \in Uids /\ req[r].pc = "patch" /\ keys' = keys /\ "her" \in Stores
    BY CreatorAtWrite DEF PatchHer, Stores
<1>2. OtherTypes' /\ torn \subseteq torn'
    <2>1. /\ torn' = torn \/ torn' = torn \cup {req[r].uid}
          /\ excused' = excused \/ Excuse(req[r].uid, TRUE)
          /\ fresh' = fresh \/ \E s, v, i : Put(s, v, i)
          /\ faults' = faults \/ \E kind : Fault(kind)
        BY DEF PatchHer
    <2>2. QED
        BY <1>1, <2>1, WriteTypes
<1>3. CASE Put("her", req[r].uid, Wanted(r)) /\ Ends(r)
    <2>1. PlaceChanges(r, "her", req[r].uid) /\ inst' \in Instances
        BY <1>1, <1>2, <1>3, WantedPlace
    <2>2. QED
        BY <1>1, <1>2, <1>3, <2>1, EndsPlaceKInv
<1>4. CASE Put("her", req[r].uid, Wanted(r)) /\ Fails(r) /\ torn' = torn \cup {req[r].uid}
    <2>1. PlaceChanges(r, "her", req[r].uid) /\ inst' \in Instances
        BY <1>1, <1>2, <1>4, WantedPlace
    <2>2. QED
        BY <1>1, <1>2, <1>4, <2>1, LostKInv
<1>5. CASE Goes(r, "insert") /\ UNCHANGED <<inst, torn>>
    BY <1>1, <1>2, <1>5, GoesKInv
<1>6. CASE Fails(r) /\ UNCHANGED <<inst, torn>>
    BY <1>1, <1>2, <1>6, FailsKInv
<1>7. QED
    BY <1>3, <1>4, <1>5, <1>6 DEF PatchHer

LEMMA InsertRowKInv ==
    ASSUME KInv, MigratedStay, NEW r \in Requests, InsertRow(r)
    PROVE  KInv'
<1>1. TypeOK /\ req[r].uid \in Uids /\ req[r].pc = "insert" /\ keys' = keys /\ "row" \in Stores
    BY CreatorAtWrite DEF InsertRow, Stores
<1>2. OtherTypes' /\ torn \subseteq torn'
    <2>1. /\ torn' = torn \/ torn' = torn \cup {req[r].uid}
          /\ excused' = excused
          /\ fresh' = fresh \/ \E s, v, i : Put(s, v, i)
          /\ faults' = faults \/ \E kind : Fault(kind)
        BY DEF InsertRow
    <2>2. QED
        BY <1>1, <2>1, WriteTypes
<1>3. CASE Put("row", req[r].uid, Wanted(r)) /\ Ends(r)
    <2>1. PlaceChanges(r, "row", req[r].uid) /\ inst' \in Instances
        BY <1>1, <1>2, <1>3, WantedPlace
    <2>2. QED
        BY <1>1, <1>2, <1>3, <2>1, EndsPlaceKInv
<1>4. CASE Put("row", req[r].uid, Wanted(r)) /\ Fails(r) /\ torn' = torn \cup {req[r].uid}
    <2>1. PlaceChanges(r, "row", req[r].uid) /\ inst' \in Instances
        BY <1>1, <1>2, <1>4, WantedPlace
    <2>2. QED
        BY <1>1, <1>2, <1>4, <2>1, LostKInv
<1>5. CASE Fails(r) /\ UNCHANGED <<inst, torn>>
    BY <1>1, <1>2, <1>5, FailsKInv
<1>6. QED
    BY <1>3, <1>4, <1>5 DEF InsertRow

-----------------------------------------------------------------------------
(* The steps: changes are written, instances deleted.                      *)

\* What an update or a key generation writes.
LEMMA WriterAtWrite ==
    ASSUME KInv, NEW r \in Requests, req[r].pc = "write", Here(r) # Absent
    PROVE  /\ Here(r) \in Instance /\ Changed(req[r], Here(r)) \in Instance
           /\ \A k \in Keys : Has(Changed(req[r], Here(r)), k) => Has(Here(r), k) \/ Pends(req[r], k)
           /\ Changed(req[r], Here(r)).deleted = Here(r).deleted
           /\ Clears(req[r]) => /\ req[r].kind = "update" /\ req[r].copy \in Instance
                                /\ req[r].copy.key # NoKey /\ req[r].key = NoKey /\ ~req[r].rekeyed
                                /\ Changed(req[r], Here(r)).key = NoKey
<1>1. TypeOK /\ req[r] \in Request /\ Shape(req[r])
    BY DEF KInv, Shaped, TypeOK
<1>2. /\ ~Creates(req[r]) /\ UpdaterShape(req[r]) /\ req[r].uid \in Uids
      /\ req[r].copy \in Instance /\ req[r].kind \in {"update", "keygen"}
    BY <1>1 DEF Shape, CreatorShape, UpdaterShape
<1>3. Here(r) \in Instance
    <2>1. inst \in [Stores -> [Uids -> Instance \cup {Absent}]] /\ req[r].store \in Stores
        BY <1>1 DEF TypeOK, Instances, Request
    <2>2. QED
        BY <1>2, <2>1 DEF Here
<1> DEFINE i == Changed(req[r], Here(r))
           j == Here(r)
           q == req[r]
<1>4. /\ q.key \in Keys \cup {NoKey} /\ q.provider \in Providers \cup {"same"}
      /\ q.policy \in Policies \cup {"same"} /\ q.copy.policy \in Policies
      /\ j.provider \in Providers /\ j.policy \in Policies /\ j.key \in Keys \cup {NoKey}
      /\ j.deleted \in BOOLEAN
    BY <1>1, <1>2, <1>3 DEF Request, Instance
<1>5. CASE q.kind = "keygen"
    <2>1. i = [j EXCEPT !.key = q.key]
        BY <1>5 DEF Changed
    <2>2. i \in Instance /\ i.deleted = j.deleted /\ i.key = q.key
        BY <1>3, <1>4, <2>1 DEF Instance
    <2>3. ~Clears(q)
        BY <1>5 DEF Clears
    <2>4. QED
        BY <1>3, <2>2, <2>3 DEF Has, Pends
<1>6. CASE q.kind # "keygen"
    <2> DEFINE pr == IF q.provider = "same" THEN j.provider ELSE q.provider
               pol == IF q.policy # "same" THEN q.policy
                      ELSE IF NextProvider(q, q.copy) = "litellm" /\ q.copy.provider # "litellm"
                      THEN q.copy.policy ELSE j.policy
               key == IF q.key # NoKey THEN q.key ELSE IF Clears(q) THEN NoKey ELSE j.key
    <2>1. i = [j EXCEPT !.provider = pr, !.policy = pol, !.key = key]
        BY <1>6 DEF Changed
    <2>2. pr \in Providers /\ pol \in Policies /\ key \in Keys \cup {NoKey}
        BY <1>4
    <2>3. \A k \in Keys : key = k => q.key = k \/ j.key = k
        BY RegistryAssumptions
    <2>4. Clears(q) /\ q.key = NoKey => key = NoKey
        OBVIOUS
    <2> HIDE DEF pr, pol, key
    <2>5. i \in Instance /\ i.deleted = j.deleted /\ i.key = key
        BY <1>3, <2>1, <2>2 DEF Instance
    <2>6. \A k \in Keys : Has(i, k) => Has(j, k) \/ Pends(q, k)
        BY <2>3, <2>5 DEF Has, Pends
    <2>7. Clears(q) => /\ q.kind = "update" /\ q.copy.key # NoKey /\ q.key = NoKey /\ ~q.rekeyed
        BY <1>2 DEF Clears, UpdaterShape
    <2>8. QED
        BY <1>2, <1>3, <2>4, <2>5, <2>6, <2>7
<1>7. QED
    BY <1>5, <1>6

LEMMA WriteChangesKInv ==
    ASSUME KInv, MigratedStay, NEW r \in Requests, WriteChanges(r)
    PROVE  KInv'
<1>1. /\ TypeOK /\ req[r] \in Request /\ Shape(req[r]) /\ req[r].pc = "write" /\ keys' = keys
      /\ req[r].uid \in Uids /\ req[r].store \in Stores
    BY DEF KInv, Shaped, TypeOK, WriteChanges, Shape, Request
<1>2. OtherTypes' /\ torn \subseteq torn'
    <2>1. /\ torn' = torn \/ torn' = torn \cup {req[r].uid}
          /\ excused' = excused \/ \E b : Excuse(req[r].uid, b)
          /\ fresh' = fresh \/ \E s, v, i : Put(s, v, i)
          /\ faults' = faults \/ \E kind : Fault(kind)
        BY DEF WriteChanges
    <2>2. QED
        BY <1>1, <2>1, WriteTypes
<1>3. CASE Fails(r) /\ UNCHANGED <<inst, torn>>
    BY <1>1, <1>2, <1>3, FailsKInv
<1>4. CASE Here(r) # Absent /\ Put(req[r].store, req[r].uid, Changed(req[r], Here(r)))
    <2> DEFINE i == Changed(req[r], Here(r))
    <2>1. /\ Here(r) \in Instance /\ i \in Instance
          /\ \A k \in Keys : Has(i, k) => Has(Here(r), k) \/ Pends(req[r], k)
          /\ i.deleted = Here(r).deleted
          /\ Clears(req[r]) => /\ req[r].kind = "update" /\ req[r].copy \in Instance
                               /\ req[r].copy.key # NoKey /\ req[r].key = NoKey /\ ~req[r].rekeyed
                               /\ i.key = NoKey
        BY <1>1, <1>4, WriterAtWrite
    <2>2. Put(req[r].store, req[r].uid, i)
        BY <1>4
    <2> HIDE DEF i
    <2>3. /\ inst' \in Instances /\ inst'[req[r].store][req[r].uid] = i
          /\ \A t \in Stores, v \in Uids : <<t, v>> # <<req[r].store, req[r].uid>> => inst'[t][v] = inst[t][v]
        BY <1>1, <2>1, <2>2, PutPlace
    <2>4. PlaceChanges(r, req[r].store, req[r].uid)
        BY <1>1, <1>2, <2>1, <2>3 DEF PlaceChanges, Here
    <2>5. CASE Ends(r)
        BY <1>1, <1>2, <2>3, <2>4, <2>5, EndsPlaceKInv
    <2>6. CASE Fails(r) /\ torn' = torn \cup {req[r].uid}
        BY <1>1, <1>2, <2>3, <2>4, <2>6, LostKInv
    \* The key that the instance has no more.
    <2>7. CASE Clears(req[r]) /\ Goes(r, "revoke")
        <3>1. ~Creates(req[r]) /\ UpdaterShape(req[r])
            BY <1>1, <2>1, <2>7 DEF Shape, CreatorShape, Creates
        <3>2. \A p \in Request : p.pc = "revoke" /\ Alike(req[r], p) => Shape(p)
            BY <1>1, <2>1, <2>7, <3>1 DEF Shape, Alike, Creates, UpdaterShape
        <3>3. PICK p : Moves(r, p) /\ p.pc = "revoke" /\ Alike(req[r], p)
            BY <1>1, <2>7, <3>2, GoesMoves DEF Pcs
        <3>4. ASSUME NEW k \in Keys
              PROVE  /\ ~Pends(p, k) /\ ~Undoes(p, k)
                     /\ Copies(p, k) => Copies(req[r], k)
                     /\ ~Has(inst'[req[r].store][req[r].uid], k)
            BY <1>1, <2>1, <2>3, <2>7, <3>3, RegistryAssumptions DEF Alike, Pends, Undoes, Copies, Has
        <3>5. p.uid = req[r].uid /\ p.store = req[r].store
            BY <3>3 DEF Alike
        <3>6. QED
            BY <1>1, <1>2, <2>3, <2>4, <3>3, <3>4, <3>5, PlaceTurnKInv
    <2>8. QED
        BY <1>3, <1>4, <2>5, <2>6, <2>7 DEF WriteChanges
<1>5. QED
    BY <1>3, <1>4 DEF WriteChanges

\* The row is gone, or the key in it is that of a deleted instance.
LEMMA DropRowPlace ==
    ASSUME TypeOK, NEW r \in Requests, req[r].uid \in Uids, DropRow(r), keys' = keys, torn \subseteq torn'
    PROVE  /\ PlaceChanges(r, "row", req[r].uid) /\ inst' \in Instances
           /\ inst'["row"][req[r].uid] # Absent => inst'["row"][req[r].uid].deleted
<1> DEFINE i == inst["row"][req[r].uid]
           j == IF req[r].purge THEN Absent ELSE [i EXCEPT !.deleted = TRUE]
<1>1. inst \in [Stores -> [Uids -> Instance \cup {Absent}]] /\ "row" \in Stores
    BY DEF TypeOK, Instances, Stores
<1>2. CASE i = Absent
    <2>1. inst' = inst
        BY <1>2 DEF DropRow
    <2>2. QED
        BY <1>1, <1>2, <2>1 DEF PlaceChanges, Has, Instances
<1>3. CASE i # Absent
    <2>1. i \in Instance
        BY <1>1, <1>3
    <2>2. /\ j \in Instance \cup {Absent} /\ (j # Absent => j.deleted)
          /\ \A k \in Keys : Has(j, k) => Has(i, k)
        BY <1>3, <2>1 DEF Instance, Has
    <2>3. Put("row", req[r].uid, j)
        BY <1>3 DEF DropRow
    <2> HIDE DEF j
    <2>4. /\ inst' \in Instances /\ inst'["row"][req[r].uid] = j
          /\ \A t \in Stores, v \in Uids : <<t, v>> # <<"row", req[r].uid>> => inst'[t][v] = inst[t][v]
        BY <1>1, <2>2, <2>3, PutPlace
    <2>5. PlaceChanges(r, "row", req[r].uid)
        BY <2>2, <2>4 DEF PlaceChanges, Has
    <2>6. QED
        BY <2>2, <2>4, <2>5
<1>4. QED
    BY <1>2, <1>3

LEMMA DropKInv ==
    ASSUME KInv, MigratedStay, NEW r \in Requests, Drop(r)
    PROVE  KInv'
<1>1. /\ TypeOK /\ req[r] \in Request /\ Shape(req[r]) /\ req[r].pc = "drop" /\ keys' = keys
      /\ req[r].uid \in Uids /\ req[r].store \in Stores /\ torn' = torn
    BY DEF KInv, Shaped, TypeOK, Drop, Shape, Request
<1>2. ~Creates(req[r]) /\ UpdaterShape(req[r]) /\ req[r].kind = "delete" /\ req[r].key = NoKey /\ ~req[r].rekeyed
    BY <1>1 DEF Shape, CreatorShape, UpdaterShape
<1>3. OtherTypes' /\ torn \subseteq torn'
    <2>1. /\ excused' = excused \/ \E b : Excuse(req[r].uid, b)
          /\ fresh' = fresh \/ \E s, v, i : Put(s, v, i)
          /\ faults' = faults \/ \E kind : Fault(kind)
        BY DEF Drop, DropRow
    <2>2. QED
        BY <1>1, <2>1, WriteTypes
<1>4. CASE Ends(r) /\ UNCHANGED inst
    BY <1>1, <1>3, <1>4, EndsKInv
<1>5. CASE IF req[r].store = "her" THEN Put("her", req[r].uid, Absent) ELSE DropRow(r)
    <2>1. /\ PlaceChanges(r, req[r].store, req[r].uid) /\ inst' \in Instances
          /\ inst'[req[r].store][req[r].uid] # Absent => inst'[req[r].store][req[r].uid].deleted
        <3>1. CASE req[r].store = "her"
            <4>1. /\ inst' \in Instances /\ inst'["her"][req[r].uid] = Absent
                  /\ \A t \in Stores, v \in Uids : <<t, v>> # <<"her", req[r].uid>> => inst'[t][v] = inst[t][v]
                BY <1>1, <1>5, <3>1, PutPlace
            <4>2. QED
                BY <1>1, <1>3, <3>1, <4>1 DEF PlaceChanges, Has
        <3>2. CASE req[r].store # "her"
            <4>1. req[r].store = "row" /\ DropRow(r)
                BY <1>1, <1>5, <3>2 DEF Stores
            <4>2. QED
                BY <1>1, <1>3, <4>1, DropRowPlace
        <3>3. QED
            BY <3>1, <3>2
    <2>2. CASE Ends(r)
        BY <1>1, <1>3, <2>1, <2>2, EndsPlaceKInv
    <2>3. CASE KeyOrForget(r) /\ ~Ends(r)
        <3>1. PICK pc \in {"revoke", "forget"} :
                 Goes(r, pc) /\ (pc = "revoke" => req[r].copy # Absent /\ req[r].copy.key # NoKey)
            BY <2>3 DEF KeyOrForget
        <3>2. pc = "revoke" => req[r].copy \in Instance
            BY <1>1, <3>1 DEF Request
        <3>3. \A p \in Request : p.pc = pc /\ Alike(req[r], p) => Shape(p)
            BY <1>1, <1>2, <3>1, <3>2 DEF Shape, Alike, Creates, UpdaterShape
        <3>4. PICK p : Moves(r, p) /\ p.pc = pc /\ Alike(req[r], p)
            BY <1>1, <3>1, <3>3, GoesMoves DEF Pcs
        <3>5. p.uid = req[r].uid /\ p.store = req[r].store
            BY <3>4 DEF Alike
        <3>6. ASSUME NEW k \in Keys
              PROVE  ~Pends(p, k) /\ ~Undoes(p, k) /\ (Copies(p, k) => Copies(req[r], k))
            BY <1>1, <3>1, <3>4 DEF Alike, Pends, Undoes, Copies
        <3>7. QED
            BY <1>1, <1>3, <2>1, <3>4, <3>5, <3>6, PlaceTurnKInv DEF Has
    <2>4. QED
        BY <1>4, <1>5, <2>2, <2>3 DEF Drop
<1>6. QED
    BY <1>4, <1>5 DEF Drop

LEMMA ForgetKInv ==
    ASSUME KInv, MigratedStay, NEW r \in Requests, Forget(r)
    PROVE  KInv'
<1>1. /\ TypeOK /\ Shape(req[r]) /\ req[r].pc = "forget" /\ keys' = keys
      /\ req[r].uid \in Uids /\ torn' = torn /\ Ends(r)
    BY DEF KInv, Shaped, TypeOK, Forget, Shape
<1>2. OtherTypes' /\ torn \subseteq torn'
    <2>1. /\ excused' = excused \/ \E b : Excuse(req[r].uid, b)
          /\ fresh' = fresh \/ \E s, v, i : Put(s, v, i)
          /\ faults' = faults \/ \E kind : Fault(kind)
        BY DEF Forget, DropRow
    <2>2. QED
        BY <1>1, <2>1, WriteTypes
<1>3. CASE DropRow(r)
    <2>1. PlaceChanges(r, "row", req[r].uid) /\ inst' \in Instances /\ "row" \in Stores
        BY <1>1, <1>2, <1>3, DropRowPlace DEF Stores
    <2>2. QED
        BY <1>1, <1>2, <2>1, EndsPlaceKInv
<1>4. CASE UNCHANGED inst
    BY <1>1, <1>2, <1>4, EndsKInv
<1>5. QED
    BY <1>3, <1>4 DEF Forget

-----------------------------------------------------------------------------
(* The process dies.                                                       *)

LEMMA DoneShape ==
    ASSUME NEW q \in Request, Shape(q), q.pc # "new", NEW p, p = [q EXCEPT !.pc = "done"]
    PROVE  p \in Request /\ p.pc = "done" /\ Shape(p) /\ EmptyHanded(p) /\ Alike(q, p)
<1>1. p \in Request /\ p.pc = "done" /\ Alike(q, p)
    BY DEF Request, Pcs, Alike
<1>2. Shape(p)
    BY <1>1 DEF Shape, Alike, Creates, CreatorShape, UpdaterShape
<1>3. EmptyHanded(p)
    BY <1>1 DEF EmptyHanded, Pends, Undoes, Copies, Revokes, Rekeys
<1>4. QED
    BY <1>1, <1>2, <1>3

\* Nothing of a request that was under way is left but where it stood.
LEMMA CrashEnds ==
    ASSUME TypeOK, Shaped(req), Crash
    PROVE  /\ req' \in [Requests -> Request]
           /\ \A o \in Requests :
                 \/ ~Active(o) /\ req'[o] = req[o]
                 \/ /\ Active(o) /\ req'[o].pc = "done" /\ Alike(req[o], req'[o])
                    /\ Shape(req'[o]) /\ EmptyHanded(req'[o])
<1>1. req' = [o \in Requests |-> IF Active(o) THEN [req[o] EXCEPT !.pc = "done"] ELSE req[o]]
    BY DEF Crash
<1>2. ASSUME NEW o \in Requests
      PROVE  /\ req'[o] \in Request
             /\ \/ ~Active(o) /\ req'[o] = req[o]
                \/ /\ Active(o) /\ req'[o].pc = "done" /\ Alike(req[o], req'[o])
                   /\ Shape(req'[o]) /\ EmptyHanded(req'[o])
    <2>1. req[o] \in Request /\ Shape(req[o])
        BY DEF TypeOK, Shaped
    <2>2. CASE ~Active(o)
        BY <1>1, <2>1, <2>2
    <2>3. CASE Active(o)
        <3>1. req'[o] = [req[o] EXCEPT !.pc = "done"] /\ req[o].pc # "new"
            BY <1>1, <2>3 DEF Active
        <3>2. QED
            BY <2>1, <2>3, <3>1, DoneShape
    <2>4. QED
        BY <2>2, <2>3
<1>3. req' \in [Requests -> Request]
    BY <1>1, <1>2
<1>4. QED
    BY <1>2, <1>3

LEMMA CrashKInv ==
    ASSUME KInv, MigratedStay, Crash
    PROVE  KInv'
<1>1. /\ req' \in [Requests -> Request]
      /\ \A o \in Requests :
            \/ req'[o] = req[o]
            \/ Alike(req[o], req'[o]) /\ Shape(req'[o]) /\ EmptyHanded(req'[o])
    BY CrashEnds DEF KInv
<1>2. /\ inst' = inst /\ keys' = keys /\ fresh' = fresh /\ torn' = torn
      /\ excused' \in SUBSET Uids /\ faults' \in 0..MaxFaults
    BY FaultType DEF Crash, KInv, TypeOK
<1>3. TypeOK'
    BY <1>1, <1>2 DEF KInv, TypeOK, MigratedStay
<1>4. ASSUME NEW o \in Requests
      PROVE  /\ Shape(req'[o]) /\ Owns(req'[o], inst, keys, torn, migrated)
             /\ RowAlone(req'[o], inst, migrated)
    <2>1. Shape(req[o]) /\ Owns(req[o], inst, keys, torn, migrated) /\ RowAlone(req[o], inst, migrated)
        BY DEF KInv, Shaped
    <2>2. CASE req'[o] = req[o]
        BY <2>1, <2>2
    <2>3. CASE Alike(req[o], req'[o]) /\ Shape(req'[o]) /\ EmptyHanded(req'[o])
        <3>1. RowAlone(req'[o], inst, migrated)
            BY <2>1, <2>3 DEF Alike, RowAlone
        <3>2. QED
            BY <2>3, <3>1, EmptyOwns
    <2>4. QED
        BY <1>1, <2>2, <2>3
<1>5. Apart(req')
    BY <1>1 DEF KInv, Apart, EmptyHanded
<1>6. QED
    BY <1>2, <1>3, <1>4, <1>5 DEF KInv, Shaped, MigratedStay

-----------------------------------------------------------------------------
(* The invariant holds.                                                    *)

LEMMA NewShape == NewRequest \in Request /\ Shape(NewRequest) /\ EmptyHanded(NewRequest)
<1>1. NewRequest \in Request
    BY DEF NewRequest, Request, Pcs, AllKinds, Stores, Providers
<1>2. NewRequest.pc = "new" /\ NewRequest.key = NoKey /\ NewRequest.copy = Absent /\ ~NewRequest.rekeyed
    BY DEF NewRequest
<1>3. QED
    BY <1>1, <1>2, NothingInHand DEF Shape

LEMMA InitKInv == Init => KInv
<1> SUFFICES ASSUME Init PROVE KInv
    OBVIOUS
<1>1. \A r \in Requests : req[r] = NewRequest
    BY DEF Init
<1>2. PICK s \in InitStates : inst = s.inst /\ keys = s.keys
    BY DEF Init
<1>3. inst \in Instances /\ keys \in KeyTable /\ AllInOrder(inst, keys)
    BY <1>2, RegistryAssumptions
<1>4. ASSUME NEW st \in Stores, NEW u \in Uids
      PROVE  KeyOk(inst[st][u], u, keys)
    BY <1>2, RegistryAssumptions
<1>5. TypeOK
    BY <1>3, NewShape, RegistryAssumptions DEF TypeOK, Init, Doubled
<1>6. Shaped(req)
    BY <1>1, NewShape DEF Shaped
<1>7. SlotsOwn(inst, keys, migrated)
    <2> SUFFICES ASSUME NEW k \in Keys, NEW st \in Stores, NEW u \in Uids, Has(inst[st][u], k)
                 PROVE  /\ IsOf(keys, k, u)
                        /\ \A t \in Stores, v \in Uids :
                              Has(inst[t][v], k) => v = u /\ (t = st \/ k \in migrated)
        BY DEF SlotsOwn
    <2>1. IsOf(keys, k, u) /\ \A t \in Stores, v \in Uids : Has(inst[t][v], k) => v = u
        BY <1>3 DEF AllInOrder, IsOf
    <2>2. ASSUME NEW t \in Stores, Has(inst[t][u], k), t # st
          PROVE  k \in migrated
        BY <2>2 DEF Stores, Doubled, Init
    <2>3. QED
        BY <2>1, <2>2
<1>8. SlotsLive(inst, keys, torn, migrated)
    BY <1>4, RegistryAssumptions DEF SlotsLive, KeyOk, InUse, Has, Holds
<1>9. \A r \in Requests : Owns(req[r], inst, keys, torn, migrated) /\ RowAlone(req[r], inst, migrated)
    BY <1>1, NewShape, EmptyOwns DEF RowAlone, NewRequest
<1>10. Apart(req)
    BY <1>1, NewShape DEF Apart, EmptyHanded
<1>11. \A k \in migrated : k \in Keys /\ keys[k] # Unissued
    <2>1. ASSUME NEW k \in migrated
          PROVE  k \in Keys /\ keys[k] # Unissued
        <3>1. k \in Keys /\ \E u \in Uids : Has(inst["her"][u], k)
            BY DEF Init, Doubled, Stores
        <3>2. QED
            BY <1>3, <3>1 DEF AllInOrder, Stores
    <2>2. QED
        BY <2>1
<1>12. QED
    BY <1>5, <1>6, <1>7, <1>8, <1>9, <1>10, <1>11 DEF KInv

LEMMA UnchangedKInv == KInv /\ UNCHANGED vars => KInv'
<1> SUFFICES ASSUME KInv, UNCHANGED vars PROVE KInv'
    OBVIOUS
<1>1. /\ inst' = inst /\ keys' = keys /\ req' = req /\ faults' = faults
      /\ fresh' = fresh /\ torn' = torn /\ excused' = excused /\ migrated' = migrated
    BY DEF vars
<1>2. TypeOK'
    BY <1>1 DEF KInv, TypeOK
<1>3. QED
    BY <1>1, <1>2 DEF KInv

LEMMA NextKInv == KInv /\ [Next]_vars => KInv'
<1> SUFFICES ASSUME KInv, [Next]_vars PROVE KInv'
    OBVIOUS
<1>1. ASSUME NEW r \in Requests, Step(r), MigratedStay PROVE KInv'
    BY <1>1, BeginCreateKInv, BeginOtherKInv, ReadMaxKInv, ListHersKInv, PostHerKInv, PatchHerKInv,
       InsertRowKInv, HasCrdKInv, ReadForUpdateKInv, ReadForKeygenKInv, ReadForDeleteKInv,
       GenerateKeyKInv, UpdateKeyKInv, UndoKeyKInv, RevokeOldKInv, WriteChangesKInv, DropKInv,
       ForgetKInv DEF Step
<1>2. QED
    BY <1>1, UnchangedKInv, CrashKInv DEF Next, MigratedStay

LEMMA SpecKInv == Spec => []KInv
    BY InitKInv, NextKInv, PTL DEF Spec

\* Every value stays in its domain, whatever the requests, faults and keys.
THEOREM RegistryTypeOK == Spec => []TypeOK
<1>1. KInv => TypeOK
    BY DEF KInv
<1>2. QED
    BY <1>1, SpecKInv, PTL

\* However requests on one instance interleave and whichever calls fail, and even
\* if the process dies, the key of an instance in use is live and its own, unless a
\* write of it was made and reported as failed: the undo of a failed request deletes
\* only the key it generated, and an update or a deletion only the one it took out.
\* The exception is a row that migrate.py left in use beside a resource with its
\* key, after the key has left the resource: nobody takes it out of the row.
THEOREM KeysStayLive == Spec => []KeyIsLive
<1>1. KInv => KeyIsLive
    <2> SUFFICES ASSUME KInv, NEW u \in Uids \ torn, NEW s \in Stores,
                        InUse(inst[s][u]), inst[s][u].key # NoKey,
                        ~(s = "row" /\ inst[s][u].key \in migrated /\ ~(InUse(inst["her"][u]) /\ Has(inst["her"][u], inst[s][u].key)))
                 PROVE  inst[s][u].key \in Keys /\ keys[inst[s][u].key].state = "live" /\ keys[inst[s][u].key].uid = u
        BY DEF KeyIsLive, KeyOk
    <2> DEFINE k == inst[s][u].key
    <2>1. inst \in [Stores -> [Uids -> Instance \cup {Absent}]]
        BY DEF KInv, TypeOK, Instances
    <2>2. inst[s][u] \in Instance
        BY <2>1 DEF InUse
    <2>3. k \in Keys /\ Has(inst[s][u], k) /\ ~inst[s][u].deleted
        BY <2>2 DEF Instance, InUse, Has
    <2> HIDE DEF k
    <2>4. IsOf(keys, k, u)
        BY <2>3 DEF KInv, SlotsOwn
    \* The key is in a place that counts: the row or the resource.
    <2>5. \E t \in Stores : Holds(inst, migrated, t, u, k) /\ ~inst[t][u].deleted
        BY <2>3 DEF Holds, InUse, Has, Stores, k
    <2>6. keys[k].state = "live"
        <3>1. SlotsLive(inst, keys, torn, migrated)
            BY DEF KInv
        <3>2. QED
            BY <2>3, <2>5, <3>1 DEF SlotsLive
    <2>7. QED
        BY <2>3, <2>4, <2>6 DEF IsOf, k
<1>2. QED
    BY <1>1, SpecKInv, PTL

-----------------------------------------------------------------------------
(* No key is lost.  A key that LiteLLM honours is in its instance, on its  *)
(* way there or on its way out; and what a request has read, and nobody    *)
(* has written since, is still there.                                      *)

Grips(q, k) == Pends(q, k) \/ Undoes(q, k) \/ Revokes(q, k)

InPlace(is, k, u) == \E s \in Stores : Has(is[s][u], k) /\ ~is[s][u].deleted

Kept ==
    \A k \in Keys : keys[k].state = "live" =>
        \/ InPlace(inst, k, keys[k].uid)
        \/ \E r \in Requests : Grips(req[r], k)
        \/ keys[k].uid \in excused \cup torn

Current(q, is) ==
    /\ ~Creates(q) /\ q.pc \notin {"check", "read"}
    /\ q.pc # "done" => is[q.store][q.uid] = q.copy \/ is[q.store][q.uid] = Absent

FreshCopies == \A r \in fresh : Current(req[r], inst)

OthersStay(r) == \A o \in Requests \ {r} : req'[o] = req[o]

LEMMA StepOthers ==
    ASSUME TypeOK, NEW r \in Requests, Step(r)
    PROVE  OthersStay(r)
<1>1. \A p : Becomes(r, p) => OthersStay(r)
    BY DEF TypeOK, Becomes, OthersStay
<1>2. \E p : Becomes(r, p)
    BY DEF Step, BeginCreate, BeginOther, ReadMax, ListHers, PostHer, PatchHer, InsertRow, HasCrd,
       ReadForUpdate, ReadForKeygen, ReadForDelete, GenerateKey, UpdateKey, UndoKey, RevokeOld,
       WriteChanges, Drop, Forget, Goes, Ends, Fails, KeyOrForget
<1>3. QED
    BY <1>1, <1>2

\* What ends has nothing in hand, and stays what it is.
LEMMA EndsHands ==
    ASSUME KInv, NEW r \in Requests, req[r].pc \notin {"new", "dbmax", "done"}, Ends(r)
    PROVE  /\ EmptyHanded(req'[r])
           /\ ~Creates(req[r]) => ~Creates(req'[r]) /\ req'[r].pc = "done"
<1>1. TypeOK /\ req[r] \in Request /\ Shape(req[r])
    BY DEF KInv, Shaped, TypeOK
<1>2. req'[r] = Over(req[r])
    BY <1>1 DEF TypeOK, Ends, Becomes
<1>3. ASSUME ~Creates(req[r])
      PROVE  ~Creates(req'[r]) /\ req'[r].pc = "done"
    <2>1. req[r].left = 0
        BY <1>1, <1>3 DEF Shape, UpdaterShape
    <2>2. Over(req[r]) = [req[r] EXCEPT !.pc = "done"]
        BY <2>1 DEF Over
    <2>3. QED
        BY <1>1, <1>2, <1>3, <2>2 DEF Request, Creates
<1>4. QED
    BY <1>1, <1>2, <1>3, OverProperties

LEMMA GoesHands ==
    ASSUME KInv, NEW r \in Requests, NEW pc \in Pcs, Goes(r, pc)
    PROVE  req'[r].pc = pc /\ Alike(req[r], req'[r])
<1>1. req[r] \in Request /\ req'[r] = [req[r] EXCEPT !.pc = pc]
    BY DEF KInv, TypeOK, Goes, Becomes
<1>2. QED
    BY <1>1 DEF Request, Alike

\* What fails takes back what it has done.
LEMMA FailsHands ==
    ASSUME KInv, NEW r \in Requests, req[r].pc \in {"post", "patch", "insert", "write"}, Fails(r)
    PROVE  /\ EmptyHanded(req'[r]) \/ (req'[r].pc = "undo" /\ Alike(req[r], req'[r]))
           /\ ~Creates(req[r]) => ~Creates(req'[r]) /\ req'[r].pc \in {"done", "undo"}
           /\ \A k \in Keys : /\ ~Pends(req'[r], k)
                              /\ Grips(req[r], k) => Grips(req'[r], k)
                              /\ Rekeys(req[r], k) <=> Rekeys(req'[r], k)
<1>1. TypeOK /\ req[r] \in Request /\ Shape(req[r])
    BY DEF KInv, Shaped, TypeOK
<1>2. CASE req[r].key # NoKey \/ req[r].rekeyed
    <2>1. req'[r].pc = "undo" /\ Alike(req[r], req'[r])
        BY <1>2, GoesHands DEF Fails, Pcs
    <2>2. req[r].rekeyed => req[r].pc = "write"
        BY <1>1 DEF Shape, CreatorShape, UpdaterShape
    <2>3. QED
        BY <2>1, <2>2 DEF Alike, Creates, Grips, Pends, Undoes, Revokes, Rekeys
<1>3. CASE ~(req[r].key # NoKey \/ req[r].rekeyed)
    <2>1. EmptyHanded(req'[r]) /\ (~Creates(req[r]) => ~Creates(req'[r]) /\ req'[r].pc = "done")
        BY <1>3, EndsHands DEF Fails
    <2>2. \A k \in Keys : ~Grips(req[r], k) /\ ~Rekeys(req[r], k)
        BY <1>3, RegistryAssumptions DEF Grips, Pends, Undoes, Revokes, Rekeys
    <2>3. QED
        BY <2>1, <2>2 DEF EmptyHanded
<1>4. QED
    BY <1>2, <1>3

\* The steps that leave instances and keys alone.
Plain(r) ==
    \/ BeginCreate(r) \/ BeginOther(r) \/ ReadMax(r) \/ ListHers(r) \/ HasCrd(r)
    \/ ReadForUpdate(r) \/ ReadForKeygen(r) \/ ReadForDelete(r)

EmptyNow(q) == q.key = NoKey /\ ~q.rekeyed /\ q.pc # "revoke"

LEMMA EmptyNowHands ==
    ASSUME NEW q, EmptyNow(q), NEW k \in Keys
    PROVE  ~Grips(q, k) /\ ~Rekeys(q, k)
    BY RegistryAssumptions DEF EmptyNow, Grips, Pends, Undoes, Revokes, Rekeys

LEMMA PlainBefore ==
    ASSUME KInv, NEW r \in Requests, Plain(r)
    PROVE  /\ UNCHANGED <<inst, keys, torn, excused>> /\ EmptyNow(req[r])
           /\ req[r].pc \notin {"generate", "rekey", "write", "undo", "revoke", "drop", "forget"}
<1>1. Shape(req[r])
    BY DEF KInv, Shaped
<1>2. req[r].pc \in {"new", "dbmax", "list", "check", "read"}
    BY DEF Plain, BeginCreate, BeginOther, ReadMax, ListHers, HasCrd, ReadForUpdate, ReadForKeygen,
       ReadForDelete
<1>3. UNCHANGED <<inst, keys, torn, excused>>
    BY DEF Plain, BeginCreate, BeginOther, ReadMax, ListHers, HasCrd, ReadForUpdate, ReadForKeygen,
       ReadForDelete
<1>4. QED
    BY <1>1, <1>2, <1>3 DEF Shape, EmptyNow

LEMMA PlainAfter ==
    ASSUME KInv, NEW r \in Requests, Plain(r)
    PROVE  EmptyNow(req'[r])
<1>1. TypeOK /\ req[r] \in Request /\ Shape(req[r]) /\ EmptyNow(req[r])
    BY PlainBefore DEF KInv, Shaped, TypeOK
<1>2. ASSUME NEW p, Becomes(r, p)
      PROVE  req'[r] = p
    BY <1>1, <1>2 DEF TypeOK, Becomes
<1>3. ASSUME Ends(r)
      PROVE  EmptyNow(req'[r])
    <2>1. req'[r] = Over(req[r])
        BY <1>2, <1>3 DEF Ends
    <2>2. \A q \in Request : EmptyNow(q) => EmptyNow(Over(q))
        BY DEF EmptyNow, Over, Request, FirstCall
    <2>3. QED
        BY <1>1, <2>1, <2>2
<1>4. ASSUME BeginCreate(r) \/ BeginOther(r)
      PROVE  EmptyNow(req'[r])
    <2> DEFINE q == req[r]
    <2>1. ASSUME BeginCreate(r) PROVE \E z : Becomes(r, z) /\ EmptyNow(z)
        <3>1. PICK p \in Providers, pol \in Policies :
                 \/ \E u \in Uids : Becomes(r, [q EXCEPT !.pc = FirstCall(p), !.uid = u, !.provider = p, !.policy = pol])
                 \/ \E kind \in Kinds \cap {"create", "import"} :
                       Becomes(r, [q EXCEPT !.pc = "dbmax", !.kind = kind, !.auto = TRUE, !.provider = p, !.policy = pol,
                                       !.left = IF kind = "import" THEN 1 ELSE 0])
            BY <2>1 DEF BeginCreate
        <3>2. ASSUME NEW u, Becomes(r, [q EXCEPT !.pc = FirstCall(p), !.uid = u, !.provider = p, !.policy = pol])
              PROVE  \E z : Becomes(r, z) /\ EmptyNow(z)
            <4> DEFINE z == [q EXCEPT !.pc = FirstCall(p), !.uid = u, !.provider = p, !.policy = pol]
            <4>1. EmptyNow(z)
                BY <1>1 DEF Request, EmptyNow, FirstCall
            <4>2. Becomes(r, z)
                BY <3>2
            <4> HIDE DEF z
            <4>3. QED
                BY <4>1, <4>2
        <3>3. ASSUME NEW kind, Becomes(r, [q EXCEPT !.pc = "dbmax", !.kind = kind, !.auto = TRUE, !.provider = p, !.policy = pol,
                                       !.left = IF kind = "import" THEN 1 ELSE 0])
              PROVE  \E z : Becomes(r, z) /\ EmptyNow(z)
            <4> DEFINE z == [q EXCEPT !.pc = "dbmax", !.kind = kind, !.auto = TRUE, !.provider = p, !.policy = pol,
                                       !.left = IF kind = "import" THEN 1 ELSE 0]
            <4>1. EmptyNow(z)
                BY <1>1 DEF Request, EmptyNow, FirstCall
            <4>2. Becomes(r, z)
                BY <3>3
            <4> HIDE DEF z
            <4>3. QED
                BY <4>1, <4>2
        <3>4. QED
            BY <3>1, <3>2, <3>3
    <2>2. ASSUME BeginOther(r) PROVE \E z : Becomes(r, z) /\ EmptyNow(z)
        <3>1. PICK u \in Uids :
                 \/ \E p \in Providers \cup {"same"}, pol \in Policies \cup {"same"} :
                       Becomes(r, [q EXCEPT !.pc = "check", !.kind = "update", !.uid = u, !.provider = p, !.policy = pol])
                 \/ Becomes(r, [q EXCEPT !.pc = "read", !.kind = "keygen", !.uid = u])
                 \/ \E purge \in BOOLEAN :
                       Becomes(r, [q EXCEPT !.pc = "check", !.kind = "delete", !.uid = u, !.purge = purge])
            BY <2>2 DEF BeginOther
        <3>2. ASSUME NEW p, NEW pol,
                     Becomes(r, [q EXCEPT !.pc = "check", !.kind = "update", !.uid = u, !.provider = p, !.policy = pol])
              PROVE  \E z : Becomes(r, z) /\ EmptyNow(z)
            <4> DEFINE z == [q EXCEPT !.pc = "check", !.kind = "update", !.uid = u, !.provider = p, !.policy = pol]
            <4>1. EmptyNow(z)
                BY <1>1 DEF Request, EmptyNow, FirstCall
            <4>2. Becomes(r, z)
                BY <3>2
            <4> HIDE DEF z
            <4>3. QED
                BY <4>1, <4>2
        <3>3. ASSUME Becomes(r, [q EXCEPT !.pc = "read", !.kind = "keygen", !.uid = u])
              PROVE  \E z : Becomes(r, z) /\ EmptyNow(z)
            <4> DEFINE z == [q EXCEPT !.pc = "read", !.kind = "keygen", !.uid = u]
            <4>1. EmptyNow(z)
                BY <1>1 DEF Request, EmptyNow, FirstCall
            <4>2. Becomes(r, z)
                BY <3>3
            <4> HIDE DEF z
            <4>3. QED
                BY <4>1, <4>2
        <3>4. ASSUME NEW purge, Becomes(r, [q EXCEPT !.pc = "check", !.kind = "delete", !.uid = u, !.purge = purge])
              PROVE  \E z : Becomes(r, z) /\ EmptyNow(z)
            <4> DEFINE z == [q EXCEPT !.pc = "check", !.kind = "delete", !.uid = u, !.purge = purge]
            <4>1. EmptyNow(z)
                BY <1>1 DEF Request, EmptyNow, FirstCall
            <4>2. Becomes(r, z)
                BY <3>4
            <4> HIDE DEF z
            <4>3. QED
                BY <4>1, <4>2
        <3>5. QED
            BY <3>1, <3>2, <3>3, <3>4
    <2>3. QED
        BY <1>2, <1>4, <2>1, <2>2
<1>5. ASSUME ReadMax(r) \/ ListHers(r) \/ HasCrd(r)
      PROVE  EmptyNow(req'[r])
    BY <1>1, <1>2, <1>5 DEF ReadMax, ListHers, HasCrd, Request, EmptyNow, FirstCall, Goes
<1>6. ASSUME ReadForUpdate(r) \/ ReadForKeygen(r) \/ ReadForDelete(r)
      PROVE  EmptyNow(req'[r])
    BY <1>1, <1>2, <1>3, <1>6 DEF ReadForUpdate, ReadForKeygen, ReadForDelete, Request, EmptyNow
<1>7. QED
    BY <1>4, <1>5, <1>6 DEF Plain

LEMMA PutElsewhere ==
    ASSUME TypeOK, NEW s, NEW u, NEW i, Put(s, u, i),
           NEW t \in Stores, NEW v \in Uids, <<t, v>> # <<s, u>>
    PROVE  inst'[t][v] = inst[t][v]
<1>1. inst \in [Stores -> [Uids -> Instance \cup {Absent}]]
    BY DEF TypeOK, Instances
<1>2. inst' = [inst EXCEPT ![s] = [inst[s] EXCEPT ![u] = i]]
    BY DEF Put
<1>3. CASE t # s
    BY <1>1, <1>2, <1>3
<1>4. CASE t = s
    <2>1. inst'[t] = [inst[s] EXCEPT ![u] = i] /\ v # u
        BY <1>1, <1>2, <1>4
    <2>2. inst[s] \in [Uids -> Instance \cup {Absent}]
        BY <1>1, <1>4
    <2>3. QED
        BY <1>4, <2>1, <2>2
<1>5. QED
    BY <1>3, <1>4

LEMMA OthersCurrent ==
    ASSUME KInv, FreshCopies, NEW r \in Requests, Step(r), NEW o \in Requests \ {r}, o \in fresh'
    PROVE  Current(req'[o], inst')
<1>1. TypeOK /\ req'[o] = req[o] /\ Shape(req[o]) /\ req[o].store \in Stores
    BY StepOthers DEF KInv, OthersStay, Shaped, TypeOK, Request
<1>2. \/ inst' = inst /\ (fresh' = fresh \/ Reads(r))
      \/ \E s, u, i : Put(s, u, i)
    <2>1. CASE BeginCreate(r) \/ BeginOther(r) \/ ReadMax(r) \/ ListHers(r) \/ HasCrd(r) \/ GenerateKey(r)
                  \/ UpdateKey(r) \/ UndoKey(r) \/ RevokeOld(r)
        BY <2>1 DEF BeginCreate, BeginOther, ReadMax, ListHers, HasCrd, GenerateKey, UpdateKey, UndoKey, RevokeOld
    <2>2. CASE ReadForUpdate(r) \/ ReadForKeygen(r) \/ ReadForDelete(r)
        BY <2>2 DEF ReadForUpdate, ReadForKeygen, ReadForDelete
    <2>3. CASE PostHer(r) \/ PatchHer(r) \/ InsertRow(r) \/ WriteChanges(r)
        BY <2>3 DEF PostHer, PatchHer, InsertRow, WriteChanges
    <2>4. CASE Drop(r) \/ Forget(r)
        BY <2>4 DEF Drop, Forget, DropRow
    <2>5. QED
        BY <2>1, <2>2, <2>3, <2>4 DEF Step
<1>3. o \in fresh
    BY <1>2 DEF Reads, Put
<1>4. Current(req[o], inst)
    BY <1>3 DEF FreshCopies
<1>5. CASE inst' = inst
    BY <1>1, <1>4, <1>5
<1>6. ASSUME NEW s, NEW u, NEW i, Put(s, u, i), req[o].pc # "done"
      PROVE  inst'[req[o].store][req[o].uid] = inst[req[o].store][req[o].uid]
    <2>1. <<req[o].store, req[o].uid>> # <<s, u>>
        BY <1>6 DEF Put
    <2>2. req[o].pc # "new"
        BY <1>1, <1>4 DEF Shape, Current, NewRequest, Creates
    <2>3. req[o].uid \in Uids
        BY <1>1, <1>4, <1>6, <2>2 DEF Shape, Current, UpdaterShape
    <2>4. QED
        BY <1>1, <1>6, <2>1, <2>3, PutElsewhere
<1>7. QED
    BY <1>1, <1>2, <1>4, <1>5, <1>6 DEF Current

\* What r has just read, and what it goes on with.
LEMMA ReaderCurrent ==
    ASSUME KInv, NEW r \in Requests, ReadForUpdate(r) \/ ReadForKeygen(r) \/ ReadForDelete(r)
    PROVE  Current(req'[r], inst')
<1>1. TypeOK /\ req[r] \in Request /\ ~Creates(req[r]) /\ req[r].pc = "read" /\ inst' = inst
    BY ReaderShape DEF ReadForUpdate, ReadForKeygen, ReadForDelete
<1>2. ASSUME Ends(r)
      PROVE  Current(req'[r], inst')
    BY <1>1, <1>2, EndsHands DEF Current
<1>3. ASSUME NEW p, Becomes(r, p)
      PROVE  req'[r] = p
    BY <1>1, <1>3 DEF TypeOK, Becomes
<1>4. CASE ReadForUpdate(r)
    <2> DEFINE pc == CASE NextProvider(req[r], AsRead(r)) = "litellm" /\ AsRead(r).key = NoKey -> "generate"
                       [] /\ NextProvider(req[r], AsRead(r)) = "litellm" /\ AsRead(r).key # NoKey
                          /\ AsRead(r).provider # "litellm" \/ NextPolicy(req[r], AsRead(r)) # AsRead(r).policy
                          -> "rekey"
                       [] OTHER -> "write"
    <2>1. Ends(r) \/ Becomes(r, [req[r] EXCEPT !.copy = AsRead(r), !.pc = pc])
        BY <1>4 DEF ReadForUpdate
    <2>2. pc \in {"generate", "rekey", "write"}
        OBVIOUS
    <2> HIDE DEF pc
    <2>3. CASE Becomes(r, [req[r] EXCEPT !.copy = AsRead(r), !.pc = pc])
        <3>1. req'[r] = [req[r] EXCEPT !.copy = AsRead(r), !.pc = pc]
            BY <1>3, <2>3
        <3>2. /\ req'[r].pc = pc /\ req'[r].kind = req[r].kind /\ req'[r].store = req[r].store
              /\ req'[r].uid = req[r].uid /\ req'[r].copy = AsRead(r)
            BY <1>1, <3>1 DEF Request
        <3>3. AsRead(r) = Here(r) \/ Here(r) = Absent
            BY DEF AsRead
        <3>4. QED
            BY <1>1, <2>2, <3>2, <3>3 DEF Current, Creates, Here
    <2>4. QED
        BY <1>2, <2>1, <2>3
<1>5. CASE ReadForKeygen(r)
    <2>1. PICK s \in Stores :
             LET i == inst[s][req[r].uid] IN
             IF i # Absent /\ i.provider = "litellm" /\ i.key = NoKey
             THEN Becomes(r, [req[r] EXCEPT !.store = s, !.copy = i, !.pc = "generate"])
             ELSE Ends(r)
        BY <1>5 DEF ReadForKeygen
    <2> DEFINE i == inst[s][req[r].uid]
    <2>2. CASE Becomes(r, [req[r] EXCEPT !.store = s, !.copy = i, !.pc = "generate"])
        <3>1. req'[r] = [req[r] EXCEPT !.store = s, !.copy = i, !.pc = "generate"]
            BY <1>3, <2>2
        <3> HIDE DEF i
        <3>2. /\ req'[r].pc = "generate" /\ req'[r].kind = req[r].kind /\ req'[r].store = s
              /\ req'[r].uid = req[r].uid /\ req'[r].copy = i
            BY <1>1, <3>1 DEF Request
        <3>3. QED
            BY <1>1, <3>2 DEF Current, Creates, i
    <2>3. QED
        BY <1>2, <2>1, <2>2
<1>6. CASE ReadForDelete(r)
    <2>1. req'[r] = [req[r] EXCEPT !.copy = Here(r), !.pc = "drop"]
        BY <1>3, <1>6 DEF ReadForDelete
    <2>2. /\ req'[r].pc = "drop" /\ req'[r].kind = req[r].kind /\ req'[r].store = req[r].store
          /\ req'[r].uid = req[r].uid /\ req'[r].copy = Here(r)
        BY <1>1, <2>1 DEF Request
    <2>3. QED
        BY <1>1, <2>2 DEF Current, Creates, Here
<1>7. QED
    BY <1>4, <1>5, <1>6

LEMMA FreshStep ==
    ASSUME KInv, FreshCopies, NEW r \in Requests, Step(r)
    PROVE  FreshCopies'
<1>1. TypeOK /\ req[r] \in Request /\ Shape(req[r])
    BY DEF KInv, Shaped, TypeOK
<1>2. fresh' \subseteq Requests
    BY <1>1 DEF TypeOK, Step, BeginCreate, BeginOther, ReadMax, ListHers, PostHer, PatchHer, InsertRow, HasCrd,
       ReadForUpdate, ReadForKeygen, ReadForDelete, GenerateKey, UpdateKey, UndoKey, RevokeOld,
       WriteChanges, Drop, Forget, Reads, Put, DropRow
<1>3. ASSUME r \in fresh'
      PROVE  Current(req'[r], inst')
    <2>1. ASSUME r \in fresh, Ends(r), req[r].pc \notin {"new", "dbmax", "done"}
          PROVE  Current(req'[r], inst')
        <3>1. ~Creates(req[r])
            BY <2>1 DEF FreshCopies, Current
        <3>2. QED
            BY <2>1, <3>1, EndsHands DEF Current
    <2>2. ASSUME r \in fresh, inst' = inst, req[r].pc # "done",
                 Alike(req[r], req'[r]), req'[r].pc \notin {"check", "read"}
          PROVE  Current(req'[r], inst')
        BY <2>2 DEF FreshCopies, Current, Alike, Creates
    <2>3. ASSUME r \in fresh, inst' = inst, Fails(r), req[r].pc \in {"post", "patch", "insert", "write"}
          PROVE  Current(req'[r], inst')
        <3>1. ~Creates(req[r])
            BY <2>3 DEF FreshCopies, Current
        <3>2. CASE req'[r].pc = "done"
            BY <2>3, <3>1, <3>2, FailsHands DEF Current
        <3>3. CASE req'[r].pc = "undo" /\ Alike(req[r], req'[r])
            BY <2>2, <2>3, <3>3
        <3>4. CASE EmptyHanded(req'[r]) /\ req'[r].pc # "done"
            <4>1. req[r].key # NoKey \/ req[r].rekeyed
                BY <2>3, <3>1, <3>4, EndsHands DEF Fails
            <4>2. Goes(r, "undo")
                BY <2>3, <4>1 DEF Fails
            <4>3. req'[r].pc = "undo" /\ Alike(req[r], req'[r])
                BY <4>2, GoesHands DEF Pcs
            <4>4. QED
                BY <2>2, <2>3, <4>3
        <3>5. QED
            BY <2>3, <3>2, <3>3, <3>4, FailsHands
    <2>4. ASSUME r \in fresh, inst' = inst, req[r].pc # "done", NEW pc \in Pcs \ {"check", "read"}, Goes(r, pc)
          PROVE  Current(req'[r], inst')
        BY <2>2, <2>4, GoesHands
    <2>5. CASE BeginCreate(r) \/ BeginOther(r)
        <3>1. r \in fresh /\ req[r].pc = "new"
            BY <1>3, <2>5 DEF BeginCreate, BeginOther
        <3>2. req[r].kind = "create"
            BY <1>1, <3>1 DEF Shape, NewRequest
        <3>3. QED
            BY <3>1, <3>2 DEF FreshCopies, Current, Creates
    <2>6. CASE ReadMax(r) \/ ListHers(r)
        BY <1>1, <1>3, <2>6 DEF ReadMax, ListHers, Shape, UpdaterShape, FreshCopies, Current
    <2>7. CASE HasCrd(r)
        BY <1>3, <2>7 DEF HasCrd, FreshCopies, Current
    <2>8. CASE ReadForUpdate(r) \/ ReadForKeygen(r) \/ ReadForDelete(r)
        BY <2>8, ReaderCurrent
    <2>9. CASE GenerateKey(r)
        <3>1. r \in fresh /\ inst' = inst /\ req[r].pc = "generate"
            BY <1>3, <2>9 DEF GenerateKey
        <3>2. Current(req[r], inst)
            BY <3>1 DEF FreshCopies
        <3>3. CASE Ends(r)
            BY <2>1, <3>1, <3>3
        <3>4. ASSUME NEW k, Becomes(r, [req[r] EXCEPT !.key = k, !.pc = IF Creates(req[r]) THEN "post" ELSE "write"])
              PROVE  Current(req'[r], inst')
            <4>1. req'[r] = [req[r] EXCEPT !.key = k, !.pc = "write"]
                BY <1>1, <3>2, <3>4 DEF TypeOK, Becomes, Current
            <4>2. /\ req'[r].pc = "write" /\ req'[r].kind = req[r].kind /\ req'[r].store = req[r].store
                  /\ req'[r].uid = req[r].uid /\ req'[r].copy = req[r].copy
                BY <1>1, <4>1 DEF Request
            <4>3. QED
                BY <3>1, <3>2, <4>2 DEF Current, Creates
        <3>5. QED
            BY <2>9, <3>3, <3>4 DEF GenerateKey
    <2>10. CASE UpdateKey(r)
        <3>1. r \in fresh /\ inst' = inst /\ req[r].pc = "rekey"
            BY <1>3, <2>10 DEF UpdateKey
        <3>2. Current(req[r], inst)
            BY <3>1 DEF FreshCopies
        <3>3. CASE Ends(r)
            BY <2>1, <3>1, <3>3
        <3>4. CASE Becomes(r, [req[r] EXCEPT !.rekeyed = TRUE, !.pc = "write"])
            <4>1. req'[r] = [req[r] EXCEPT !.rekeyed = TRUE, !.pc = "write"]
                BY <1>1, <3>4 DEF TypeOK, Becomes
            <4>2. /\ req'[r].pc = "write" /\ req'[r].kind = req[r].kind /\ req'[r].store = req[r].store
                  /\ req'[r].uid = req[r].uid /\ req'[r].copy = req[r].copy
                BY <1>1, <4>1 DEF Request
            <4>3. QED
                BY <3>1, <3>2, <4>2 DEF Current, Creates
        <3>5. QED
            BY <2>10, <3>3, <3>4 DEF UpdateKey
    <2>11. CASE UndoKey(r)
        BY <1>3, <2>1, <2>11 DEF UndoKey
    <2>12. CASE RevokeOld(r)
        BY <1>3, <2>1, <2>4, <2>12 DEF RevokeOld, Pcs
    <2>13. CASE PostHer(r) \/ PatchHer(r) \/ InsertRow(r)
        <3>1. r \in fresh /\ Creates(req[r])
            BY <1>3, <2>13, CreatorAtWrite DEF PostHer, PatchHer, InsertRow, Put
        <3>2. QED
            BY <3>1 DEF FreshCopies, Current
    <2>14. CASE WriteChanges(r)
        <3>1. inst' = inst /\ Fails(r) /\ r \in fresh
            BY <1>3, <2>14 DEF WriteChanges, Put
        <3>2. QED
            BY <2>3, <2>14, <3>1 DEF WriteChanges
    \* A row that is not there is left alone, and that is what was read.
    <2>15. CASE Drop(r)
        <3>1. r \in fresh /\ inst' = inst
            <4>1. CASE req[r].store = "her" /\ Put("her", req[r].uid, Absent)
                BY <1>3, <4>1 DEF Put
            <4>2. CASE req[r].store # "her" /\ DropRow(r)
                <5>1. req[r].store = "row"
                    BY <1>1, <4>2 DEF Request, Stores
                <5>2. QED
                    BY <1>3, <4>2, <5>1 DEF DropRow, Put
            <4>3. CASE UNCHANGED <<inst, fresh>>
                BY <1>3, <4>3
            <4>4. QED
                BY <2>15, <4>1, <4>2, <4>3 DEF Drop
        <3>2. Ends(r) \/ Goes(r, "revoke") \/ Goes(r, "forget")
            BY <2>15 DEF Drop, KeyOrForget
        <3>3. QED
            BY <2>1, <2>4, <2>15, <3>1, <3>2 DEF Drop, Pcs
    <2>16. CASE Forget(r)
        <3>1. r \in fresh
            BY <1>3, <2>16 DEF Forget, DropRow, Put
        <3>2. QED
            BY <2>1, <2>16, <3>1 DEF Forget
    <2>17. QED
        BY <2>5, <2>6, <2>7, <2>8, <2>9, <2>10, <2>11, <2>12, <2>13, <2>14, <2>15, <2>16 DEF Step
<1>4. QED
    BY <1>2, <1>3, OthersCurrent DEF FreshCopies

\* A key that was where it should be, or in r's hands, is so after the step.
LEMMA KeptAfter ==
    ASSUME Kept, NEW r \in Requests, OthersStay(r), excused \subseteq excused', torn \subseteq torn',
           \A k \in Keys : keys'[k].state = "live" =>
               \/ Pends(req'[r], k)
               \/ keys'[k].uid \in excused' \cup torn'
               \/ /\ keys[k].state = "live" /\ keys'[k].uid = keys[k].uid
                  /\ InPlace(inst, k, keys[k].uid) \/ Grips(req[r], k) =>
                        InPlace(inst', k, keys[k].uid) \/ Grips(req'[r], k)
    PROVE  Kept'
<1> SUFFICES ASSUME NEW k \in Keys, keys'[k].state = "live"
             PROVE  \/ InPlace(inst', k, keys'[k].uid)
                    \/ \E o \in Requests : Grips(req'[o], k)
                    \/ keys'[k].uid \in excused' \cup torn'
    BY DEF Kept
<1>1. CASE Pends(req'[r], k)
    BY <1>1 DEF Grips
<1>2. CASE keys'[k].uid \in excused' \cup torn'
    BY <1>2
<1>3. CASE /\ keys[k].state = "live" /\ keys'[k].uid = keys[k].uid
           /\ InPlace(inst, k, keys[k].uid) \/ Grips(req[r], k) =>
                 InPlace(inst', k, keys[k].uid) \/ Grips(req'[r], k)
    <2>1. CASE InPlace(inst, k, keys[k].uid) \/ Grips(req[r], k)
        BY <1>3, <2>1
    <2>2. CASE \E o \in Requests \ {r} : Grips(req[o], k)
        BY <2>2 DEF OthersStay
    <2>3. CASE keys[k].uid \in excused \cup torn
        BY <1>3, <2>3
    <2>4. QED
        BY <1>3, <2>1, <2>2, <2>3 DEF Kept
<1>4. QED
    BY <1>1, <1>2, <1>3

\* What a step does to the histories.
LEMMA Grows ==
    ASSUME TypeOK, NEW r \in Requests, Step(r)
    PROVE  /\ torn \subseteq torn' /\ excused \subseteq excused'
           /\ \A u : Excuse(u, TRUE) => u \in excused'
<1>1. torn \subseteq torn'
    BY DEF Step, BeginCreate, BeginOther, ReadMax, ListHers, PostHer, PatchHer, InsertRow, HasCrd,
       ReadForUpdate, ReadForKeygen, ReadForDelete, GenerateKey, UpdateKey, UndoKey, RevokeOld,
       WriteChanges, Drop, Forget
<1>2. excused' = excused \/ \E u, b : Excuse(u, b)
    BY DEF Step, BeginCreate, BeginOther, ReadMax, ListHers, PostHer, PatchHer, InsertRow, HasCrd,
       ReadForUpdate, ReadForKeygen, ReadForDelete, GenerateKey, UpdateKey, UndoKey, RevokeOld,
       WriteChanges, Drop, Forget
<1>3. QED
    BY <1>1, <1>2 DEF Excuse

\* Where a write puts an instance, and nowhere else.
LEMMA InPlaceElsewhere ==
    ASSUME TypeOK, NEW s \in Stores, NEW u \in Uids, NEW i \in Instance \cup {Absent}, Put(s, u, i),
           NEW k \in Keys, NEW v \in Uids, InPlace(inst, k, v)
    PROVE  InPlace(inst', k, v) \/ (v = u /\ Has(inst[s][u], k) /\ ~inst[s][u].deleted /\ (~Has(i, k) \/ i.deleted))
<1>1. /\ inst'[s][u] = i
      /\ \A t \in Stores, w \in Uids : <<t, w>> # <<s, u>> => inst'[t][w] = inst[t][w]
    BY PutPlace
<1>2. QED
    BY <1>1 DEF InPlace

LEMMA KeyUid ==
    ASSUME TypeOK, NEW k \in Keys, keys[k].state = "live"
    PROVE  keys[k] \in KeyInfo /\ keys[k].uid \in Uids
<1>1. keys \in [Keys -> KeyInfo \cup {Unissued, Revoked}]
    BY DEF TypeOK, KeyTable
<1>2. keys[k] \in KeyInfo
    BY <1>1 DEF Unissued, Revoked
<1>3. QED
    BY <1>2 DEF KeyInfo

LEMMA PlainKept ==
    ASSUME KInv, Kept, NEW r \in Requests, Plain(r), OthersStay(r)
    PROVE  Kept'
<1>1. UNCHANGED <<inst, keys, torn, excused>> /\ EmptyNow(req[r])
    BY PlainBefore
<1>2. \A k \in Keys : ~Grips(req[r], k)
    BY <1>1, EmptyNowHands
<1>3. QED
    BY <1>1, <1>2, KeptAfter

LEMMA GenerateKeyKept ==
    ASSUME KInv, Kept, NEW r \in Requests, GenerateKey(r), OthersStay(r),
           excused \subseteq excused', torn \subseteq torn'
    PROVE  Kept'
<1>1. TypeOK /\ req[r] \in Request /\ req[r].key = NoKey /\ inst' = inst /\ req[r].pc = "generate"
    BY DEF KInv, Shaped, Shape, TypeOK, GenerateKey
<1>2. PICK k \in Keys :
         \/ Issue(r, k) /\ Becomes(r, [req[r] EXCEPT !.key = k, !.pc = IF Creates(req[r]) THEN "post" ELSE "write"])
         \/ UNCHANGED keys
         \/ Issue(r, k) /\ Excuse(req[r].uid, TRUE)
    BY DEF GenerateKey
<1>3. \A j \in Keys : ~Grips(req[r], j)
    BY <1>1, RegistryAssumptions DEF Grips, Pends, Undoes, Revokes
<1>4. ASSUME Issue(r, k)
      PROVE  /\ keys'[k].uid = req[r].uid
             /\ \A j \in Keys : j # k => keys'[j] = keys[j]
    BY <1>1, <1>2, <1>4 DEF Issue, TypeOK, KeyTable
<1>5. CASE Issue(r, k) /\ Becomes(r, [req[r] EXCEPT !.key = k, !.pc = IF Creates(req[r]) THEN "post" ELSE "write"])
    <2>1. req'[r] = [req[r] EXCEPT !.key = k, !.pc = IF Creates(req[r]) THEN "post" ELSE "write"]
        BY <1>1, <1>5 DEF TypeOK, Becomes
    <2>2. Pends(req'[r], k)
        BY <1>1, <2>1 DEF Request, Pends
    <2>3. QED
        BY <1>1, <1>3, <1>4, <1>5, <2>2, KeptAfter
<1>6. CASE UNCHANGED keys
    BY <1>1, <1>3, <1>6, KeptAfter
<1>7. CASE Issue(r, k) /\ Excuse(req[r].uid, TRUE)
    <2>1. req[r].uid \in excused'
        BY <1>7 DEF Excuse
    <2>2. QED
        BY <1>1, <1>3, <1>4, <1>7, <2>1, KeptAfter
<1>8. QED
    BY <1>2, <1>5, <1>6, <1>7

\* A policy is changed, of a live key or of none.
LEMMA SetPolicyAfter ==
    ASSUME TypeOK, NEW k \in Keys, NEW pol, SetPolicy(k, pol), NEW j \in Keys
    PROVE  /\ keys'[j].state = keys[j].state
           /\ keys[j].state = "live" => keys'[j].uid = keys[j].uid
           /\ j # k => keys'[j] = keys[j]
           /\ keys[k].state = "live" => keys'[k].policy = pol
<1>1. keys \in [Keys -> KeyInfo \cup {Unissued, Revoked}]
    BY DEF TypeOK, KeyTable
<1>2. CASE keys[k].state # "live"
    BY <1>2 DEF SetPolicy
<1>3. CASE keys[k].state = "live"
    <2>1. keys[k] \in KeyInfo
        BY <1>3, KeyUid
    <2> DEFINE i == [keys[k] EXCEPT !.policy = pol]
    <2>2. i.state = keys[k].state /\ i.uid = keys[k].uid /\ i.policy = pol
        BY <2>1 DEF KeyInfo
    <2>3. keys' = [keys EXCEPT ![k] = i]
        BY <1>3 DEF SetPolicy
    <2> HIDE DEF i
    <2>4. keys'[k] = i /\ (j # k => keys'[j] = keys[j])
        BY <1>1, <2>3
    <2>5. QED
        BY <2>2, <2>4
<1>4. QED
    BY <1>2, <1>3

LEMMA UpdateKeyKept ==
    ASSUME KInv, Kept, NEW r \in Requests, UpdateKey(r), OthersStay(r),
           excused \subseteq excused', torn \subseteq torn'
    PROVE  Kept'
<1>1. TypeOK /\ Shape(req[r]) /\ req[r].pc = "rekey" /\ inst' = inst
    BY DEF KInv, Shaped, UpdateKey
<1>2. /\ ~Creates(req[r]) /\ req[r].key = NoKey /\ req[r].copy \in Instance
      /\ req[r].copy.key # NoKey
    BY <1>1 DEF Shape, CreatorShape, UpdaterShape
<1>3. req[r].copy.key \in Keys
    BY <1>2 DEF Instance
<1>4. \A k \in Keys : ~Grips(req[r], k)
    BY <1>1, <1>2, RegistryAssumptions DEF Grips, Pends, Undoes, Revokes
<1>5. \A j \in Keys : keys'[j].state = "live" => keys[j].state = "live" /\ keys'[j].uid = keys[j].uid
    BY <1>1, <1>3, SetPolicyAfter DEF UpdateKey
<1>6. QED
    BY <1>1, <1>4, <1>5, KeptAfter

LEMMA UndoKeyKept ==
    ASSUME KInv, Kept, NEW r \in Requests, UndoKey(r), OthersStay(r),
           excused \subseteq excused', torn \subseteq torn'
    PROVE  Kept'
<1>1. TypeOK /\ Shape(req[r]) /\ req[r].pc = "undo" /\ inst' = inst /\ req[r] \in Request
    BY DEF KInv, Shaped, UndoKey, TypeOK
<1>2. \A k \in Keys : Grips(req[r], k) => req[r].key = k
    BY <1>1 DEF Grips, Pends, Undoes, Revokes
<1>3. CASE req[r].key # NoKey /\ keys' = [keys EXCEPT ![req[r].key] = Revoked]
    <2>1. req[r].key \in Keys
        BY <1>1, <1>3 DEF Request
    <2>2. /\ keys'[req[r].key].state # "live"
          /\ \A k \in Keys : k # req[r].key => keys'[k] = keys[k]
        BY <1>1, <1>3, <2>1 DEF TypeOK, KeyTable, Revoked
    <2>3. QED
        BY <1>1, <1>2, <2>2, KeptAfter
<1>4. CASE req[r].key = NoKey /\ SetPolicy(req[r].copy.key, req[r].copy.policy)
    <2>1. req[r].rekeyed /\ req[r].copy \in Instance /\ req[r].copy.key # NoKey
        BY <1>1, <1>4 DEF Shape, CreatorShape, UpdaterShape
    <2>2. req[r].copy.key \in Keys
        BY <2>1 DEF Instance
    <2>3. \A k \in Keys : ~Grips(req[r], k)
        BY <1>2, <1>4, RegistryAssumptions
    <2>4. \A j \in Keys : keys'[j].state = "live" => keys[j].state = "live" /\ keys'[j].uid = keys[j].uid
        BY <1>1, <1>4, <2>2, SetPolicyAfter
    <2>5. QED
        BY <1>1, <2>3, <2>4, KeptAfter
\* The key stays behind, which is excused.
<1>5. CASE Excuse(req[r].uid, TRUE) /\ UNCHANGED keys
    <2>1. req[r].uid \in excused'
        BY <1>5 DEF Excuse
    <2>2. \A k \in Keys : Grips(req[r], k) /\ keys[k].state = "live" => keys[k].uid = req[r].uid
        BY <1>1, <1>2 DEF KInv, Owns, UndoOwn, Undoes, IsOf
    <2>3. QED
        BY <1>1, <1>5, <2>1, <2>2, KeptAfter
<1>6. QED
    BY <1>3, <1>4, <1>5 DEF UndoKey

LEMMA RevokeOldKept ==
    ASSUME KInv, Kept, NEW r \in Requests, RevokeOld(r), OthersStay(r),
           excused \subseteq excused', torn \subseteq torn'
    PROVE  Kept'
<1>1. TypeOK /\ Shape(req[r]) /\ req[r].pc = "revoke" /\ inst' = inst
    BY DEF KInv, Shaped, RevokeOld
<1>2. \A k \in Keys : Grips(req[r], k) => Has(req[r].copy, k) /\ Copies(req[r], k)
    BY <1>1 DEF Grips, Pends, Undoes, Revokes, Copies
<1>3. CASE keys' = [keys EXCEPT ![req[r].copy.key] = Revoked]
    <2>1. req[r].copy \in Instance /\ req[r].copy.key # NoKey
        BY <1>1 DEF Shape, CreatorShape, UpdaterShape
    <2>2. req[r].copy.key \in Keys
        BY <2>1 DEF Instance
    <2>3. /\ keys'[req[r].copy.key].state # "live"
          /\ \A k \in Keys : k # req[r].copy.key => keys'[k] = keys[k]
        BY <1>1, <1>3, <2>2 DEF TypeOK, KeyTable, Revoked
    <2>4. QED
        BY <1>1, <1>2, <2>3, KeptAfter DEF Has
<1>4. CASE Excuse(req[r].uid, TRUE) /\ UNCHANGED keys
    <2>1. req[r].uid \in excused'
        BY <1>4 DEF Excuse
    <2>2. \A k \in Keys : Grips(req[r], k) /\ keys[k].state = "live" => keys[k].uid = req[r].uid
        BY <1>2 DEF KInv, Owns, CopyOwn, IsOf
    <2>3. QED
        BY <1>1, <1>4, <2>1, <2>2, KeptAfter
<1>5. QED
    BY <1>3, <1>4 DEF RevokeOld

\* A place is written: what was in it is in it still, in r's hands, or excused.
LEMMA PlaceKept ==
    ASSUME KInv, Kept, NEW r \in Requests, OthersStay(r), excused \subseteq excused', torn \subseteq torn',
           keys' = keys, NEW s \in Stores, NEW u \in Uids, NEW i \in Instance \cup {Absent}, Put(s, u, i),
           \A k \in Keys :
               /\ Grips(req[r], k) /\ keys[k].state = "live" =>
                     \/ Grips(req'[r], k)
                     \/ Has(i, k) /\ ~i.deleted /\ keys[k].uid = u
                     \/ keys[k].uid \in excused' \cup torn'
               /\ Has(inst[s][u], k) /\ ~inst[s][u].deleted =>
                     Grips(req'[r], k) \/ (Has(i, k) /\ ~i.deleted) \/ u \in excused' \cup torn'
    PROVE  Kept'
<1>1. TypeOK /\ inst'[s][u] = i
    BY PutPlace DEF KInv
<1> SUFFICES ASSUME NEW k \in Keys, keys[k].state = "live", keys[k].uid \notin excused' \cup torn',
                    InPlace(inst, k, keys[k].uid) \/ Grips(req[r], k)
             PROVE  InPlace(inst', k, keys[k].uid) \/ Grips(req'[r], k)
    BY KeptAfter
<1>2. keys[k].uid \in Uids
    BY <1>1, KeyUid
<1>3. Has(i, k) /\ ~i.deleted => InPlace(inst', k, u)
    BY <1>1 DEF InPlace
<1>4. CASE Grips(req[r], k)
    BY <1>3, <1>4
<1>5. CASE InPlace(inst, k, keys[k].uid)
    <2>1. \/ InPlace(inst', k, keys[k].uid)
          \/ keys[k].uid = u /\ Has(inst[s][u], k) /\ ~inst[s][u].deleted /\ (~Has(i, k) \/ i.deleted)
        BY <1>1, <1>2, <1>5, InPlaceElsewhere
    <2>2. QED
        BY <2>1
<1>6. QED
    BY <1>4, <1>5

LEMMA QuietKept ==
    ASSUME Kept, NEW r \in Requests, OthersStay(r), excused \subseteq excused', torn \subseteq torn',
           UNCHANGED <<inst, keys>>, \A k \in Keys : Grips(req[r], k) => Grips(req'[r], k)
    PROVE  Kept'
    BY KeptAfter

\* A creation puts its key in place.
LEMMA WantedKept ==
    ASSUME KInv, Kept, NEW r \in Requests, OthersStay(r), excused \subseteq excused', torn \subseteq torn',
           req[r].pc \in {"post", "patch", "insert"}, keys' = keys,
           NEW s \in Stores, Put(s, req[r].uid, Wanted(r)),
           inst[s][req[r].uid] = Absent \/ req[r].uid \in excused'
    PROVE  Kept'
<1>1. TypeOK /\ req[r].uid \in Uids /\ Wanted(r) \in Instance
    BY CreatorAtWrite
<1>2. ASSUME NEW k \in Keys, Grips(req[r], k)
      PROVE  Has(Wanted(r), k) /\ ~Wanted(r).deleted /\ keys[k].uid = req[r].uid
    <2>1. Pends(req[r], k)
        BY <1>2 DEF Grips, Undoes, Revokes
    <2>2. keys[k].uid = req[r].uid
        BY <2>1 DEF KInv, Owns, PendOwn
    <2>3. QED
        BY <2>1, <2>2 DEF Has, Wanted, Absent, Pends
<1>3. \A k \in Keys : ~Has(Absent, k)
    BY DEF Has
<1>4. QED
    BY <1>1, <1>2, <1>3, PlaceKept

LEMMA CreationKept ==
    ASSUME KInv, Kept, NEW r \in Requests, PostHer(r) \/ PatchHer(r) \/ InsertRow(r), OthersStay(r),
           excused \subseteq excused', torn \subseteq torn'
    PROVE  Kept'
<1>1. /\ req[r].pc \in {"post", "patch", "insert"} /\ keys' = keys
      /\ "her" \in Stores /\ "row" \in Stores
    BY DEF PostHer, PatchHer, InsertRow, Stores
<1>2. CASE Fails(r) /\ inst' = inst
    BY <1>1, <1>2, FailsHands, QuietKept
<1>3. ASSUME NEW pc \in {"patch", "insert"}, Goes(r, pc), inst' = inst
      PROVE  Kept'
    <2>1. req'[r].pc = pc /\ Alike(req[r], req'[r])
        BY <1>3, GoesHands DEF Pcs
    <2>2. \A k \in Keys : Grips(req[r], k) => Grips(req'[r], k)
        BY <1>1, <2>1 DEF Alike, Grips, Pends, Undoes, Revokes
    <2>3. QED
        BY <1>1, <1>3, <2>2, QuietKept
<1>4. CASE PostHer(r)
    <2>1. CASE inst["her"][req[r].uid] = Absent /\ Put("her", req[r].uid, Wanted(r))
        BY <1>1, <2>1, WantedKept
    <2>2. QED
        BY <1>2, <1>3, <1>4, <2>1 DEF PostHer
<1>5. CASE PatchHer(r)
    <2>1. CASE Put("her", req[r].uid, Wanted(r)) /\ Excuse(req[r].uid, TRUE)
        <3>1. req[r].uid \in excused'
            BY <2>1 DEF Excuse
        <3>2. QED
            BY <1>1, <2>1, <3>1, WantedKept
    <2>2. QED
        BY <1>2, <1>3, <1>5, <2>1 DEF PatchHer
<1>6. CASE InsertRow(r)
    <2>1. CASE inst["row"][req[r].uid] = Absent /\ Put("row", req[r].uid, Wanted(r))
        BY <1>1, <2>1, WantedKept
    <2>2. QED
        BY <1>2, <1>6, <2>1 DEF InsertRow
<1>7. QED
    BY <1>4, <1>5, <1>6

\* What an update takes out is what it has read, and goes on to delete.
LEMMA WriteChangesKept ==
    ASSUME KInv, FreshCopies, Kept, NEW r \in Requests, WriteChanges(r), OthersStay(r),
           excused \subseteq excused', torn \subseteq torn'
    PROVE  Kept'
<1>1. /\ TypeOK /\ req[r] \in Request /\ Shape(req[r]) /\ req[r].pc = "write" /\ keys' = keys
      /\ req[r].uid \in Uids /\ req[r].store \in Stores
    BY DEF KInv, Shaped, TypeOK, WriteChanges, Shape, Request
<1>2. ~Creates(req[r]) /\ UpdaterShape(req[r]) /\ req[r].copy \in Instance
    BY <1>1 DEF Shape, CreatorShape, UpdaterShape
<1>3. CASE Fails(r) /\ inst' = inst
    BY <1>1, <1>3, FailsHands, QuietKept
<1>4. CASE Here(r) # Absent /\ Put(req[r].store, req[r].uid, Changed(req[r], Here(r)))
    <2> DEFINE i == Changed(req[r], Here(r))
    <2>1. /\ Here(r) \in Instance /\ i \in Instance /\ i.deleted = Here(r).deleted
        BY <1>1, <1>4, WriterAtWrite
    <2>2. i # Absent
        BY <2>1 DEF Instance, Absent
    <2>3. ASSUME NEW k \in Keys, Grips(req[r], k)
          PROVE  req[r].key = k /\ keys[k].uid = req[r].uid /\ Has(i, k)
        <3>1. Pends(req[r], k)
            BY <1>1, <2>3 DEF Grips, Undoes, Revokes
        <3>2. req[r].key = k /\ k # NoKey
            BY <3>1, RegistryAssumptions DEF Pends
        <3>3. i.key = k
            <4>1. req[r].key \in Keys \cup {NoKey} /\ Here(r) \in Instance
                BY <1>1, <2>1 DEF Request
            <4>2. CASE req[r].kind = "keygen"
                BY <3>2, <4>1, <4>2 DEF Changed, Instance
            <4>3. CASE req[r].kind # "keygen"
                BY <3>2, <4>1, <4>3 DEF Changed, Instance
            <4>4. QED
                BY <4>2, <4>3
        <3>4. keys[k].uid = req[r].uid
            BY <3>1 DEF KInv, Owns, PendOwn
        <3>5. QED
            BY <2>2, <3>2, <3>3, <3>4 DEF Has
    <2>4. CASE Excuse(req[r].uid, TRUE)
        <3>1. req[r].uid \in excused'
            BY <2>4 DEF Excuse
        <3>2. Put(req[r].store, req[r].uid, i) /\ i \in Instance \cup {Absent}
            BY <1>4, <2>1
        <3> HIDE DEF i
        <3>3. QED
            BY <1>1, <2>3, <3>1, <3>2, PlaceKept
    <2>5. CASE /\ IF Clears(req[r]) THEN Goes(r, "revoke") ELSE Ends(r)
               /\ ~Stale(r) /\ ~Here(r).deleted
        <3>1. Here(r) = req[r].copy
            BY <1>1, <1>4, <2>5 DEF FreshCopies, Current, Here, Stale
        <3>2. ASSUME NEW k \in Keys, Has(Here(r), k)
              PROVE  Has(i, k) \/ Grips(req'[r], k)
            <4>1. req[r].copy.key = k /\ k # NoKey /\ req[r].key = NoKey /\ req[r].kind = "update"
                BY <1>1, <1>2, <3>1, <3>2, RegistryAssumptions DEF Has, UpdaterShape
            <4>2. CASE Clears(req[r])
                <5>1. req'[r].pc = "revoke" /\ Alike(req[r], req'[r])
                    BY <2>5, <4>2, GoesHands DEF Pcs
                <5>2. QED
                    BY <3>1, <3>2, <5>1 DEF Alike, Grips, Revokes
            <4>3. CASE ~Clears(req[r])
                <5>1. i.key = Here(r).key
                    BY <2>1, <4>1, <4>3 DEF Changed, Instance
                <5>2. QED
                    BY <2>2, <3>2, <5>1 DEF Has
            <4>4. QED
                BY <4>2, <4>3
        <3>3. Put(req[r].store, req[r].uid, i) /\ i \in Instance \cup {Absent} /\ ~i.deleted
            BY <1>4, <2>1, <2>5
        <3>4. Here(r) = inst[req[r].store][req[r].uid]
            BY DEF Here
        <3> HIDE DEF i
        <3>5. QED
            BY <1>1, <2>3, <3>2, <3>3, <3>4, PlaceKept
    <2>6. QED
        BY <1>3, <1>4, <2>4, <2>5 DEF WriteChanges, Excuse
<1>5. QED
    BY <1>3, <1>4 DEF WriteChanges

\* What a deletion drops is what it has read, and goes on to delete.
LEMMA DropKept ==
    ASSUME KInv, FreshCopies, Kept, NEW r \in Requests, Drop(r), OthersStay(r),
           excused \subseteq excused', torn \subseteq torn'
    PROVE  Kept'
<1>1. /\ TypeOK /\ req[r] \in Request /\ Shape(req[r]) /\ req[r].pc = "drop" /\ keys' = keys
      /\ req[r].uid \in Uids /\ req[r].store \in Stores
    BY DEF KInv, Shaped, TypeOK, Drop, Shape, Request
<1>2. \A k \in Keys : ~Grips(req[r], k)
    BY <1>1 DEF Grips, Pends, Undoes, Revokes
<1>3. CASE inst' = inst
    BY <1>1, <1>2, <1>3, QuietKept
<1>4. ASSUME NEW i \in Instance \cup {Absent}, Put(req[r].store, req[r].uid, i)
      PROVE  Kept'
    <2>1. CASE Excuse(req[r].uid, TRUE)
        <3>1. req[r].uid \in excused'
            BY <2>1 DEF Excuse
        <3>2. QED
            BY <1>1, <1>2, <1>4, <3>1, PlaceKept
    <2>2. CASE KeyOrForget(r) /\ ~Stale(r)
        <3>1. Here(r) = req[r].copy \/ Here(r) = Absent
            BY <1>1, <2>2 DEF FreshCopies, Current, Here, Stale
        <3>2. ASSUME NEW k \in Keys, Has(Here(r), k)
              PROVE  Grips(req'[r], k)
            <4>1. req[r].copy # Absent /\ req[r].copy.key = k /\ k # NoKey
                BY <3>1, <3>2, RegistryAssumptions DEF Has
            <4>2. Goes(r, "revoke")
                BY <2>2, <4>1 DEF KeyOrForget
            <4>3. req'[r].pc = "revoke" /\ Alike(req[r], req'[r])
                BY <4>2, GoesHands DEF Pcs
            <4>4. QED
                BY <4>1, <4>3 DEF Alike, Grips, Revokes, Has
        <3>3. Here(r) = inst[req[r].store][req[r].uid]
            BY DEF Here
        <3>4. QED
            BY <1>1, <1>2, <1>4, <3>2, <3>3, PlaceKept
    <2>3. CASE ~(KeyOrForget(r) /\ Excuse(req[r].uid, Stale(r))) /\ ~Excuse(req[r].uid, TRUE)
        BY <1>1, <1>2, <2>3, QuietKept DEF Drop
    <2>4. QED
        BY <2>1, <2>2, <2>3 DEF Excuse
<1>5. CASE req[r].store = "her" /\ Put("her", req[r].uid, Absent)
    BY <1>4, <1>5
<1>6. CASE req[r].store # "her" /\ DropRow(r)
    <2>1. req[r].store = "row"
        BY <1>1, <1>6 DEF Stores
    <2> DEFINE i == inst["row"][req[r].uid]
               j == IF req[r].purge THEN Absent ELSE [i EXCEPT !.deleted = TRUE]
    <2>2. CASE i = Absent
        BY <1>3, <1>6, <2>2 DEF DropRow
    <2>3. CASE i # Absent
        <3>1. inst \in [Stores -> [Uids -> Instance \cup {Absent}]]
            BY <1>1 DEF TypeOK, Instances
        <3>2. i \in Instance
            BY <1>1, <2>1, <2>3, <3>1
        <3>3. j \in Instance \cup {Absent}
            BY <3>2 DEF Instance
        <3>4. Put("row", req[r].uid, j)
            BY <1>6, <2>3 DEF DropRow
        <3> HIDE DEF j
        <3>5. QED
            BY <1>4, <2>1, <3>3, <3>4
    <2>4. QED
        BY <2>2, <2>3
<1>7. QED
    BY <1>3, <1>5, <1>6 DEF Drop

LEMMA ForgetKept ==
    ASSUME KInv, Kept, NEW r \in Requests, Forget(r), OthersStay(r),
           excused \subseteq excused', torn \subseteq torn'
    PROVE  Kept'
<1>1. /\ TypeOK /\ req[r] \in Request /\ Shape(req[r]) /\ req[r].pc = "forget" /\ keys' = keys
      /\ req[r].uid \in Uids /\ "row" \in Stores
    BY DEF KInv, Shaped, TypeOK, Forget, Shape, Stores
<1>2. \A k \in Keys : ~Grips(req[r], k)
    BY <1>1 DEF Grips, Pends, Undoes, Revokes
<1>3. CASE inst' = inst
    BY <1>1, <1>2, <1>3, QuietKept
<1> DEFINE i == inst["row"][req[r].uid]
           j == IF req[r].purge THEN Absent ELSE [i EXCEPT !.deleted = TRUE]
<1>4. CASE i # Absent /\ Put("row", req[r].uid, j)
    <2>1. inst \in [Stores -> [Uids -> Instance \cup {Absent}]]
        BY <1>1 DEF TypeOK, Instances
    <2>2. i \in Instance
        BY <1>1, <1>4, <2>1
    <2>3. j \in Instance \cup {Absent}
        BY <2>2 DEF Instance
    <2>4. InUse(i) => req[r].uid \in excused'
        BY <1>1 DEF Forget, Excuse
    <2>5. \A k \in Keys : Has(i, k) /\ ~i.deleted => req[r].uid \in excused'
        BY <2>4 DEF Has, InUse
    <2>6. Put("row", req[r].uid, j)
        BY <1>4
    <2> HIDE DEF j
    <2>7. QED
        BY <1>1, <1>2, <2>3, <2>5, <2>6, PlaceKept
<1>5. QED
    BY <1>3, <1>4 DEF Forget, DropRow

LEMMA KeptStep ==
    ASSUME KInv, FreshCopies, Kept, NEW r \in Requests, Step(r)
    PROVE  Kept'
<1>1. TypeOK
    BY DEF KInv
<1>2. OthersStay(r) /\ excused \subseteq excused' /\ torn \subseteq torn'
    BY <1>1, StepOthers, Grows
<1>3. QED
    BY <1>2, PlainKept, GenerateKeyKept, UpdateKeyKept, UndoKeyKept, RevokeOldKept, CreationKept,
       WriteChangesKept, DropKept, ForgetKept DEF Step, Plain

-----------------------------------------------------------------------------
(* Key and instance agree on the route policy.  A key on its way has the   *)
(* policy it was asked for; one in its place has the policy of the         *)
(* instance, or of the one request that has changed it and is about to     *)
(* write the instance.                                                     *)

PendPolicy ==
    \A r \in Requests, k \in Keys : Pends(req[r], k) => keys[k].policy = AskedPolicy(req[r])

PolicyOk(k, i, rq, fr, ks) ==
    /\ (\A r \in Requests : ~Rekeys(rq[r], k)) => ks[k].policy = i.policy
    /\ \A r \in fr : Rekeys(rq[r], k) /\ (\A o \in Requests \ {r} : ~Rekeys(rq[o], k)) =>
          ks[k].policy = NextPolicy(rq[r], rq[r].copy)

PoliciesKept ==
    \A k \in Keys \ migrated, s \in Stores, u \in Uids \ (excused \cup torn) :
        Has(inst[s][u], k) /\ ~inst[s][u].deleted => PolicyOk(k, inst[s][u], req, fresh, keys)

LEMMA PendPolicyAfter ==
    ASSUME PendPolicy, NEW r \in Requests, OthersStay(r),
           \A o \in Requests \ {r}, k \in Keys : Pends(req[o], k) => keys'[k] = keys[k],
           \A k \in Keys : Pends(req'[r], k) => keys'[k].policy = AskedPolicy(req'[r])
    PROVE  PendPolicy'
<1> SUFFICES ASSUME NEW o \in Requests, NEW k \in Keys, Pends(req'[o], k)
             PROVE  keys'[k].policy = AskedPolicy(req'[o])
    BY DEF PendPolicy
<1>1. CASE o = r
    BY <1>1
<1>2. CASE o # r
    <2>1. req'[o] = req[o]
        BY <1>2 DEF OthersStay
    <2>2. QED
        BY <1>2, <2>1 DEF PendPolicy
<1>3. QED
    BY <1>1, <1>2

\* Keys that others have on their way are not touched.
LEMMA PendPolicyStep ==
    ASSUME KInv, PendPolicy, NEW r \in Requests, Step(r)
    PROVE  PendPolicy'
<1>1. TypeOK /\ req[r] \in Request /\ Shape(req[r]) /\ OthersStay(r)
    BY StepOthers DEF KInv, Shaped, TypeOK
<1>2. CASE keys' = keys /\ \A k \in Keys : ~Pends(req'[r], k)
    BY <1>1, <1>2, PendPolicyAfter
<1>3. CASE Plain(r)
    BY <1>2, <1>3, PlainBefore, PlainAfter, EmptyNowHands DEF Grips
<1>4. CASE GenerateKey(r)
    <2>1. PICK k \in Keys :
             \/ Issue(r, k) /\ Becomes(r, [req[r] EXCEPT !.key = k, !.pc = IF Creates(req[r]) THEN "post" ELSE "write"])
             \/ Ends(r) /\ (UNCHANGED keys \/ Issue(r, k))
        BY <1>4 DEF GenerateKey
    <2>2. Issue(r, k) => \A o \in Requests : ~Pends(req[o], k)
        <3>1. ASSUME Issue(r, k), NEW o \in Requests, Pends(req[o], k)
              PROVE  FALSE
            <4>1. keys[k] = Unissued /\ keys[k].state = "live"
                BY <2>1, <3>1 DEF Issue, IsNextKey, KInv, Owns, PendOwn
            <4>2. QED
                BY <4>1 DEF Unissued
        <3>2. QED
            BY <3>1
    <2>3. Issue(r, k) => \A j \in Keys : j # k => keys'[j] = keys[j]
        BY <1>1, <2>1 DEF Issue, TypeOK, KeyTable
    <2>4. \A o \in Requests \ {r}, j \in Keys : Pends(req[o], j) => keys'[j] = keys[j]
        BY <2>1, <2>2, <2>3
    <2>5. CASE Ends(r)
        BY <1>1, <1>4, <2>4, <2>5, EndsHands, PendPolicyAfter DEF EmptyHanded, GenerateKey
    <2>6. CASE Issue(r, k) /\ Becomes(r, [req[r] EXCEPT !.key = k, !.pc = IF Creates(req[r]) THEN "post" ELSE "write"])
        <3> DEFINE pc == IF Creates(req[r]) THEN "post" ELSE "write"
        <3>1. req'[r] = [req[r] EXCEPT !.key = k, !.pc = pc]
            BY <1>1, <2>6 DEF TypeOK, Becomes
        <3> HIDE DEF pc
        <3>2. /\ req'[r].key = k /\ req'[r].kind = req[r].kind /\ req'[r].policy = req[r].policy
              /\ req'[r].copy = req[r].copy
            BY <1>1, <3>1 DEF Request
        <3>3. AskedPolicy(req'[r]) = AskedPolicy(req[r])
            BY <3>2 DEF AskedPolicy, Creates, NextPolicy
        <3>4. keys'[k].policy = AskedPolicy(req[r])
            BY <1>1, <2>1, <2>6 DEF Issue, TypeOK, KeyTable
        <3>5. \A j \in Keys : Pends(req'[r], j) => j = k
            BY <3>2 DEF Pends
        <3>6. QED
            BY <1>1, <2>4, <3>3, <3>4, <3>5, PendPolicyAfter
    <2>7. QED
        BY <2>1, <2>5, <2>6
<1>5. CASE UpdateKey(r)
    <2>1. /\ ~Creates(req[r]) /\ req[r].key = NoKey /\ req[r].copy \in Instance
          /\ req[r].copy.key # NoKey /\ req[r].pc = "rekey"
        BY <1>1, <1>5 DEF UpdateKey, Shape, CreatorShape, UpdaterShape
    <2>2. req[r].copy.key \in Keys /\ Copies(req[r], req[r].copy.key)
        BY <2>1 DEF Instance, Copies, Has, Absent
    <2>3. \A j \in Keys : j # req[r].copy.key => keys'[j] = keys[j]
        BY <1>1, <1>5, <2>2, SetPolicyAfter DEF UpdateKey
    <2>4. \A o \in Requests \ {r}, j \in Keys : Pends(req[o], j) => keys'[j] = keys[j]
        BY <2>2, <2>3 DEF KInv, Apart
    <2>5. CASE Ends(r)
        BY <1>1, <2>1, <2>4, <2>5, EndsHands, PendPolicyAfter DEF EmptyHanded
    <2>6. CASE Becomes(r, [req[r] EXCEPT !.rekeyed = TRUE, !.pc = "write"])
        <3>1. req'[r] = [req[r] EXCEPT !.rekeyed = TRUE, !.pc = "write"]
            BY <1>1, <2>6 DEF TypeOK, Becomes
        <3>2. req'[r].key = NoKey
            BY <1>1, <2>1, <3>1 DEF Request
        <3>3. \A j \in Keys : ~Pends(req'[r], j)
            BY <3>2, RegistryAssumptions DEF Pends
        <3>4. QED
            BY <1>1, <2>4, <3>3, PendPolicyAfter
    <2>7. QED
        BY <1>5, <2>5, <2>6 DEF UpdateKey
<1>6. CASE UndoKey(r)
    <2>1. \A j \in Keys : ~Pends(req'[r], j)
        BY <1>6, EndsHands DEF UndoKey, EmptyHanded
    <2>2. ASSUME NEW o \in Requests \ {r}, NEW j \in Keys, Pends(req[o], j)
          PROVE  keys'[j] = keys[j]
        <3>1. ~Copies(req[r], j) /\ ~Undoes(req[r], j)
            BY <2>2 DEF KInv, Apart
        <3>2. CASE req[r].key # NoKey /\ keys' = [keys EXCEPT ![req[r].key] = Revoked]
            <4>1. j # req[r].key
                BY <1>6, <3>1 DEF UndoKey, Undoes
            <4>2. QED
                BY <1>1, <3>2, <4>1 DEF TypeOK, KeyTable
        <3>3. CASE req[r].key = NoKey /\ SetPolicy(req[r].copy.key, req[r].copy.policy)
            <4>1. req[r].rekeyed /\ req[r].copy \in Instance /\ req[r].copy.key # NoKey
                BY <1>1, <1>6, <3>3 DEF UndoKey, Shape, CreatorShape, UpdaterShape
            <4>2. req[r].copy.key \in Keys /\ Copies(req[r], req[r].copy.key)
                BY <1>6, <4>1 DEF UndoKey, Instance, Copies, Has, Absent
            <4>3. QED
                BY <1>1, <3>1, <3>3, <4>2, SetPolicyAfter
        <3>4. QED
            BY <1>6, <3>2, <3>3 DEF UndoKey
    <2>3. QED
        BY <1>1, <2>1, <2>2, PendPolicyAfter
<1>7. CASE RevokeOld(r)
    <2>1. \A j \in Keys : ~Pends(req'[r], j)
        BY <1>7, EndsHands, GoesHands DEF RevokeOld, EmptyHanded, Pends, Pcs
    <2>2. req[r].copy \in Instance /\ req[r].copy.key # NoKey
        BY <1>1, <1>7 DEF RevokeOld, Shape, CreatorShape, UpdaterShape
    <2>3. req[r].copy.key \in Keys /\ Copies(req[r], req[r].copy.key)
        BY <1>7, <2>2 DEF RevokeOld, Instance, Copies, Has, Absent
    <2>4. \A j \in Keys : j # req[r].copy.key => keys'[j] = keys[j]
        BY <1>1, <1>7 DEF RevokeOld, TypeOK, KeyTable
    <2>5. \A o \in Requests \ {r}, j \in Keys : Pends(req[o], j) => keys'[j] = keys[j]
        BY <2>3, <2>4 DEF KInv, Apart
    <2>6. QED
        BY <1>1, <2>1, <2>5, PendPolicyAfter
<1>8. CASE PostHer(r) \/ PatchHer(r) \/ InsertRow(r)
    <2>1. keys' = keys /\ req[r].pc \in {"post", "patch", "insert"}
        BY <1>8 DEF PostHer, PatchHer, InsertRow
    <2>2. Ends(r) \/ Fails(r) \/ Goes(r, "patch") \/ Goes(r, "insert")
        BY <1>8 DEF PostHer, PatchHer, InsertRow
    <2>3. CASE Ends(r) \/ Fails(r)
        BY <1>2, <2>1, <2>3, EndsHands, FailsHands DEF EmptyHanded
    <2>4. CASE Goes(r, "patch") \/ Goes(r, "insert")
        <3>1. Alike(req[r], req'[r])
            BY <2>4, GoesHands DEF Pcs
        <3>2. \A k \in Keys : Pends(req'[r], k) => Pends(req[r], k)
            BY <2>1, <3>1 DEF Alike, Pends
        <3>3. AskedPolicy(req'[r]) = AskedPolicy(req[r])
            BY <3>1 DEF Alike, AskedPolicy, Creates, NextPolicy
        <3>4. QED
            BY <1>1, <2>1, <3>2, <3>3, PendPolicyAfter DEF PendPolicy
    <2>5. QED
        BY <2>2, <2>3, <2>4
<1>9. CASE WriteChanges(r)
    <2>1. Ends(r) \/ Fails(r) \/ Goes(r, "revoke")
        BY <1>9 DEF WriteChanges
    <2>2. QED
        BY <1>2, <1>9, <2>1, EndsHands, FailsHands, GoesHands DEF WriteChanges, EmptyHanded, Pends, Pcs
<1>10. CASE Drop(r)
    <2>1. Ends(r) \/ Goes(r, "revoke") \/ Goes(r, "forget")
        BY <1>10 DEF Drop, KeyOrForget
    <2>2. QED
        BY <1>2, <1>10, <2>1, EndsHands, GoesHands DEF Drop, EmptyHanded, Pends, Pcs
<1>11. CASE Forget(r)
    BY <1>2, <1>11, EndsHands DEF Forget, EmptyHanded
<1>12. QED
    BY <1>3, <1>4, <1>5, <1>6, <1>7, <1>8, <1>9, <1>10, <1>11 DEF Step, Plain

\* Whose key a request has updated.
LEMMA RekeyPlace ==
    ASSUME KInv, NEW r \in Requests, NEW k \in Keys \ migrated, Rekeys(req[r], k),
           NEW s \in Stores, NEW u \in Uids, Has(inst[s][u], k)
    PROVE  s = req[r].store /\ u = req[r].uid /\ Active(r)
<1>1. Copies(req[r], k)
    BY DEF Rekeys, Copies
<1>2. QED
    BY <1>1 DEF KInv, Owns, CopyOwn, Holds, Rekeys, Active

\* Key, instance and who has updated the key are as they were.
LEMMA PolicyStays ==
    ASSUME NEW k \in Keys, NEW i, NEW r \in Requests, OthersStay(r), PolicyOk(k, i, req, fresh, keys),
           keys'[k].policy = keys[k].policy, fresh' \subseteq Requests,
           Rekeys(req[r], k) <=> Rekeys(req'[r], k),
           Rekeys(req'[r], k) => NextPolicy(req'[r], req'[r].copy) = NextPolicy(req[r], req[r].copy),
           \A o \in fresh' \ fresh : ~Rekeys(req'[o], k)
    PROVE  PolicyOk(k, i, req', fresh', keys')
<1>1. \A o \in Requests : Rekeys(req[o], k) <=> Rekeys(req'[o], k)
    BY DEF OthersStay
<1>2. \A o \in Requests : Rekeys(req[o], k) =>
         NextPolicy(req'[o], req'[o].copy) = NextPolicy(req[o], req[o].copy)
    BY DEF OthersStay
<1>3. (\A o \in Requests : ~Rekeys(req'[o], k)) => keys'[k].policy = i.policy
    BY <1>1 DEF PolicyOk
<1>4. ASSUME NEW o \in fresh', Rekeys(req'[o], k), \A v \in Requests \ {o} : ~Rekeys(req'[v], k)
      PROVE  keys'[k].policy = NextPolicy(req'[o], req'[o].copy)
    <2>1. o \in fresh /\ o \in Requests /\ Rekeys(req[o], k)
        BY <1>1, <1>4
    <2>2. \A v \in Requests \ {o} : ~Rekeys(req[v], k)
        BY <1>1, <1>4
    <2>3. keys[k].policy = NextPolicy(req[o], req[o].copy)
        BY <2>1, <2>2 DEF PolicyOk
    <2>4. QED
        BY <1>2, <2>1, <2>3
<1>5. QED
    BY <1>3, <1>4 DEF PolicyOk

\* Nobody has updated the key, and it has the policy of the instance.
LEMMA PolicyPlain ==
    ASSUME NEW k, NEW i, fresh' \subseteq Requests,
           \A o \in Requests : ~Rekeys(req'[o], k), keys'[k].policy = i.policy
    PROVE  PolicyOk(k, i, req', fresh', keys')
    BY DEF PolicyOk

\* A step that does not write: each key in its place is as it was, or set right.
LEMMA PoliciesAsked ==
    ASSUME KInv, MigratedStay, PoliciesKept, NEW r \in Requests, OthersStay(r), fresh' \subseteq Requests,
           excused \subseteq excused', torn \subseteq torn', inst' = inst,
           \A o \in fresh' \ fresh : o = r,
           \A k \in Keys \ migrated, s \in Stores, u \in Uids \ (excused' \cup torn') :
               Has(inst[s][u], k) /\ ~inst[s][u].deleted /\ keys[k].state = "live" =>
                   \/ PolicyOk(k, inst[s][u], req', fresh', keys')
                   \/ keys'[k].policy = keys[k].policy /\ ~Rekeys(req[r], k) /\ ~Rekeys(req'[r], k)
    PROVE  PoliciesKept'
<1> SUFFICES ASSUME NEW k \in Keys \ migrated, NEW s \in Stores, NEW u \in Uids \ (excused' \cup torn'),
                    Has(inst[s][u], k), ~inst[s][u].deleted
             PROVE  PolicyOk(k, inst[s][u], req', fresh', keys')
    BY DEF PoliciesKept, MigratedStay
<1>1. PolicyOk(k, inst[s][u], req, fresh, keys)
    BY DEF PoliciesKept
<1>2. keys[k].state = "live"
    BY DEF KInv, SlotsLive, Holds
<1>3. CASE keys'[k].policy = keys[k].policy /\ ~Rekeys(req[r], k) /\ ~Rekeys(req'[r], k)
    BY <1>1, <1>3, PolicyStays
<1>4. QED
    BY <1>2, <1>3

LEMMA AskedKeys ==
    ASSUME KInv, NEW r \in Requests, req[r].copy \in Instance, req[r].copy.key # NoKey,
           req[r].pc \notin {"new", "done"}
    PROVE  /\ req[r].copy.key \in Keys /\ Has(req[r].copy, req[r].copy.key)
           /\ Copies(req[r], req[r].copy.key)
           /\ \A k \in Keys : Has(req[r].copy, k) => k = req[r].copy.key
           /\ req[r].copy.key \notin migrated =>
                 \A s \in Stores, u \in Uids :
                    Has(inst[s][u], req[r].copy.key) => s = req[r].store /\ u = req[r].uid
<1>1. /\ req[r].copy.key \in Keys /\ Has(req[r].copy, req[r].copy.key)
      /\ \A k \in Keys : Has(req[r].copy, k) => k = req[r].copy.key
    BY DEF Instance, Has, Absent
<1>2. Copies(req[r], req[r].copy.key)
    BY <1>1 DEF Copies
<1>3. QED
    BY <1>1, <1>2 DEF KInv, Owns, CopyOwn, Holds

LEMMA PlainPolicies ==
    ASSUME KInv, MigratedStay, PoliciesKept, NEW r \in Requests, Plain(r), OthersStay(r), fresh' \subseteq Requests
    PROVE  PoliciesKept'
<1>1. UNCHANGED <<inst, keys, torn, excused>> /\ EmptyNow(req[r]) /\ EmptyNow(req'[r])
    BY PlainBefore, PlainAfter
<1>2. \A k \in Keys : ~Rekeys(req[r], k) /\ ~Rekeys(req'[r], k)
    BY <1>1, EmptyNowHands
<1>3. fresh' = fresh \/ Reads(r)
    BY DEF Plain, BeginCreate, BeginOther, ReadMax, ListHers, HasCrd, ReadForUpdate, ReadForKeygen,
       ReadForDelete
<1>4. \A o \in fresh' \ fresh : o = r
    BY <1>3 DEF Reads
<1>5. QED
    BY <1>1, <1>2, <1>4, PoliciesAsked

LEMMA GenerateKeyPolicies ==
    ASSUME KInv, MigratedStay, PoliciesKept, NEW r \in Requests, GenerateKey(r), OthersStay(r), fresh' \subseteq Requests,
           excused \subseteq excused', torn \subseteq torn'
    PROVE  PoliciesKept'
<1>1. /\ TypeOK /\ req[r] \in Request /\ Shape(req[r]) /\ req[r].pc = "generate"
      /\ inst' = inst /\ fresh' = fresh
    BY DEF KInv, Shaped, TypeOK, GenerateKey
<1>2. PICK k \in Keys :
         \/ Issue(r, k) /\ Becomes(r, [req[r] EXCEPT !.key = k, !.pc = IF Creates(req[r]) THEN "post" ELSE "write"])
         \/ Ends(r) /\ (UNCHANGED keys \/ Issue(r, k))
    BY DEF GenerateKey
<1>3. \A j \in Keys : keys[j].state = "live" => keys'[j] = keys[j]
    <2>1. CASE Issue(r, k)
        BY <1>1, <1>2, <2>1 DEF Issue, IsNextKey, TypeOK, KeyTable, Unissued
    <2>2. CASE UNCHANGED keys
        BY <2>2
    <2>3. QED
        BY <1>2, <2>1, <2>2
<1>4. \A j \in Keys : ~Rekeys(req[r], j)
    BY <1>1 DEF Rekeys
<1>5. \A j \in Keys : ~Rekeys(req'[r], j)
    <2>1. CASE Ends(r)
        BY <1>1, <2>1, EndsHands DEF EmptyHanded
    <2>2. CASE Becomes(r, [req[r] EXCEPT !.key = k, !.pc = IF Creates(req[r]) THEN "post" ELSE "write"])
        <3> DEFINE pc == IF Creates(req[r]) THEN "post" ELSE "write"
        <3>1. req'[r] = [req[r] EXCEPT !.key = k, !.pc = pc]
            BY <1>1, <2>2 DEF TypeOK, Becomes
        <3> HIDE DEF pc
        <3>2. req'[r].rekeyed = req[r].rekeyed /\ ~req[r].rekeyed
            BY <1>1, <3>1 DEF Request, Shape
        <3>3. QED
            BY <3>2 DEF Rekeys
    <2>3. QED
        BY <1>2, <2>1, <2>2
<1>6. QED
    BY <1>1, <1>3, <1>4, <1>5, PoliciesAsked

LEMMA UpdateKeyPolicies ==
    ASSUME KInv, MigratedStay, PoliciesKept, NEW r \in Requests, UpdateKey(r), OthersStay(r), fresh' \subseteq Requests,
           excused \subseteq excused', torn \subseteq torn'
    PROVE  PoliciesKept'
<1>1. /\ TypeOK /\ req[r] \in Request /\ Shape(req[r]) /\ req[r].pc = "rekey"
      /\ inst' = inst /\ fresh' = fresh
    BY DEF KInv, Shaped, TypeOK, UpdateKey
<1>2. req[r].copy \in Instance /\ req[r].copy.key # NoKey
    BY <1>1 DEF Shape, CreatorShape, UpdaterShape
<1> DEFINE k == req[r].copy.key
           pol == NextPolicy(req[r], req[r].copy)
<1>3. /\ k \in Keys /\ Has(req[r].copy, k)
      /\ \A j \in Keys : Has(req[r].copy, j) => j = k
      /\ k \notin migrated =>
            \A s \in Stores, u \in Uids : Has(inst[s][u], k) => s = req[r].store /\ u = req[r].uid
    BY <1>1, <1>2, AskedKeys
<1>4. \A j \in Keys : ~Rekeys(req[r], j)
    BY <1>1 DEF Rekeys
<1>5. SetPolicy(k, pol) => \A j \in Keys : j # k => keys'[j] = keys[j]
    BY <1>1, <1>3, SetPolicyAfter
<1>6. CASE Ends(r) /\ (UNCHANGED keys \/ (SetPolicy(k, pol) /\ Excuse(req[r].uid, TRUE)))
    <2>1. \A j \in Keys : ~Rekeys(req'[r], j)
        BY <1>1, <1>6, EndsHands DEF EmptyHanded
    <2>2. CASE UNCHANGED keys
        BY <1>1, <1>4, <2>1, <2>2, PoliciesAsked
    <2>3. CASE SetPolicy(k, pol) /\ Excuse(req[r].uid, TRUE)
        <3>1. req[r].uid \in excused'
            BY <2>3 DEF Excuse
        <3>2. QED
            BY <1>1, <1>3, <1>4, <1>5, <2>1, <2>3, <3>1, PoliciesAsked
    <2>4. QED
        BY <1>6, <2>2, <2>3
\* The key has the policy that r is about to write.
<1>7. CASE /\ keys[k].state = "live" /\ SetPolicy(k, pol)
           /\ Becomes(r, [req[r] EXCEPT !.rekeyed = TRUE, !.pc = "write"])
    <2>1. req'[r] = [req[r] EXCEPT !.rekeyed = TRUE, !.pc = "write"]
        BY <1>1, <1>7 DEF TypeOK, Becomes
    <2>2. /\ req'[r].pc = "write" /\ req'[r].rekeyed /\ req'[r].copy = req[r].copy
          /\ req'[r].policy = req[r].policy
        BY <1>1, <2>1 DEF Request
    <2>3. Rekeys(req'[r], k) /\ \A j \in Keys : j # k => ~Rekeys(req'[r], j)
        BY <1>3, <2>2 DEF Rekeys
    <2>4. keys'[k].policy = NextPolicy(req'[r], req'[r].copy)
        <3>1. keys'[k].policy = pol
            BY <1>1, <1>3, <1>7, SetPolicyAfter
        <3>2. QED
            BY <2>2, <3>1 DEF NextPolicy
    <2>5. \A i : PolicyOk(k, i, req', fresh', keys')
        BY <2>3, <2>4 DEF PolicyOk
    <2>6. QED
        BY <1>1, <1>4, <1>5, <1>7, <2>3, <2>5, PoliciesAsked
<1>8. QED
    BY <1>6, <1>7 DEF UpdateKey

\* A policy is given back only by who read the instance last and is alone.
LEMMA UndoKeyPolicies ==
    ASSUME KInv, MigratedStay, FreshCopies, PoliciesKept, NEW r \in Requests, UndoKey(r), OthersStay(r),
           fresh' \subseteq Requests, excused \subseteq excused', torn \subseteq torn'
    PROVE  PoliciesKept'
<1>1. /\ TypeOK /\ req[r] \in Request /\ Shape(req[r]) /\ req[r].pc = "undo"
      /\ inst' = inst /\ fresh' = fresh /\ torn' = torn
    BY DEF KInv, Shaped, TypeOK, UndoKey
<1>2. \A j \in Keys : ~Rekeys(req'[r], j)
    BY <1>1, EndsHands DEF UndoKey, EmptyHanded
<1>3. CASE req[r].key # NoKey /\ keys' = [keys EXCEPT ![req[r].key] = Revoked]
    <2>1. ~req[r].rekeyed /\ req[r].key \in Keys
        BY <1>1, <1>3 DEF Shape, CreatorShape, UpdaterShape, Request
    <2>2. \A j \in Keys : ~Rekeys(req[r], j)
        BY <2>1 DEF Rekeys
    <2>3. \A s \in Stores, u \in Uids \ torn : ~Has(inst[s][u], req[r].key)
        BY <1>1, <2>1 DEF KInv, Owns, UndoOwn, Undoes
    <2>4. \A j \in Keys : j # req[r].key => keys'[j] = keys[j]
        BY <1>1, <1>3 DEF TypeOK, KeyTable
    <2>5. QED
        BY <1>1, <1>2, <2>2, <2>3, <2>4, PoliciesAsked
<1>4. CASE req[r].key = NoKey /\ SetPolicy(req[r].copy.key, req[r].copy.policy)
           /\ Excuse(req[r].uid, Stale(r) \/ Shared(r))
    <2>1. /\ ~Creates(req[r]) /\ req[r].copy \in Instance /\ req[r].copy.key # NoKey
        BY <1>1, <1>4 DEF Shape, CreatorShape, UpdaterShape
    <2> DEFINE k == req[r].copy.key
    <2>2. /\ k \in Keys
          /\ \A j \in Keys : Has(req[r].copy, j) => j = k
          /\ k \notin migrated =>
                \A s \in Stores, u \in Uids : Has(inst[s][u], k) => s = req[r].store /\ u = req[r].uid
        BY <1>1, <2>1, AskedKeys
    <2>3. \A j \in Keys : j # k => keys'[j] = keys[j] /\ ~Rekeys(req[r], j)
        BY <1>1, <1>4, <2>2, SetPolicyAfter DEF Rekeys
    <2>4. ASSUME NEW s \in Stores, NEW u \in Uids \ (excused' \cup torn'),
                 Has(inst[s][u], k), keys[k].state = "live", k \notin migrated
          PROVE  PolicyOk(k, inst[s][u], req', fresh', keys')
        <3>1. s = req[r].store /\ u = req[r].uid
            BY <2>2, <2>4
        <3>2. ~Stale(r) /\ ~Shared(r)
            BY <1>4, <2>4, <3>1 DEF Excuse
        <3>3. inst[s][u] = req[r].copy
            <4>1. inst[s][u] # Absent
                BY <2>4 DEF Has
            <4>2. QED
                BY <1>1, <3>1, <3>2, <4>1 DEF FreshCopies, Current, Stale
        <3>4. keys'[k].policy = inst[s][u].policy
            BY <1>1, <1>4, <2>2, <2>4, <3>3, SetPolicyAfter
        <3>5. ASSUME NEW o \in Requests \ {r}, Rekeys(req[o], k)
              PROVE  FALSE
            <4>1. Active(o) /\ req[o].uid = u
                BY <2>2, <2>4, <3>5, RekeyPlace
            <4>2. QED
                BY <3>1, <3>2, <4>1 DEF Shared
        <3>6. \A o \in Requests : ~Rekeys(req'[o], k)
            BY <1>2, <2>2, <3>5 DEF OthersStay
        <3>7. QED
            BY <3>4, <3>6, PolicyPlain
    <2>5. QED
        BY <1>1, <1>2, <2>3, <2>4, PoliciesAsked
<1>5. CASE Excuse(req[r].uid, TRUE) /\ UNCHANGED keys
    <2>1. req[r].uid \in excused'
        BY <1>5 DEF Excuse
    <2>2. \A k \in Keys \ migrated, s \in Stores, u \in Uids :
             Has(inst[s][u], k) /\ Rekeys(req[r], k) => u \in excused'
        BY <2>1, RekeyPlace
    <2>3. QED
        BY <1>1, <1>2, <1>5, <2>2, PoliciesAsked
<1>6. QED
    BY <1>3, <1>4, <1>5 DEF UndoKey

LEMMA RevokeOldPolicies ==
    ASSUME KInv, MigratedStay, PoliciesKept, NEW r \in Requests, RevokeOld(r), OthersStay(r), fresh' \subseteq Requests,
           excused \subseteq excused', torn \subseteq torn'
    PROVE  PoliciesKept'
<1>1. /\ TypeOK /\ Shape(req[r]) /\ req[r].pc = "revoke" /\ inst' = inst /\ fresh' = fresh
    BY DEF KInv, Shaped, RevokeOld
<1>2. req[r].copy \in Instance /\ req[r].copy.key # NoKey
    BY <1>1 DEF Shape, CreatorShape, UpdaterShape
<1>3. req[r].copy.key \in Keys /\ Has(req[r].copy, req[r].copy.key)
    BY <1>1, <1>2, AskedKeys
<1>4. req[r].copy.key \notin migrated =>
         \A s \in Stores, u \in Uids : Has(inst[s][u], req[r].copy.key) => inst[s][u].deleted
    BY <1>1, <1>3 DEF KInv, Owns, RevokeOwn, Revokes, Holds
<1>5. \A j \in Keys : j # req[r].copy.key => keys'[j] = keys[j]
    BY <1>1 DEF RevokeOld, TypeOK, KeyTable
<1>6. \A j \in Keys : ~Rekeys(req[r], j)
    BY <1>1 DEF Rekeys
<1>7. \A j \in Keys : ~Rekeys(req'[r], j)
    BY <1>1, EndsHands, GoesHands DEF RevokeOld, EmptyHanded, Rekeys, Pcs
<1>8. QED
    BY <1>1, <1>4, <1>5, <1>6, <1>7, PoliciesAsked

\* A step that writes one place: all that r has updated is the key in it.
LEMMA PoliciesPut ==
    ASSUME KInv, MigratedStay, PoliciesKept, NEW r \in Requests, OthersStay(r), fresh' \subseteq fresh, TypeOK',
           excused \subseteq excused', torn \subseteq torn', keys' = keys,
           NEW s \in Stores, NEW u \in Uids, NEW i \in Instance \cup {Absent}, Put(s, u, i),
           \A k \in Keys : Rekeys(req'[r], k) => Rekeys(req[r], k),
           req[r].rekeyed => s = req[r].store /\ u = req[r].uid,
           \A k \in Keys \ migrated : Has(i, k) /\ ~i.deleted /\ u \notin excused' \cup torn' =>
               PolicyOk(k, i, req', fresh', keys')
    PROVE  PoliciesKept'
<1>1. /\ inst'[s][u] = i
      /\ \A t \in Stores, w \in Uids : <<t, w>> # <<s, u>> => inst'[t][w] = inst[t][w]
    BY PutPlace DEF KInv
<1> SUFFICES ASSUME NEW k \in Keys \ migrated, NEW t \in Stores, NEW v \in Uids \ (excused' \cup torn'),
                    Has(inst'[t][v], k), ~inst'[t][v].deleted
             PROVE  PolicyOk(k, inst'[t][v], req', fresh', keys')
    BY DEF PoliciesKept, MigratedStay
<1>2. CASE <<t, v>> = <<s, u>>
    BY <1>1, <1>2
<1>3. CASE <<t, v>> # <<s, u>>
    <2>1. inst'[t][v] = inst[t][v]
        BY <1>1, <1>3
    <2>2. PolicyOk(k, inst[t][v], req, fresh, keys)
        BY <2>1 DEF PoliciesKept
    <2>3. ~Rekeys(req[r], k) /\ ~Rekeys(req'[r], k)
        BY <1>3, <2>1, RekeyPlace DEF Rekeys
    <2>4. fresh' \subseteq Requests
        BY DEF TypeOK
    <2>5. QED
        BY <2>1, <2>2, <2>3, <2>4, PolicyStays
<1>4. QED
    BY <1>2, <1>3

\* A step that writes nothing and leaves in r's hands what was there.
LEMMA PoliciesFail ==
    ASSUME KInv, MigratedStay, PoliciesKept, NEW r \in Requests, OthersStay(r), fresh' \subseteq fresh, TypeOK',
           excused \subseteq excused', torn \subseteq torn', UNCHANGED <<inst, keys>>,
           \A k \in Keys : Rekeys(req'[r], k) <=> Rekeys(req[r], k),
           EmptyHanded(req'[r]) \/ Alike(req[r], req'[r])
    PROVE  PoliciesKept'
<1>1. \A k \in Keys : Rekeys(req'[r], k) =>
         NextPolicy(req'[r], req'[r].copy) = NextPolicy(req[r], req[r].copy)
    BY DEF EmptyHanded, Alike, NextPolicy
<1>2. ASSUME NEW k \in Keys, NEW i, PolicyOk(k, i, req, fresh, keys)
      PROVE  PolicyOk(k, i, req', fresh', keys')
    BY <1>1, <1>2, PolicyStays DEF TypeOK
<1>3. QED
    BY <1>2 DEF PoliciesKept, MigratedStay

\* A key that has been on its way has the policy it was asked for.
LEMMA PendPlaced ==
    ASSUME KInv, PendPolicy, NEW r \in Requests, OthersStay(r), NEW k \in Keys, Pends(req[r], k),
           fresh' \subseteq Requests, keys' = keys, ~Rekeys(req'[r], k),
           NEW i, i.policy = AskedPolicy(req[r])
    PROVE  PolicyOk(k, i, req', fresh', keys')
<1>1. \A o \in Requests \ {r} : ~Copies(req[o], k)
    BY DEF KInv, Apart
<1>2. \A o \in Requests : ~Rekeys(req'[o], k)
    BY <1>1 DEF OthersStay, Rekeys, Copies
<1>3. keys'[k].policy = i.policy
    BY DEF PendPolicy
<1>4. QED
    BY <1>2, <1>3, PolicyPlain

LEMMA CreationPolicies ==
    ASSUME KInv, MigratedStay, PendPolicy, PoliciesKept, NEW r \in Requests, PostHer(r) \/ PatchHer(r) \/ InsertRow(r),
           OthersStay(r), TypeOK', excused \subseteq excused', torn \subseteq torn'
    PROVE  PoliciesKept'
<1>1. /\ req[r].pc \in {"post", "patch", "insert"} /\ keys' = keys /\ fresh' \subseteq fresh
      /\ "her" \in Stores /\ "row" \in Stores
    BY DEF PostHer, PatchHer, InsertRow, Stores, Put
<1>2. /\ Creates(req[r]) /\ CreatorShape(req[r]) /\ req[r].uid \in Uids /\ Wanted(r) \in Instance
      /\ \A k \in Keys : Has(Wanted(r), k) => Pends(req[r], k)
    BY <1>1, CreatorAtWrite
<1>3. ~req[r].rekeyed /\ \A k \in Keys : ~Rekeys(req[r], k)
    BY <1>2 DEF CreatorShape, Rekeys
<1>4. /\ Ends(r) \/ Fails(r) => (EmptyHanded(req'[r]) \/ Alike(req[r], req'[r]))
      /\ Ends(r) \/ Fails(r) => \A k \in Keys : ~Rekeys(req'[r], k)
    BY <1>1, <1>3, EndsHands, FailsHands DEF EmptyHanded
<1>5. CASE UNCHANGED inst
    <2>1. Ends(r) \/ Fails(r) \/ Goes(r, "patch") \/ Goes(r, "insert")
        BY DEF PostHer, PatchHer, InsertRow
    <2>2. CASE Goes(r, "patch") \/ Goes(r, "insert")
        <3>1. Alike(req[r], req'[r])
            BY <2>2, GoesHands DEF Pcs
        <3>2. \A k \in Keys : ~Rekeys(req'[r], k)
            BY <1>3, <3>1 DEF Alike, Rekeys
        <3>3. QED
            BY <1>1, <1>3, <1>5, <3>1, <3>2, PoliciesFail
    <2>3. CASE Ends(r) \/ Fails(r)
        BY <1>1, <1>3, <1>4, <1>5, <2>3, PoliciesFail
    <2>4. QED
        BY <2>1, <2>2, <2>3
<1>6. ASSUME NEW s \in Stores, Put(s, req[r].uid, Wanted(r)), Ends(r) \/ Fails(r)
      PROVE  PoliciesKept'
    <2>1. Wanted(r).policy = AskedPolicy(req[r])
        BY <1>2 DEF Wanted, AskedPolicy
    <2>2. \A k \in Keys : Has(Wanted(r), k) => PolicyOk(k, Wanted(r), req', fresh', keys')
        BY <1>1, <1>2, <1>4, <1>6, <2>1, PendPlaced DEF TypeOK
    <2>3. QED
        BY <1>1, <1>2, <1>3, <1>4, <1>6, <2>2, PoliciesPut
<1>7. QED
    BY <1>1, <1>5, <1>6 DEF PostHer, PatchHer, InsertRow

\* An update writes the policy that its key has got, or leaves both alone.
LEMMA WriteChangesPolicies ==
    ASSUME KInv, MigratedStay, FreshCopies, PendPolicy, PoliciesKept, NEW r \in Requests, WriteChanges(r),
           OthersStay(r), TypeOK', excused \subseteq excused', torn \subseteq torn'
    PROVE  PoliciesKept'
<1>1. /\ TypeOK /\ req[r] \in Request /\ Shape(req[r]) /\ req[r].pc = "write" /\ keys' = keys
      /\ req[r].uid \in Uids /\ req[r].store \in Stores
    BY DEF KInv, Shaped, TypeOK, WriteChanges, Shape, Request
<1>2. ~Creates(req[r]) /\ UpdaterShape(req[r]) /\ req[r].copy \in Instance /\ fresh' \subseteq fresh
    BY <1>1 DEF Shape, CreatorShape, UpdaterShape, WriteChanges, Put
<1>3. CASE Fails(r) /\ UNCHANGED inst
    BY <1>1, <1>2, <1>3, FailsHands, PoliciesFail
<1>4. CASE Here(r) # Absent /\ Put(req[r].store, req[r].uid, Changed(req[r], Here(r)))
    <2> DEFINE i == Changed(req[r], Here(r))
    <2>1. /\ Here(r) \in Instance /\ i \in Instance /\ i.deleted = Here(r).deleted
          /\ \A k \in Keys : Has(i, k) => Has(Here(r), k) \/ Pends(req[r], k)
          /\ Clears(req[r]) => i.key = NoKey
        BY <1>1, <1>4, WriterAtWrite
    <2>2. \A k \in Keys : Rekeys(req'[r], k) => Rekeys(req[r], k)
        <3>1. Ends(r) \/ Fails(r) \/ Goes(r, "revoke")
            BY <1>4 DEF WriteChanges
        <3>2. QED
            BY <1>1, <3>1, EndsHands, FailsHands, GoesHands DEF EmptyHanded, Rekeys, Pcs
    <2>3. Put(req[r].store, req[r].uid, i)
        BY <1>4
    <2>4. CASE req[r].uid \in excused'
        <3> HIDE DEF i
        <3>1. QED
            BY <1>1, <1>2, <2>1, <2>2, <2>3, <2>4, PoliciesPut
    <2>5. CASE req[r].uid \notin excused' /\ ~(Fails(r) /\ UNCHANGED inst)
        <3>1. /\ IF Clears(req[r]) THEN Goes(r, "revoke") ELSE Ends(r)
              /\ ~Stale(r) /\ ~Here(r).deleted
            BY <1>4, <2>5 DEF WriteChanges, Excuse
        <3>2. Here(r) = req[r].copy
            BY <1>1, <1>4, <3>1 DEF FreshCopies, Current, Here, Stale
        <3>3. \A k \in Keys : ~Rekeys(req'[r], k)
            BY <1>1, <3>1, EndsHands, GoesHands DEF EmptyHanded, Rekeys, Pcs
        <3>4. NextProvider(req[r], req[r].copy) = "litellm" /\ req[r].kind = "update" =>
                 i.policy = NextPolicy(req[r], req[r].copy)
            BY <1>2, <3>2 DEF Changed, NextPolicy, Instance
        <3>5. ASSUME NEW k \in Keys, Has(i, k), Pends(req[r], k)
              PROVE  PolicyOk(k, i, req', fresh', keys')
            <4>1. i.policy = AskedPolicy(req[r])
                <5>1. CASE req[r].kind = "keygen"
                    BY <1>2, <3>2, <5>1 DEF Changed, AskedPolicy, Creates, Instance
                <5>2. CASE req[r].kind = "update"
                    BY <1>2, <3>2, <5>2 DEF Changed, AskedPolicy, Creates, NextPolicy, Instance
                <5>3. QED
                    BY <1>1, <1>2, <5>1, <5>2 DEF UpdaterShape
            <4> HIDE DEF i
            <4>2. QED
                BY <1>1, <3>3, <3>5, <4>1, PendPlaced DEF TypeOK
        \* The key stays: its policy is changed and so is the instance's.
        <3>6. ASSUME NEW k \in Keys \ migrated, Has(i, k), ~Pends(req[r], k), req[r].uid \notin torn'
              PROVE  PolicyOk(k, i, req', fresh', keys')
            <4>1. Has(Here(r), k) /\ k # NoKey
                BY <2>1, <3>6, RegistryAssumptions
            <4>2. req[r].copy.key = k /\ req[r].copy # Absent
                BY <3>2, <4>1 DEF Has
            <4>3. req[r].key = NoKey /\ req[r].kind = "update"
                BY <1>1, <1>2, <4>1, <4>2 DEF UpdaterShape
            <4>4. ~Clears(req[r]) /\ NextProvider(req[r], req[r].copy) = "litellm"
                BY <2>1, <3>6, <4>1, <4>2, <4>3 DEF Clears, Has
            <4>5. i.policy = NextPolicy(req[r], req[r].copy)
                BY <3>4, <4>3, <4>4
            <4>6. PolicyOk(k, Here(r), req, fresh, keys)
                BY <1>1, <2>5, <3>1, <3>6, <4>1 DEF PoliciesKept, Here
            <4>7. CASE \E o \in Requests \ {r} : Rekeys(req[o], k)
                <5>1. PICK o \in Requests \ {r} : Rekeys(req[o], k)
                    BY <4>7
                <5>2. req'[o] = req[o]
                    BY <5>1 DEF OthersStay
                <5>3. \A v \in Requests \ {r} : Rekeys(req[v], k) => v \notin fresh'
                    <6>1. \A v \in Requests : Rekeys(req[v], k) =>
                             req[v].store = req[r].store /\ req[v].uid = req[r].uid
                        BY <1>1, <4>1, RekeyPlace DEF Here
                    <6>2. QED
                        BY <1>4, <6>1 DEF Put
                <5>4. QED
                    BY <1>2, <3>3, <5>1, <5>2, <5>3 DEF PolicyOk, OthersStay, TypeOK
            <4>8. CASE \A o \in Requests \ {r} : ~Rekeys(req[o], k)
                <5>1. \A o \in Requests : ~Rekeys(req'[o], k)
                    BY <3>3, <4>8 DEF OthersStay
                <5>2. keys[k].policy = i.policy
                    <6>1. CASE Rekeys(req[r], k)
                        BY <3>1, <4>5, <4>6, <4>8, <6>1 DEF PolicyOk, Stale
                    <6>2. CASE ~Rekeys(req[r], k)
                        <7>1. ~req[r].rekeyed
                            BY <1>1, <4>2, <6>2 DEF Rekeys, Has
                        <7>2. NextPolicy(req[r], req[r].copy) = req[r].copy.policy
                            BY <1>1, <1>2, <4>3, <4>4, <7>1 DEF UpdaterShape
                        <7>3. keys[k].policy = Here(r).policy
                            BY <4>6, <4>8, <6>2 DEF PolicyOk
                        <7>4. QED
                            BY <3>2, <4>5, <7>2, <7>3
                    <6>3. QED
                        BY <6>1, <6>2
                <5> HIDE DEF i
                <5>3. QED
                    BY <1>1, <5>1, <5>2, PolicyPlain DEF TypeOK
            <4>9. QED
                BY <4>7, <4>8
        <3> HIDE DEF i
        <3>7. QED
            BY <1>1, <1>2, <2>1, <2>2, <2>3, <3>5, <3>6, PoliciesPut
    <2>6. QED
        BY <1>3, <2>4, <2>5
<1>5. QED
    BY <1>3, <1>4 DEF WriteChanges

LEMMA DroppingPolicies ==
    ASSUME KInv, MigratedStay, PoliciesKept, NEW r \in Requests, Drop(r) \/ Forget(r),
           OthersStay(r), TypeOK', excused \subseteq excused', torn \subseteq torn'
    PROVE  PoliciesKept'
<1>1. /\ TypeOK /\ req[r] \in Request /\ Shape(req[r]) /\ req[r].pc \in {"drop", "forget"} /\ keys' = keys
      /\ req[r].uid \in Uids /\ "her" \in Stores /\ "row" \in Stores
    BY DEF KInv, Shaped, TypeOK, Drop, Forget, Shape, Stores
<1>2. fresh' \subseteq fresh
    BY DEF Drop, Forget, DropRow, Put
<1>3. ~req[r].rekeyed /\ \A k \in Keys : ~Rekeys(req[r], k)
    BY <1>1 DEF Shape, Rekeys
<1>4. \A k \in Keys : ~Rekeys(req'[r], k)
    <2>1. Ends(r) \/ Goes(r, "revoke") \/ Goes(r, "forget")
        BY DEF Drop, Forget, KeyOrForget
    <2>2. QED
        BY <1>1, <2>1, EndsHands, GoesHands DEF EmptyHanded, Rekeys, Pcs
<1>5. EmptyHanded(req'[r]) \/ Alike(req[r], req'[r])
    <2>1. Ends(r) \/ Goes(r, "revoke") \/ Goes(r, "forget")
        BY DEF Drop, Forget, KeyOrForget
    <2>2. QED
        BY <1>1, <2>1, EndsHands, GoesHands DEF Pcs
<1>6. CASE UNCHANGED inst
    BY <1>1, <1>2, <1>3, <1>4, <1>5, <1>6, PoliciesFail
<1>7. ASSUME NEW s \in Stores, NEW i \in Instance \cup {Absent}, Put(s, req[r].uid, i),
             i = Absent \/ i.deleted
      PROVE  PoliciesKept'
    <2>1. \A k \in Keys : ~(Has(i, k) /\ ~i.deleted)
        BY <1>7 DEF Has
    <2>2. QED
        BY <1>1, <1>2, <1>3, <1>4, <1>7, <2>1, PoliciesPut
<1> DEFINE i == inst["row"][req[r].uid]
           j == IF req[r].purge THEN Absent ELSE [i EXCEPT !.deleted = TRUE]
<1>8. CASE i # Absent /\ Put("row", req[r].uid, j)
    <2>1. inst \in [Stores -> [Uids -> Instance \cup {Absent}]]
        BY <1>1 DEF TypeOK, Instances
    <2>2. i \in Instance
        BY <1>1, <1>8, <2>1
    <2>3. j \in Instance \cup {Absent} /\ (j = Absent \/ j.deleted)
        BY <2>2 DEF Instance
    <2>4. Put("row", req[r].uid, j)
        BY <1>8
    <2> HIDE DEF j
    <2>5. QED
        BY <1>1, <1>7, <2>3, <2>4
<1>9. CASE Put("her", req[r].uid, Absent)
    BY <1>1, <1>7, <1>9
<1>10. QED
    BY <1>6, <1>8, <1>9 DEF Drop, Forget, DropRow

LEMMA PoliciesStep ==
    ASSUME KInv, MigratedStay, FreshCopies, PendPolicy, PoliciesKept, NEW r \in Requests, Step(r)
    PROVE  PoliciesKept'
<1>1. TypeOK /\ TypeOK'
    BY NextKInv DEF KInv, Next, MigratedStay
<1>2. OthersStay(r) /\ excused \subseteq excused' /\ torn \subseteq torn' /\ fresh' \subseteq Requests
    BY <1>1, StepOthers, Grows DEF TypeOK
<1>3. QED
    BY <1>1, <1>2, PlainPolicies, GenerateKeyPolicies, UpdateKeyPolicies, UndoKeyPolicies,
       RevokeOldPolicies, CreationPolicies, WriteChangesPolicies, DroppingPolicies DEF Step, Plain

-----------------------------------------------------------------------------
(* The process dies: its requests hold nothing any more, and what they had *)
(* in hand is excused.                                                     *)

LEMMA CrashFresh ==
    ASSUME KInv, FreshCopies, Crash
    PROVE  FreshCopies'
<1>1. /\ inst' = inst /\ fresh' = fresh /\ fresh \subseteq Requests
      /\ \A o \in Requests : req'[o] = req[o] \/ (req'[o].pc = "done" /\ Alike(req[o], req'[o]))
    BY CrashEnds DEF Crash, KInv, TypeOK
<1>2. ASSUME NEW o \in fresh
      PROVE  Current(req'[o], inst)
    <2>1. Current(req[o], inst)
        BY DEF FreshCopies
    <2>2. QED
        BY <1>1, <2>1 DEF Current, Alike, Creates
<1>3. QED
    BY <1>1, <1>2 DEF FreshCopies

\* Whose hands a key was in.
LEMMA CrashExcuses ==
    ASSUME KInv, Crash, NEW o \in Requests, Active(o), InHand(req[o])
    PROVE  req[o].uid \in Uids => req[o].uid \in excused'
    BY DEF Crash

LEMMA CrashKept ==
    ASSUME KInv, Kept, Crash
    PROVE  Kept'
<1>1. /\ inst' = inst /\ keys' = keys /\ torn' = torn /\ excused \subseteq excused'
      /\ \A o \in Requests : Active(o) \/ req'[o] = req[o]
    BY CrashEnds DEF Crash, KInv
<1>2. ASSUME NEW o \in Requests, NEW k \in Keys, Grips(req[o], k), keys[k].state = "live", Active(o)
      PROVE  keys[k].uid \in excused'
    <2>1. Shape(req[o]) /\ req[o].uid \in Uids
        BY <1>2 DEF KInv, Shaped, Shape, Grips, Pends, Undoes, Revokes
    <2>2. InHand(req[o])
        BY <1>2, RegistryAssumptions DEF Grips, Pends, Undoes, Revokes, InHand
    <2>3. keys[k].uid = req[o].uid
        <3>1. Owns(req[o], inst, keys, torn, migrated)
            BY DEF KInv
        <3>2. QED
            BY <1>2, <3>1 DEF Owns, PendOwn, UndoOwn, CopyOwn, IsOf, Grips, Revokes, Copies
    <2>4. QED
        BY <1>2, <2>1, <2>2, <2>3, CrashExcuses
<1>3. ASSUME NEW k \in Keys, keys[k].state = "live"
      PROVE  \/ InPlace(inst, k, keys[k].uid)
             \/ \E o \in Requests : Grips(req'[o], k)
             \/ keys[k].uid \in excused' \cup torn
    <2>1. CASE \E o \in Requests : Grips(req[o], k)
        BY <1>1, <1>2, <1>3, <2>1
    <2>2. QED
        BY <1>1, <1>3, <2>1 DEF Kept
<1>4. QED
    BY <1>1, <1>3 DEF Kept

LEMMA CrashPolicies ==
    ASSUME KInv, MigratedStay, PendPolicy, PoliciesKept, Crash
    PROVE  PendPolicy' /\ PoliciesKept'
<1>1. /\ inst' = inst /\ keys' = keys /\ fresh' = fresh /\ torn' = torn /\ excused \subseteq excused'
      /\ fresh \subseteq Requests
    BY DEF Crash, KInv, TypeOK
<1>2. \A o \in Requests : req'[o] = req[o] \/ (Active(o) /\ EmptyHanded(req'[o]))
    BY CrashEnds DEF KInv
<1>3. PendPolicy'
    BY <1>1, <1>2 DEF PendPolicy, EmptyHanded
<1>4. PoliciesKept'
    <2> SUFFICES ASSUME NEW k \in Keys \ migrated, NEW s \in Stores, NEW u \in Uids \ (excused' \cup torn),
                        Has(inst[s][u], k), ~inst[s][u].deleted
                 PROVE  PolicyOk(k, inst[s][u], req', fresh, keys)
        BY <1>1 DEF PoliciesKept, MigratedStay
    <2>1. PolicyOk(k, inst[s][u], req, fresh, keys)
        BY <1>1 DEF PoliciesKept
    \* Who had updated the key would be excused.
    <2>2. ASSUME NEW o \in Requests, Rekeys(req[o], k)
          PROVE  req'[o] = req[o]
        <3>1. u = req[o].uid /\ InHand(req[o])
            BY <2>2, RekeyPlace DEF Rekeys, InHand
        <3>2. QED
            BY <1>2, <3>1, CrashExcuses
    <2>3. \A o \in Requests : Rekeys(req'[o], k) <=> Rekeys(req[o], k)
        BY <1>2, <2>2 DEF EmptyHanded
    <2>4. QED
        BY <1>1, <2>1, <2>2, <2>3 DEF PolicyOk
<1>5. QED
    BY <1>3, <1>4

-----------------------------------------------------------------------------
(* The invariants together.                                                *)

RInv == KInv /\ FreshCopies /\ Kept /\ PendPolicy /\ PoliciesKept

LEMMA InitRInv == Init => RInv
<1> SUFFICES ASSUME Init PROVE RInv
    OBVIOUS
<1>1. KInv
    BY InitKInv
<1>2. \A r \in Requests : req[r] = NewRequest /\ EmptyHanded(req[r])
    BY NewShape DEF Init
<1>3. PICK s \in InitStates : inst = s.inst /\ keys = s.keys
    BY DEF Init
<1>4. AllInOrder(inst, keys)
    BY <1>3, RegistryAssumptions
<1>5. FreshCopies /\ fresh = {}
    BY DEF Init, FreshCopies
<1>6. Kept
    <2>1. "her" \in Stores /\ 1 \in Uids
        BY RegistryAssumptions DEF Stores, Uids
    <2>2. \A k \in Keys : keys[k].state = "live" =>
             \E t \in Stores : Has(inst[t][keys[k].uid], k) /\ InUse(inst[t][keys[k].uid])
        BY <1>4, <2>1 DEF AllInOrder
    <2>3. QED
        BY <2>2 DEF Kept, InPlace, InUse
<1>7. PendPolicy
    BY <1>2 DEF PendPolicy, EmptyHanded
<1>8. PoliciesKept
    <2> SUFFICES ASSUME NEW k \in Keys \ migrated, NEW st \in Stores, NEW u \in Uids \ torn,
                        Has(inst[st][u], k), ~inst[st][u].deleted
                 PROVE  PolicyOk(k, inst[st][u], req, fresh, keys)
        BY DEF PoliciesKept
    <2>1. keys[k].state = "live"
        BY <1>1 DEF KInv, SlotsLive, Holds
    <2>2. keys[k].policy = inst[st][u].policy
        BY <1>4, <2>1 DEF AllInOrder, Init
    <2>3. QED
        BY <1>5, <2>2 DEF PolicyOk
<1>9. QED
    BY <1>1, <1>5, <1>6, <1>7, <1>8 DEF RInv

LEMMA UnchangedRInv == RInv /\ UNCHANGED vars => RInv'
<1> SUFFICES ASSUME RInv, UNCHANGED vars PROVE RInv'
    OBVIOUS
<1>1. KInv'
    BY UnchangedKInv DEF RInv
<1>2. /\ inst' = inst /\ keys' = keys /\ req' = req /\ fresh' = fresh
      /\ torn' = torn /\ excused' = excused /\ migrated' = migrated
    BY DEF vars
<1>3. FreshCopies' /\ Kept'
    BY <1>2 DEF RInv, FreshCopies, Kept
<1>4. PendPolicy' /\ PoliciesKept'
    BY <1>2 DEF RInv, PendPolicy, PoliciesKept
<1>5. QED
    BY <1>1, <1>3, <1>4 DEF RInv

LEMMA NextRInv == RInv /\ [Next]_vars => RInv'
<1> SUFFICES ASSUME RInv, [Next]_vars PROVE RInv'
    OBVIOUS
<1>1. ASSUME NEW r \in Requests, Step(r), MigratedStay PROVE RInv'
    <2>1. KInv'
        BY <1>1, NextKInv DEF RInv, Next, MigratedStay
    <2>2. FreshCopies' /\ Kept' /\ PendPolicy' /\ PoliciesKept'
        BY <1>1, FreshStep, KeptStep, PendPolicyStep, PoliciesStep DEF RInv
    <2>3. QED
        BY <2>1, <2>2 DEF RInv
<1>2. ASSUME Crash, MigratedStay PROVE RInv'
    BY <1>2, CrashKInv, CrashFresh, CrashKept, CrashPolicies DEF RInv
<1>3. QED
    BY <1>1, <1>2, UnchangedRInv DEF Next, MigratedStay

LEMMA SpecRInv == Spec => []RInv
    BY InitRInv, NextRInv, PTL DEF Spec

\* A failure on the way, at whatever call, loses no key: one that LiteLLM still
\* honours is in its instance or in the hands of a request, unless a request
\* went by an outdated copy, could not take its step back, or died with the process
\* while it had a key in hand.
THEOREM NoKeysLost == Spec => []NoKeyLost
<1>1. RInv => NoKeyLost
    <2> SUFFICES ASSUME RInv, NEW k \in Keys, keys[k].state = "live"
                 PROVE  \/ \E s \in Stores : InUse(inst[s][keys[k].uid]) /\ inst[s][keys[k].uid].key = k
                        \/ Held(k)
                        \/ keys[k].uid \in excused \cup torn
        BY DEF NoKeyLost
    <2>1. ASSUME NEW r \in Requests, Grips(req[r], k) PROVE Held(k)
        BY <2>1 DEF Grips, Pends, Undoes, Revokes, Has, Held, Active
    <2>2. InPlace(inst, k, keys[k].uid) =>
             \E s \in Stores : InUse(inst[s][keys[k].uid]) /\ inst[s][keys[k].uid].key = k
        BY DEF InPlace, Has, InUse
    <2>3. QED
        BY <2>1, <2>2 DEF RInv, Kept
<1>2. QED
    BY <1>1, SpecRInv, PTL

\* Between requests a key has the route policy of its instance, although the
\* two are changed one after the other and either change may fail; nothing is said
\* of a key that migrate.py took over.
THEOREM PoliciesAgree == Spec => []PolicyAgrees
<1>1. RInv => PolicyAgrees
    <2> SUFFICES ASSUME RInv, NEW u \in Uids \ (excused \cup torn), NEW s \in Stores,
                        InUse(inst[s][u]), inst[s][u].key \notin {NoKey} \cup migrated,
                        \A r \in Requests : Active(r) => req[r].uid # u
                 PROVE  keys[inst[s][u].key].policy = inst[s][u].policy
        BY DEF PolicyAgrees
    <2> DEFINE k == inst[s][u].key
    <2>1. inst \in [Stores -> [Uids -> Instance \cup {Absent}]]
        BY DEF RInv, KInv, TypeOK, Instances
    <2>2. inst[s][u] \in Instance
        BY <2>1 DEF InUse
    <2>3. k \in Keys \ migrated /\ Has(inst[s][u], k) /\ ~inst[s][u].deleted
        BY <2>2 DEF Instance, InUse, Has
    <2>4. PolicyOk(k, inst[s][u], req, fresh, keys)
        BY <2>3 DEF RInv, PoliciesKept
    <2>5. \A r \in Requests : ~Rekeys(req[r], k)
        BY <2>3, RekeyPlace DEF RInv
    <2>6. QED
        BY <2>4, <2>5 DEF PolicyOk
<1>2. QED
    BY <1>1, SpecRInv, PTL

=============================================================================
