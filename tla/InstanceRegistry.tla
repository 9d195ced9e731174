-------------------------- MODULE InstanceRegistry --------------------------
(***************************************************************************)
(* The instances the admin service creates, changes and deletes            *)
(* (backend/main.py), each with a LiteLLM key of its own (litellm_ops.py). *)
(*                                                                         *)
(* An instance is a HerInstance resource (crd_ops.py) or, of old, a row of *)
(* her_instances (database.py); a row also is what is left of a deleted    *)
(* one.  A request is served by a thread: it reads, asks LiteLLM for a key *)
(* or for a change of one, writes, and takes back what it asked for when   *)
(* the write fails.  Nothing is locked, so other requests come between any *)
(* two of its calls; every call may fail, and a write that reports failure *)
(* may have been made.                                                     *)
(*                                                                         *)
(* Of an instance only what concerns its key is kept: provider, key, route *)
(* policy.  Pods, ConfigMaps and Cloudflare routes are left out.           *)
(***************************************************************************)
EXTENDS Naturals

CONSTANTS
    MaxUid,        \* bound: instance ids
    Keys,          \* bound: LiteLLM keys, numbered in the order they are issued
    Policies,      \* values of litellm_route_policy
    DefaultPolicy, \* the one of an instance that has none
    Requests,      \* the requests that are served, each once
    Kinds,         \* what they ask for: subset of AllKinds
    InitStates,    \* instances and keys there may be at first
    Faults,        \* which calls fail: subset of AllFaults
    MaxFaults      \* bound: failures

AllKinds == {"create", "import", "update", "keygen", "delete"}

\* "lost" is a write that is made although it reports a failure (the answer of the
\* cluster is lost, or the row cannot be read again), "nocrd" a creation that is
\* answered 404, "crash" the death of the process.
AllFaults == {"list", "litellm", "write", "lost", "nocrd", "crash"}

NoKey == 0

Uids == 1..MaxUid

Providers == {"litellm", "other"}

Instance == [provider: Providers, key: Keys \cup {NoKey}, policy: Policies, deleted: BOOLEAN]

Absent == [provider |-> "none"]

\* inst["her"] are the resources, inst["row"] the rows.
Stores == {"her", "row"}

Instances == [Stores -> [Uids -> Instance \cup {Absent}]]

\* What LiteLLM knows of a key: the uid and the route policy in its metadata.
KeyInfo == [state: {"live"}, uid: Uids, policy: Policies]

Unissued == [state |-> "unissued"]
Revoked == [state |-> "revoked"]

KeyTable == [Keys -> KeyInfo \cup {Unissued, Revoked}]

InUse(i) == i # Absent /\ ~i.deleted

Has(i, k) == i # Absent /\ i.key = k

\* An instance's key is its own, and live.
KeyOk(i, u, ks) ==
    InUse(i) /\ i.key # NoKey => i.key \in Keys /\ ks[i.key].state = "live" /\ ks[i.key].uid = u

\* Keys that a resource has in common with the row of the same instance, which
\* operator/migrate.py leaves as it is when it makes the resource from it.
Doubled(is) == {k \in Keys : \E u \in Uids : \A s \in Stores : Has(is[s][u], k)}

\* Nothing has gone wrong yet: a key is in one instance, which it is live for, and
\* has the policy of it; migrate.py, though, does not copy the policy.
AllInOrder(is, ks) ==
    \A k \in Keys, s \in Stores, u \in Uids :
        /\ Has(is[s][u], k) =>
              /\ ks[k] # Unissued
              /\ \A t \in Stores, v \in Uids : Has(is[t][v], k) => v = u
              /\ ks[k].state = "live" =>
                    ks[k].uid = u /\ (ks[k].policy = is[s][u].policy \/ k \in Doubled(is))
        /\ ks[k].state = "live" => \E t \in Stores : Has(is[t][ks[k].uid], k) /\ InUse(is[t][ks[k].uid])

ASSUME RegistryAssumptions ==
    /\ MaxUid \in Nat \ {0}
    /\ Keys \subseteq Nat \ {NoKey}
    /\ DefaultPolicy \in Policies /\ "same" \notin Policies
    /\ Kinds \subseteq AllKinds
    /\ InitStates \subseteq [inst: Instances, keys: KeyTable]
    /\ \A s \in InitStates :
          /\ \A u \in Uids, st \in Stores : KeyOk(s.inst[st][u], u, s.keys)
          /\ AllInOrder(s.inst, s.keys)
    /\ Faults \subseteq AllFaults
    /\ MaxFaults \in Nat

VARIABLES
    inst,     \* the instances, by store and uid
    keys,     \* LiteLLM's keys
    req,      \* the requests
    faults,   \* counter for the bound
    fresh,    \* history: requests whose instance nobody has written since they
              \* read it
    migrated, \* history: keys that a resource and a row had in common at first
    torn,     \* history: uids with a write that was made and reported as failed
    excused   \* history: uids where a request went by a copy out of date, wrote
              \* over an instance it had not read, could not take a step back,
              \* took one back while another request was under way, or died with
              \* a key in hand

vars == <<inst, keys, req, faults, fresh, migrated, torn, excused>>

-----------------------------------------------------------------------------
(* Types.                                                                  *)

Pcs == {"new", "dbmax", "list", "check", "read", "generate", "rekey", "post", "patch",
        "insert", "write", "drop", "undo", "revoke", "forget", "done"}

\* uid: 0 until it is chosen; auto: the service chooses it, knowing the rows and
\* the resources, of which seen were there; left: items of an import after this
\* one; provider, policy: what is asked for; copy: the instance as it was read;
\* key: the key generated; rekeyed: the key that was read has been updated.
Request ==
    [pc: Pcs, kind: AllKinds, store: Stores, uid: Uids \cup {0}, auto: BOOLEAN,
     seen: SUBSET Uids, left: {0, 1}, provider: Providers \cup {"same"}, policy: Policies \cup {"same"},
     copy: Instance \cup {Absent}, key: Keys \cup {NoKey}, rekeyed: BOOLEAN, purge: BOOLEAN]

TypeOK ==
    /\ inst \in Instances
    /\ keys \in KeyTable
    /\ req \in [Requests -> Request]
    /\ faults \in 0..MaxFaults
    /\ fresh \in SUBSET Requests
    /\ migrated \in SUBSET Keys
    /\ torn \in SUBSET Uids
    /\ excused \in SUBSET Uids

-----------------------------------------------------------------------------
NewRequest ==
    [pc |-> "new", kind |-> "create", store |-> "her", uid |-> 0, auto |-> FALSE, seen |-> {},
     left |-> 0, provider |-> "same", policy |-> "same", copy |-> Absent, key |-> NoKey,
     rekeyed |-> FALSE, purge |-> FALSE]

Init ==
    /\ \E s \in InitStates : inst = s.inst /\ keys = s.keys
    /\ req = [r \in Requests |-> NewRequest]
    /\ faults = 0
    /\ fresh = {}
    /\ migrated = Doubled(inst)
    /\ torn = {}
    /\ excused = {}

\* A call fails and the bound still allows it.
Fault(kind) == kind \in Faults /\ faults < MaxFaults /\ faults' = faults + 1

Becomes(r, q) == req' = [req EXCEPT ![r] = q]

Goes(r, pc) == Becomes(r, [req[r] EXCEPT !.pc = pc])

Creates(q) == q.kind \in {"create", "import"}

\* The first call for an item with this provider.
FirstCall(provider) == IF provider = "litellm" THEN "generate" ELSE "post"

\* The request is over, or its next item begins.
Over(q) ==
    IF q.left = 0 \/ q.uid = MaxUid THEN [q EXCEPT !.pc = "done"]
    ELSE [q EXCEPT !.pc = FirstCall(q.provider), !.uid = q.uid + 1, !.left = 0, !.key = NoKey]

Ends(r) == Becomes(r, Over(req[r]))

\* A write has failed: what was done at LiteLLM is taken back.
Fails(r) == IF req[r].key # NoKey \/ req[r].rekeyed THEN Goes(r, "undo") ELSE Ends(r)

Here(r) == inst[req[r].store][req[r].uid]

\* What request r has read is out of date, or was for a while.
Stale(r) == r \notin fresh

Active(r) == req[r].pc \notin {"new", "done"}

\* Another request is under way for the same instance.
Shared(r) == \E o \in Requests \ {r} : Active(o) /\ req[o].uid = req[r].uid

Put(s, u, i) ==
    /\ inst' = [inst EXCEPT ![s] = [@ EXCEPT ![u] = i]]
    /\ fresh' = fresh \ {o \in Requests : req[o].store = s /\ req[o].uid = u}

Reads(r) == fresh' = fresh \cup {r}

Excuse(u, b) == excused' = IF b THEN excused \cup {u} ELSE excused

-----------------------------------------------------------------------------
(* Requests arrive.                                                        *)

BeginCreate(r) ==
    /\ req[r].pc = "new"
    /\ \E p \in Providers, pol \in Policies :
       \/ /\ "create" \in Kinds
          /\ \E u \in Uids :
                Becomes(r, [req[r] EXCEPT !.pc = FirstCall(p), !.uid = u, !.provider = p, !.policy = pol])
       \/ \E kind \in Kinds \cap {"create", "import"} :
             Becomes(r, [req[r] EXCEPT !.pc = "dbmax", !.kind = kind, !.auto = TRUE, !.provider = p,
                            !.policy = pol, !.left = IF kind = "import" THEN 1 ELSE 0])
    /\ UNCHANGED <<inst, keys, faults, fresh, torn, excused>>

BeginOther(r) ==
    /\ req[r].pc = "new"
    /\ \E u \in Uids :
       \/ /\ "update" \in Kinds
          /\ \E p \in Providers \cup {"same"}, pol \in Policies \cup {"same"} :
                /\ <<p, pol>> # <<"same", "same">>
                /\ Becomes(r, [req[r] EXCEPT !.pc = "check", !.kind = "update", !.uid = u,
                                  !.provider = p, !.policy = pol])
       \/ /\ "keygen" \in Kinds
          /\ Becomes(r, [req[r] EXCEPT !.pc = "read", !.kind = "keygen", !.uid = u])
       \/ /\ "delete" \in Kinds
          /\ \E purge \in BOOLEAN :
                Becomes(r, [req[r] EXCEPT !.pc = "check", !.kind = "delete", !.uid = u, !.purge = purge])
    /\ UNCHANGED <<inst, keys, faults, fresh, torn, excused>>

-----------------------------------------------------------------------------
(* Creation: the next uid of the database, then the one of the cluster.    *)

Used(s) == {u \in Uids : inst[s][u] # Absent}

\* u is the greatest member of S, or 0.
IsTop(u, S) == u \in S \cup {0} /\ \A v \in S : v <= u

ReadMax(r) ==
    /\ req[r].pc = "dbmax"
    /\ \E u \in Uids \cup {0} :
          /\ IsTop(u, Used("row"))
          /\ IF u + 1 \in Uids
             THEN Becomes(r, [req[r] EXCEPT !.pc = "list", !.uid = u + 1])
             ELSE Goes(r, "done")
    /\ UNCHANGED <<inst, keys, faults, fresh, torn, excused>>

\* A failed listing is ignored.
ListHers(r) ==
    /\ req[r].pc = "list"
    /\ \/ \E u \in Uids \cup {0} :
             /\ IsTop(u, Used("her"))
             /\ LET v == IF req[r].uid > u THEN req[r].uid ELSE u + 1
                IN  IF v \in Uids
                    THEN Becomes(r, [req[r] EXCEPT !.pc = FirstCall(req[r].provider), !.uid = v, !.seen = Used("her")])
                    ELSE Goes(r, "done")
          /\ UNCHANGED faults
       \/ /\ Fault("list")
          /\ Becomes(r, [req[r] EXCEPT !.pc = FirstCall(req[r].provider), !.auto = FALSE])
    /\ UNCHANGED <<inst, keys, fresh, torn, excused>>

\* The instance a creation asks for.
Wanted(r) ==
    [provider |-> req[r].provider, key |-> req[r].key, policy |-> req[r].policy, deleted |-> FALSE]

PostHer(r) ==
    /\ req[r].pc = "post"
    /\ \/ /\ inst["her"][req[r].uid] = Absent
          /\ Put("her", req[r].uid, Wanted(r))
          /\ \/ Ends(r) /\ UNCHANGED <<faults, torn>>
             \/ Fault("lost") /\ Fails(r) /\ torn' = torn \cup {req[r].uid}
          /\ UNCHANGED excused
       \/ /\ inst["her"][req[r].uid] # Absent
          /\ Goes(r, "patch")
          /\ UNCHANGED <<inst, faults, fresh, torn, excused>>
       \/ Fault("nocrd") /\ Goes(r, "insert") /\ UNCHANGED <<inst, fresh, torn, excused>>
       \/ Fault("write") /\ Fails(r) /\ UNCHANGED <<inst, fresh, torn, excused>>
    /\ UNCHANGED keys

\* A creation refused with 409 patches the whole spec of what is there.
PatchHer(r) ==
    /\ req[r].pc = "patch"
    /\ \/ /\ inst["her"][req[r].uid] # Absent
          /\ Put("her", req[r].uid, Wanted(r))
          /\ \/ Ends(r) /\ UNCHANGED <<faults, torn>>
             \/ Fault("lost") /\ Fails(r) /\ torn' = torn \cup {req[r].uid}
          /\ Excuse(req[r].uid, TRUE)
       \/ /\ inst["her"][req[r].uid] = Absent
          /\ Goes(r, "insert")
          /\ UNCHANGED <<inst, faults, fresh, torn, excused>>
       \/ Fault("write") /\ Fails(r) /\ UNCHANGED <<inst, fresh, torn, excused>>
    /\ UNCHANGED keys

\* The legacy path of a creation answered 404.
InsertRow(r) ==
    /\ req[r].pc = "insert"
    /\ \/ /\ inst["row"][req[r].uid] = Absent
          /\ Put("row", req[r].uid, Wanted(r))
          /\ \/ Ends(r) /\ UNCHANGED <<faults, torn>>
             \/ Fault("lost") /\ Fails(r) /\ torn' = torn \cup {req[r].uid}
       \/ inst["row"][req[r].uid] # Absent /\ Fails(r) /\ UNCHANGED <<inst, fresh, faults, torn>>
       \/ Fault("write") /\ Fails(r) /\ UNCHANGED <<inst, fresh, torn>>
    /\ UNCHANGED <<keys, excused>>

-----------------------------------------------------------------------------
(* Update, key generation and deletion look where the instance is.         *)

HasCrd(r) ==
    /\ req[r].pc = "check"
    /\ \E s \in Stores :
          /\ s = "her" <=> inst["her"][req[r].uid] # Absent
          /\ Becomes(r, [req[r] EXCEPT !.pc = "read", !.store = s])
    /\ UNCHANGED <<inst, keys, faults, fresh, torn, excused>>

NextProvider(q, i) == IF q.provider = "same" THEN i.provider ELSE q.provider
NextPolicy(q, i) == IF q.policy = "same" THEN i.policy ELSE q.policy

\* A resource that has gone since is read as one without a key.
Blank == [provider |-> "other", key |-> NoKey, policy |-> DefaultPolicy, deleted |-> FALSE]

AsRead(r) == IF Here(r) = Absent THEN Blank ELSE Here(r)

ReadForUpdate(r) ==
    /\ req[r].pc = "read" /\ req[r].kind = "update"
    /\ IF Here(r) = Absent /\ req[r].store = "row" THEN Ends(r)
       ELSE LET i       == AsRead(r)
                litellm == NextProvider(req[r], i) = "litellm"
                changes == i.provider # "litellm" \/ NextPolicy(req[r], i) # i.policy
            IN  Becomes(r, [req[r] EXCEPT !.copy = i,
                    !.pc = CASE litellm /\ i.key = NoKey -> "generate"
                             [] litellm /\ i.key # NoKey /\ changes -> "rekey"
                             [] OTHER -> "write"])
    /\ Reads(r)
    /\ UNCHANGED <<inst, keys, faults, torn, excused>>

\* The resource, or the row when there is none; only a litellm instance that
\* has no key gets one.  A batch does this for each instance, all read at first.
ReadForKeygen(r) ==
    /\ req[r].pc = "read" /\ req[r].kind = "keygen"
    /\ \E s \in Stores :
          /\ s = "her" <=> inst["her"][req[r].uid] # Absent
          /\ LET i == inst[s][req[r].uid] IN
             IF i # Absent /\ i.provider = "litellm" /\ i.key = NoKey
             THEN Becomes(r, [req[r] EXCEPT !.store = s, !.copy = i, !.pc = "generate"])
             ELSE Ends(r)
    /\ Reads(r)
    /\ UNCHANGED <<inst, keys, faults, torn, excused>>

ReadForDelete(r) ==
    /\ req[r].pc = "read" /\ req[r].kind = "delete"
    /\ Becomes(r, [req[r] EXCEPT !.copy = Here(r), !.pc = "drop"])
    /\ Reads(r)
    /\ UNCHANGED <<inst, keys, faults, torn, excused>>

-----------------------------------------------------------------------------
(* LiteLLM.                                                                *)

IsNextKey(k) == keys[k] = Unissued /\ \A j \in Keys : keys[j] = Unissued => k <= j

AskedPolicy(q) == IF Creates(q) THEN q.policy
                  ELSE IF q.kind = "update" THEN NextPolicy(q, q.copy) ELSE q.copy.policy

Issue(r, k) ==
    /\ IsNextKey(k)
    /\ keys' = [keys EXCEPT ![k] = [state |-> "live", uid |-> req[r].uid, policy |-> AskedPolicy(req[r])]]

\* A key may have been made although the call has failed.
GenerateKey(r) ==
    /\ req[r].pc = "generate"
    /\ \E k \in Keys :
          \/ /\ Issue(r, k)
             /\ Becomes(r, [req[r] EXCEPT !.key = k, !.pc = IF Creates(req[r]) THEN "post" ELSE "write"])
             /\ UNCHANGED <<faults, excused>>
          \/ /\ Fault("litellm")
             /\ Ends(r)
             /\ \/ UNCHANGED <<keys, excused>>
                \/ Issue(r, k) /\ Excuse(req[r].uid, TRUE)
    /\ UNCHANGED <<inst, fresh, torn>>

SetPolicy(k, pol) ==
    keys' = IF keys[k].state = "live" THEN [keys EXCEPT ![k] = [@ EXCEPT !.policy = pol]] ELSE keys

\* A key that is no longer there cannot be updated.
UpdateKey(r) ==
    /\ req[r].pc = "rekey"
    /\ \/ /\ keys[req[r].copy.key].state = "live"
          /\ SetPolicy(req[r].copy.key, NextPolicy(req[r], req[r].copy))
          /\ Becomes(r, [req[r] EXCEPT !.rekeyed = TRUE, !.pc = "write"])
          /\ UNCHANGED <<faults, excused>>
       \/ /\ keys[req[r].copy.key].state # "live"
          /\ Ends(r)
          /\ UNCHANGED <<keys, faults, excused>>
       \/ /\ Fault("litellm")
          /\ Ends(r)
          /\ \/ UNCHANGED <<keys, excused>>
             \/ /\ SetPolicy(req[r].copy.key, NextPolicy(req[r], req[r].copy))
                /\ Excuse(req[r].uid, TRUE)
    /\ UNCHANGED <<inst, fresh, torn>>

\* Mutant: a failed write leaves the key generated for it.
UndoRekeyOnly(r) ==
    /\ req[r].pc = "undo"
    /\ \/ /\ req[r].key = NoKey
          /\ SetPolicy(req[r].copy.key, req[r].copy.policy)
          /\ Excuse(req[r].uid, Stale(r) \/ Shared(r))
          /\ UNCHANGED faults
       \/ req[r].key # NoKey /\ UNCHANGED <<keys, excused, faults>>
       \/ Fault("litellm") /\ Excuse(req[r].uid, TRUE) /\ UNCHANGED keys
    /\ Ends(r)
    /\ UNCHANGED <<inst, fresh, torn>>

\* Mutant: a failed write leaves the key that was updated as it is.
UndoGeneratedOnly(r) ==
    /\ req[r].pc = "undo"
    /\ \/ /\ keys' = IF req[r].key # NoKey THEN [keys EXCEPT ![req[r].key] = Revoked] ELSE keys
          /\ UNCHANGED <<excused, faults>>
       \/ Fault("litellm") /\ Excuse(req[r].uid, TRUE) /\ UNCHANGED keys
    /\ Ends(r)
    /\ UNCHANGED <<inst, fresh, torn>>

\* The key generated is deleted, or else the key updated gets its policy back.
UndoKey(r) ==
    /\ req[r].pc = "undo"
    /\ \/ /\ req[r].key # NoKey
          /\ keys' = [keys EXCEPT ![req[r].key] = Revoked]
          /\ UNCHANGED <<excused, faults>>
       \/ /\ req[r].key = NoKey
          /\ SetPolicy(req[r].copy.key, req[r].copy.policy)
          /\ Excuse(req[r].uid, Stale(r) \/ Shared(r))
          /\ UNCHANGED faults
       \/ Fault("litellm") /\ Excuse(req[r].uid, TRUE) /\ UNCHANGED keys
    /\ Ends(r)
    /\ UNCHANGED <<inst, fresh, torn>>

\* The key an update took out of the instance, or that of a deleted instance.
RevokeOld(r) ==
    /\ req[r].pc = "revoke"
    /\ \/ /\ keys' = [keys EXCEPT ![req[r].copy.key] = Revoked]
          /\ UNCHANGED <<excused, faults>>
       \/ Fault("litellm") /\ Excuse(req[r].uid, TRUE) /\ UNCHANGED keys
    /\ IF req[r].kind = "delete" /\ req[r].store = "her" THEN Goes(r, "forget") ELSE Ends(r)
    /\ UNCHANGED <<inst, fresh, torn>>

-----------------------------------------------------------------------------
(* Writing the changes, deleting.                                          *)

\* The key an update takes out.
Clears(q) == q.kind = "update" /\ NextProvider(q, q.copy) # "litellm" /\ q.copy.key # NoKey

\* Mutants: an empty key is not written; a policy that is not asked for is.
ChangedNeverEmpty(q, i) ==
    [i EXCEPT !.provider = IF q.provider = "same" THEN @ ELSE q.provider,
              !.policy = IF q.policy = "same" THEN @ ELSE q.policy,
              !.key = IF q.key # NoKey THEN q.key ELSE @]

ChangedUnasked(q, i) ==
    [i EXCEPT !.provider = IF q.provider = "same" THEN @ ELSE q.provider,
              !.policy = q.policy,
              !.key = IF q.key # NoKey THEN q.key ELSE IF Clears(q) THEN NoKey ELSE @]

\* Only fields that change are written; the policy is one of them when the
\* provider becomes litellm.
Changed(q, i) ==
    IF q.kind = "keygen" THEN [i EXCEPT !.key = q.key]
    ELSE [i EXCEPT
            !.provider = IF q.provider = "same" THEN @ ELSE q.provider,
            !.policy = IF q.policy # "same" THEN q.policy
                       ELSE IF NextProvider(q, q.copy) = "litellm" /\ q.copy.provider # "litellm"
                       THEN q.copy.policy ELSE @,
            !.key = IF q.key # NoKey THEN q.key ELSE IF Clears(q) THEN NoKey ELSE @]

\* A row is changed even when it is that of a deleted instance.
WriteChanges(r) ==
    /\ req[r].pc = "write"
    /\ \/ /\ Here(r) # Absent
          /\ Put(req[r].store, req[r].uid, Changed(req[r], Here(r)))
          /\ \/ /\ IF Clears(req[r]) THEN Goes(r, "revoke") ELSE Ends(r)
                /\ Excuse(req[r].uid, Stale(r) \/ Here(r).deleted)
                /\ UNCHANGED <<faults, torn>>
             \/ /\ Fault("lost")
                /\ Fails(r)
                /\ torn' = torn \cup {req[r].uid}
                /\ Excuse(req[r].uid, TRUE)
       \/ Here(r) = Absent /\ Fails(r) /\ UNCHANGED <<inst, faults, fresh, torn, excused>>
       \/ Fault("write") /\ Fails(r) /\ UNCHANGED <<inst, fresh, torn, excused>>
    /\ UNCHANGED keys

\* The row stays as a tombstone, key and all, unless it is purged.
DropRow(r) ==
    LET i == inst["row"][req[r].uid] IN
    IF i = Absent THEN UNCHANGED <<inst, fresh>>
    ELSE Put("row", req[r].uid, IF req[r].purge THEN Absent ELSE [i EXCEPT !.deleted = TRUE])

KeyOrForget(r) ==
    CASE req[r].copy # Absent /\ req[r].copy.key # NoKey -> Goes(r, "revoke")
      [] req[r].store = "her" /\ (req[r].copy = Absent \/ req[r].copy.key = NoKey) -> Goes(r, "forget")
      [] OTHER -> Ends(r)

Drop(r) ==
    /\ req[r].pc = "drop"
    /\ \/ /\ IF req[r].store = "her" THEN Put("her", req[r].uid, Absent) ELSE DropRow(r)
          /\ \/ KeyOrForget(r) /\ Excuse(req[r].uid, Stale(r)) /\ UNCHANGED faults
             \/ /\ Fault("lost")
                /\ Ends(r)
                /\ Excuse(req[r].uid, TRUE)
       \/ Fault("write") /\ Ends(r) /\ UNCHANGED <<inst, fresh, excused>>
    /\ UNCHANGED <<keys, torn>>

\* After the resource, the row of the same uid, if any, whatever its key; an
\* error is ignored.
Forget(r) ==
    /\ req[r].pc = "forget"
    /\ \/ DropRow(r) /\ UNCHANGED faults
       \/ Fault("write") /\ UNCHANGED <<inst, fresh>>
    /\ Excuse(req[r].uid, InUse(inst["row"][req[r].uid]))
    /\ Ends(r)
    /\ UNCHANGED <<keys, torn>>

-----------------------------------------------------------------------------
InHand(q) == q.key # NoKey \/ q.rekeyed \/ q.pc = "revoke"

\* The process dies, and every request under way with it.
Crash ==
    /\ Fault("crash")
    /\ req' = [r \in Requests |-> IF Active(r) THEN [req[r] EXCEPT !.pc = "done"] ELSE req[r]]
    /\ excused' = excused \cup {u \in Uids : \E r \in Requests : Active(r) /\ InHand(req[r]) /\ req[r].uid = u}
    /\ UNCHANGED <<inst, keys, fresh, torn>>

Step(r) ==
    \/ BeginCreate(r) \/ BeginOther(r)
    \/ ReadMax(r) \/ ListHers(r) \/ PostHer(r) \/ PatchHer(r) \/ InsertRow(r)
    \/ HasCrd(r) \/ ReadForUpdate(r) \/ ReadForKeygen(r) \/ ReadForDelete(r)
    \/ GenerateKey(r) \/ UpdateKey(r) \/ UndoKey(r) \/ RevokeOld(r)
    \/ WriteChanges(r) \/ Drop(r) \/ Forget(r)

Next ==
    /\ Crash \/ \E r \in Requests : Step(r)
    /\ UNCHANGED migrated

Spec == Init /\ [][Next]_vars

-----------------------------------------------------------------------------
(* Properties.                                                             *)

\* However requests on one instance interleave and whichever calls fail, an
\* instance in use holds no key that has been deleted or issued for another
\* one: requests delete only keys they generated and could not write, and keys
\* they have seen taken out of the instance.  Excepted are instances with a
\* write that was made and reported as failed, and a row that migrate.py left in
\* use beside a resource with its key, once the resource no longer has the key:
\* it is deleted with the resource, or when that changes its provider, and nobody
\* looks at the row, not even if its deletion fails (main.py:1408).
KeyIsLive ==
    \A u \in Uids \ torn, s \in Stores :
       LET i == inst[s][u]
       IN  \/ KeyOk(i, u, keys)
           \/ /\ s = "row" /\ i.key \in migrated
              /\ ~(InUse(inst["her"][u]) /\ Has(inst["her"][u], i.key))

Held(k) ==
    \E r \in Requests :
       Active(r) /\ (req[r].key = k \/ (req[r].copy # Absent /\ req[r].copy.key = k))

\* A failure on the way, at whatever call, loses no key: one that LiteLLM still
\* honours is in its instance or in the hands of a request, unless a request
\* went by an outdated copy, could not take its step back, or died with the
\* process while it had a key in hand.
NoKeyLost ==
    \A k \in Keys : keys[k].state = "live" =>
       LET u == keys[k].uid IN
       \/ \E s \in Stores : InUse(inst[s][u]) /\ inst[s][u].key = k
       \/ Held(k)
       \/ u \in excused \cup torn

\* Between requests a key has the route policy of its instance, although the
\* two are changed one after the other and either change may fail.  Nothing is said
\* of a key migrate.py took over: it gives the resource no policy.
PolicyAgrees ==
    \A u \in Uids \ (excused \cup torn), s \in Stores :
       LET i == inst[s][u] IN
       InUse(i) /\ i.key \notin {NoKey} \cup migrated /\ (\A r \in Requests : Active(r) => req[r].uid # u)
          => keys[i.key].policy = i.policy

=============================================================================
