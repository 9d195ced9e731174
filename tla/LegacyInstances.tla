-------------------------- MODULE LegacyInstances --------------------------
(***************************************************************************)
(* Instances without a HerInstance resource: a row of her_instances, the   *)
(* ConfigMap and the pod that the admin service makes of it by itself      *)
(* (backend/main.py, legacy paths), the worker that writes the ConfigMaps  *)
(* that are still pending and saves the database (sync_worker.py), and the *)
(* database with its backup on the NAS (database.py).                      *)
(*                                                                         *)
(* Requests are threads, restart a coroutine of the event loop; the worker *)
(* and the backup loop are coroutines too, and do not wait between the     *)
(* calls of one round, so that only threads come in between.  A request    *)
(* and the worker write what they have read before, without looking again. *)
(*                                                                         *)
(* The process may die at any point; the database file may be lost with it *)
(* and is then restored from the backup.  The "dirty" flag that asks for a *)
(* backup is a variable of the process.                                    *)
(***************************************************************************)
EXTENDS Naturals

CONSTANTS
    Uids,        \* instance ids
    Configs,     \* what a row says of an instance
    NoConfig,    \* no ConfigMap
    Requests,    \* the requests that are served, each once
    Kinds,       \* what they ask for: subset of AllKinds
    Faults,      \* what goes wrong: subset of AllFaults
    MaxFaults    \* bound: how often

AllKinds == {"create", "import", "update", "redeploy", "start", "stop", "restart", "delete", "force"}

AllFaults == {"k8s", "db", "nas", "crd", "crash", "loss"}

ASSUME LegacyAssumptions ==
    /\ NoConfig \notin Configs
    /\ Kinds \subseteq AllKinds
    /\ Faults \subseteq AllFaults
    /\ MaxFaults \in Nat

VARIABLES
    row,      \* the row of each instance
    cm,       \* the config in its ConfigMap
    pod,      \* the instances that have a pod
    backup,   \* the rows in the backup
    dirty,    \* _backup_dirty
    req,      \* the requests
    worker,   \* the sync worker's round
    flush,    \* those in flush_backup that have cleared the flag: the loop, a request
    faults,   \* counter for the bound
    crossed,  \* history: instances written or marked from a copy that was out of date,
              \* written during their deletion, deleted by half, woken after it, or restored
    late,     \* history: the ConfigMaps and pods made after a deletion had removed them, by
              \* somebody asked to or with a copy from before it, and those of restored rows
    missed    \* history: the flag was cleared or lost, and no backup made since

vars == <<row, cm, pod, backup, dirty, req, worker, flush, faults, crossed, late, missed>>

-----------------------------------------------------------------------------
(* Types.                                                                  *)

Row == [cfg: Configs, sync: {"pending", "synced"}, status: {"running", "stopped", "deleted"}]

Absent == [status |-> "absent"]

Rows == [Uids -> Row \cup {Absent}]

\* What the database says of an instance, but for the sync flag.
Content(i) == IF i = Absent THEN Absent ELSE [cfg |-> i.cfg, status |-> i.status]

\* A row that was read and whose config is still to be written.
Copy == [uid: Uids, cfg: Configs, status: {"running", "stopped", "deleted"}]

NoCopy == [uid |-> 0]

Pcs == {"new", "unpod", "sleep", "uncm", "apply", "mark", "pod", "status", "repend",
        "flush", "done"}

\* todo: the copies still to be written, at: the one being written.
Request == [pc: Pcs, kind: AllKinds, uid: Uids \cup {0}, todo: SUBSET Copy, at: Copy \cup {NoCopy}]

Worker == [pc: {"idle", "apply", "mark", "flush"}, todo: SUBSET Copy, at: Copy \cup {NoCopy}]

\* All but the history of deletions.
StateOK ==
    /\ row \in Rows
    /\ cm \in [Uids -> Configs \cup {NoConfig}]
    /\ pod \in SUBSET Uids
    /\ backup \in Rows
    /\ dirty \in BOOLEAN
    /\ req \in [Requests -> Request]
    /\ worker \in Worker
    /\ flush \in SUBSET ({"loop"} \cup Requests)
    /\ faults \in 0..MaxFaults
    /\ crossed \in SUBSET Uids
    /\ missed \in BOOLEAN

TypeOK == StateOK /\ late \in SUBSET ({"cm", "pod"} \X Uids)

-----------------------------------------------------------------------------
IdleWorker == [pc |-> "idle", todo |-> {}, at |-> NoCopy]

Starts(pc, kind, uid, todo) == [pc |-> pc, kind |-> kind, uid |-> uid, todo |-> todo, at |-> NoCopy]

NewRequest == Starts("new", "update", 0, {})

\* The service starts with an instance or none, in order and saved.
Init ==
    /\ row \in [Uids -> [cfg: Configs, sync: {"synced"}, status: {"running"}] \cup {Absent}]
    /\ cm = [u \in Uids |-> IF row[u] = Absent THEN NoConfig ELSE row[u].cfg]
    /\ pod = {u \in Uids : row[u] # Absent}
    /\ backup = row
    /\ dirty = FALSE
    /\ req = [r \in Requests |-> NewRequest]
    /\ worker = IdleWorker
    /\ flush = {}
    /\ faults = 0
    /\ crossed = {}
    /\ late = {}
    /\ missed = FALSE

Fault(kind) == kind \in Faults /\ faults < MaxFaults /\ faults' = faults + 1

Active(r) == req[r].pc \notin {"new", "done"}

Deleting(u) == \E r \in Requests : Active(r) /\ req[r].kind = "delete" /\ req[r].uid = u

\* What a deletion of u has removed for good: all of it, the pod first.
Removal(thing, u) ==
    \/ row[u].status = "deleted"
    \/ \E r \in Requests :
          /\ req[r].kind = "delete" /\ req[r].uid = u
          /\ req[r].pc \in (IF thing = "pod" THEN {"uncm", "status"} ELSE {"status"})

Made(thing, u) ==
    late' = IF Removal(thing, u) THEN late \cup {<<thing, u>>} ELSE late

CopyOf(u) == [uid |-> u, cfg |-> row[u].cfg, status |-> row[u].status]

OutOfDate(c) == Content(row[c.uid]) # [cfg |-> c.cfg, status |-> c.status]

Holds(c) ==
    \/ \E r \in Requests : c \in req[r].todo \cup {req[r].at}
    \/ c \in worker.todo \cup {worker.at}

\* When u's row becomes i, a copy that was out of date looks current again.
Revives(u, i) ==
    /\ i # Absent /\ Content(i) # Content(row[u])
    /\ Holds([uid |-> u, cfg |-> i.cfg, status |-> i.status])

Cross(u, b) == crossed' = IF b THEN crossed \cup {u} ELSE crossed

Becomes(r, q) == req' = [req EXCEPT ![r] = q]

Goes(r, pc) == Becomes(r, [req[r] EXCEPT !.pc = pc])

SetSync(u, s) == row' = [row EXCEPT ![u] = IF @ = Absent THEN @ ELSE [@ EXCEPT !.sync = s]]

Database == <<row, backup, dirty, flush, missed>>
Cluster == <<cm, pod, late>>
Loops == <<worker, flush>>

-----------------------------------------------------------------------------
(* Requests: the first step reads the row, or writes it.                   *)

\* The row is inserted, marked pending.
Insert(r, u) ==
    /\ req[r].pc = "new"
    /\ row[u] = Absent
    /\ \E kind \in Kinds \cap {"create", "import"}, c \in Configs :
          /\ row' = [row EXCEPT ![u] = [cfg |-> c, sync |-> "pending", status |-> "running"]]
          /\ Becomes(r, Starts("apply", kind, u, {[uid |-> u, cfg |-> c, status |-> "running"]}))
    /\ Cross(u, Revives(u, row'[u]))
    /\ dirty' = TRUE
    /\ UNCHANGED <<Cluster, backup, Loops, faults, missed>>

\* Mutant: a changed row keeps its sync flag.
UpdateUnmarked(r, u) ==
    /\ req[r].pc = "new"
    /\ row[u] # Absent
    /\ \E kind \in Kinds \cap {"update", "redeploy"}, c \in Configs \ {row[u].cfg} :
          /\ row' = [row EXCEPT ![u] = [@ EXCEPT !.cfg = c]]
          /\ Becomes(r, Starts("apply", kind, u, {[uid |-> u, cfg |-> c, status |-> row[u].status]}))
    /\ Cross(u, row[u].status = "deleted" \/ Revives(u, row'[u]))
    /\ dirty' = TRUE
    /\ UNCHANGED <<Cluster, backup, Loops, faults, missed>>

\* db.update and the row it returns; "redeploy" changes the image or the prefix.
Update(r, u) ==
    /\ req[r].pc = "new"
    /\ row[u] # Absent
    /\ \E kind \in Kinds \cap {"update", "redeploy"}, c \in Configs \ {row[u].cfg} :
          /\ row' = [row EXCEPT ![u] = [@ EXCEPT !.cfg = c, !.sync = "pending"]]
          /\ Becomes(r, Starts("apply", kind, u, {[uid |-> u, cfg |-> c, status |-> row[u].status]}))
    /\ Cross(u, row[u].status = "deleted" \/ Revives(u, row'[u]))
    /\ dirty' = TRUE
    /\ UNCHANGED <<Cluster, backup, Loops, faults, missed>>

\* Start and restart go by the row, whatever its status.
Wake(r, u) ==
    /\ req[r].pc = "new"
    /\ row[u] # Absent
    /\ \E kind \in Kinds \cap {"start", "restart"} :
          Becomes(r, Starts(IF kind = "start" THEN "apply" ELSE "unpod", kind, u, {CopyOf(u)}))
    /\ Cross(u, row[u].status = "deleted")
    /\ UNCHANGED <<Database, Cluster, worker, faults>>

\* Stop and delete begin with the pod and do not ask for a row.
Halt(r, u) ==
    /\ req[r].pc = "new"
    /\ \E kind \in Kinds \cap {"stop", "delete"} :
          Becomes(r, Starts("unpod", kind, u, {}))
    /\ UNCHANGED <<Database, Cluster, worker, faults, crossed>>

\* sync_all: every row that is not that of a deleted instance; nothing is done
\* when the resources cannot be listed.
ForceSync(r) ==
    /\ req[r].pc = "new" /\ "force" \in Kinds
    /\ LET todo == {CopyOf(u) : u \in {v \in Uids : row[v].status \in {"running", "stopped"}}}
       IN  Becomes(r, Starts(IF todo = {} THEN "done" ELSE "apply", "force", 0, todo))
    /\ UNCHANGED <<Database, Cluster, worker, faults, crossed>>

-----------------------------------------------------------------------------
(* Requests: the cluster and the database, one call after the other.       *)

\* The loop runs no other coroutine: none is between two calls.
LoopFree ==
    /\ worker.pc = "idle" /\ "loop" \notin flush
    /\ \A r \in Requests : req[r].kind = "restart" => req[r].pc \notin {"apply", "mark", "pod"}

\* What follows the failure of a call: a creation notes that it is pending, an
\* import goes on to its backup, a forced sync to the next instance.
AfterFailure(q) ==
    CASE q.kind = "create" -> [q EXCEPT !.pc = "repend", !.at = NoCopy]
      [] q.kind = "import" -> [q EXCEPT !.pc = "flush", !.at = NoCopy]
      [] q.kind = "force" -> [q EXCEPT !.pc = IF q.todo = {} THEN "done" ELSE "apply", !.at = NoCopy]
      [] OTHER -> [q EXCEPT !.pc = "done", !.todo = {}, !.at = NoCopy]

DeletePod(r) ==
    /\ req[r].pc = "unpod"
    /\ \/ /\ pod' = pod \ {req[r].uid}
          /\ late' = late \ {<<"pod", req[r].uid>>}
          /\ Goes(r, CASE req[r].kind = "restart" -> "sleep"
                       [] req[r].kind = "stop" -> "status"
                       [] OTHER -> "uncm")
          /\ UNCHANGED faults
       \/ Fault("k8s") /\ Becomes(r, AfterFailure(req[r])) /\ UNCHANGED <<pod, late>>
    /\ UNCHANGED <<Database, cm, worker, crossed>>

ConfigMapGoes(u) ==
    /\ cm' = [cm EXCEPT ![u] = NoConfig]
    /\ late' = late \ {<<"cm", u>>}

\* A deletion that fails here, or at the volume that a purge deletes next, leaves an
\* active row without its pod, and maybe without its ConfigMap.
DeleteConfigMap(r) ==
    /\ req[r].pc = "uncm"
    /\ \/ /\ ConfigMapGoes(req[r].uid)
          /\ Goes(r, "status")
          /\ UNCHANGED <<faults, crossed>>
       \/ /\ Fault("k8s")
          /\ ConfigMapGoes(req[r].uid) \/ UNCHANGED <<cm, late>>
          /\ Becomes(r, AfterFailure(req[r]))
          /\ Cross(req[r].uid, TRUE)
    /\ UNCHANGED <<Database, pod, worker>>

\* The two seconds of a restart are over.
Awake(r) ==
    /\ req[r].pc = "sleep" /\ LoopFree
    /\ Goes(r, "apply")
    /\ UNCHANGED <<Database, Cluster, worker, faults, crossed>>

\* The ConfigMap is written, by a request for this instance or, not bidden, by a
\* round over all of them.
Writes(c, bidden) ==
    /\ cm' = [cm EXCEPT ![c.uid] = c.cfg]
    /\ Cross(c.uid, OutOfDate(c) \/ Deleting(c.uid))
    /\ IF bidden \/ c.status # "deleted" THEN Made("cm", c.uid) ELSE UNCHANGED late

\* A write that fails may have been made.
WriteFails(c, bidden) ==
    /\ Fault("k8s")
    /\ Writes(c, bidden) \/ UNCHANGED <<cm, crossed, late>>

\* Request q when c has been written.
Written(q, c) == [q EXCEPT !.pc = "mark", !.todo = @ \ {c}, !.at = c]

Apply(r) ==
    /\ req[r].pc = "apply"
    /\ \E c \in req[r].todo :
          \/ /\ Writes(c, req[r].kind # "force")
             /\ Becomes(r, Written(req[r], c))
             /\ UNCHANGED faults
          \/ /\ WriteFails(c, req[r].kind # "force")
             /\ Becomes(r, AfterFailure([req[r] EXCEPT !.todo = @ \ {c}]))
    /\ UNCHANGED <<Database, pod, worker>>

Mark(r) ==
    /\ req[r].pc = "mark"
    /\ SetSync(req[r].at.uid, "synced")
    /\ Cross(req[r].at.uid, OutOfDate(req[r].at))
    /\ Becomes(r, [req[r] EXCEPT !.at = NoCopy,
                      !.pc = CASE req[r].kind = "force" -> IF req[r].todo = {} THEN "done" ELSE "apply"
                               [] req[r].kind = "update" -> "done"
                               [] OTHER -> "pod"])
    /\ UNCHANGED <<Cluster, backup, dirty, Loops, faults, missed>>

CreatePod(r) ==
    LET u == req[r].uid IN
    /\ req[r].pc = "pod"
    /\ \/ /\ pod' = pod \cup {u}
          /\ Goes(r, CASE req[r].kind = "start" -> "status"
                       [] req[r].kind = "import" -> "flush"
                       [] OTHER -> "done")
          /\ Cross(u, row[u].status \in {"absent", "deleted"} \/ Deleting(u))
          /\ Made("pod", u)
          /\ UNCHANGED faults
       \/ Fault("k8s") /\ Becomes(r, AfterFailure(req[r])) /\ UNCHANGED <<pod, crossed, late>>
    /\ UNCHANGED <<Database, cm, worker>>

StatusOf(kind) ==
    CASE kind = "start" -> "running" [] kind = "stop" -> "stopped" [] OTHER -> "deleted"

\* Mutant: a deletion is not saved.
SetStatusUnsaved(r) ==
    LET u == req[r].uid
        s == StatusOf(req[r].kind)
    IN  /\ req[r].pc = "status"
        /\ row' = [row EXCEPT ![u] = IF @ = Absent THEN @ ELSE [@ EXCEPT !.status = s]]
        /\ dirty' = (dirty \/ req[r].kind # "delete")
        /\ Goes(r, "done")
        /\ Cross(u, (row[u].status = "deleted" /\ s # "deleted") \/ Revives(u, row'[u]))
        /\ UNCHANGED <<Cluster, backup, Loops, faults, missed>>

\* The last step of start, stop and delete; a deleted instance's row stays, or
\* goes when its data is purged.
SetStatus(r) ==
    LET u == req[r].uid
        s == StatusOf(req[r].kind)
    IN  /\ req[r].pc = "status"
        /\ \/ row' = [row EXCEPT ![u] = IF @ = Absent THEN @ ELSE [@ EXCEPT !.status = s]]
           \/ req[r].kind = "delete" /\ row' = [row EXCEPT ![u] = Absent]
        /\ dirty' = TRUE
        /\ Goes(r, "done")
        /\ Cross(u, (row[u].status = "deleted" /\ s # "deleted") \/ Revives(u, row'[u]))
        /\ UNCHANGED <<Cluster, backup, Loops, faults, missed>>

\* The row cannot be written: a deletion leaves an active one, with nothing behind it.
SetStatusFails(r) ==
    /\ req[r].pc = "status" /\ Fault("db")
    /\ Goes(r, "done")
    /\ Cross(req[r].uid, req[r].kind = "delete")
    /\ UNCHANGED <<Database, Cluster, worker>>

\* Mutant: a status that nobody looks for.
RependFailed(r) ==
    /\ req[r].pc = "repend"
    /\ SetSync(req[r].uid, "failed")
    /\ Goes(r, "done")
    /\ UNCHANGED <<Cluster, backup, dirty, Loops, faults, crossed, missed>>

Repend(r) ==
    /\ req[r].pc = "repend"
    /\ SetSync(req[r].uid, "pending")
    /\ Goes(r, "done")
    /\ UNCHANGED <<Cluster, backup, dirty, Loops, faults, crossed, missed>>

-----------------------------------------------------------------------------
(* The sync worker.                                                        *)

\* Mutants: instances that are stopped are left out; deleted ones are not.
PendingAnyhow == {u \in Uids : row[u] # Absent /\ row[u].sync = "pending"}

PendingRunning == {u \in Uids : row[u].status = "running" /\ row[u].sync = "pending"}

Pending == {u \in Uids : row[u].status \in {"running", "stopped"} /\ row[u].sync = "pending"}

\* A round without anything pending, or without a list of the resources, ends
\* at once.
SyncRound ==
    /\ LoopFree
    /\ Pending # {}
    /\ \/ worker' = [worker EXCEPT !.pc = "apply", !.todo = {CopyOf(u) : u \in Pending}] /\ UNCHANGED faults
       \/ Fault("crd") /\ UNCHANGED worker
    /\ UNCHANGED <<Database, Cluster, req, crossed>>

NextCopy(todo) == [pc |-> IF todo = {} THEN "flush" ELSE "apply", todo |-> todo, at |-> NoCopy]

SyncApply ==
    /\ worker.pc = "apply"
    /\ \E c \in worker.todo :
          \/ /\ Writes(c, FALSE)
             /\ worker' = [pc |-> "mark", todo |-> worker.todo \ {c}, at |-> c]
             /\ UNCHANGED faults
          \/ WriteFails(c, FALSE) /\ worker' = NextCopy(worker.todo \ {c})
    /\ UNCHANGED <<Database, pod, req>>

SyncMark ==
    /\ worker.pc = "mark"
    /\ SetSync(worker.at.uid, "synced")
    /\ Cross(worker.at.uid, OutOfDate(worker.at))
    /\ worker' = NextCopy(worker.todo)
    /\ UNCHANGED <<Cluster, backup, dirty, req, flush, faults, missed>>

-----------------------------------------------------------------------------
(* The backup: the flag is cleared, then the database is copied.           *)

\* The end of a sync round, or the backup loop.
FlushLoop ==
    /\ worker.pc = "flush" \/ (LoopFree /\ dirty)
    /\ worker' = IdleWorker
    /\ dirty' = FALSE
    /\ flush' = IF dirty THEN flush \cup {"loop"} ELSE flush
    /\ UNCHANGED <<row, Cluster, backup, req, faults, crossed, missed>>

FlushImport(r) ==
    /\ req[r].pc = "flush"
    /\ Goes(r, "done")
    /\ dirty' = FALSE
    /\ flush' = IF dirty THEN flush \cup {r} ELSE flush
    /\ UNCHANGED <<row, Cluster, backup, worker, faults, crossed, missed>>

\* A copy that fails is not asked for again.
CopyToNas(f) ==
    /\ f \in flush
    /\ flush' = flush \ {f}
    /\ \/ backup' = row /\ missed' = FALSE /\ UNCHANGED faults
       \/ Fault("nas") /\ missed' = TRUE /\ UNCHANGED backup
    /\ UNCHANGED <<row, Cluster, dirty, req, worker, crossed>>

-----------------------------------------------------------------------------
(* The process dies, and starts again, with its database or without.       *)

Same(d, e) == \A u \in Uids : Content(d[u]) = Content(e[u])

Crash ==
    /\ req' = [r \in Requests |-> IF Active(r) THEN [NewRequest EXCEPT !.pc = "done"] ELSE req[r]]
    /\ worker' = IdleWorker
    /\ flush' = {}
    /\ dirty' = FALSE
    /\ \/ /\ Fault("crash")
          /\ missed' = (missed \/ ~Same(row, backup))
          /\ crossed' = crossed \cup {u \in Uids : Deleting(u)}
          /\ UNCHANGED <<row, late>>
       \/ /\ Fault("loss")
          /\ row' = backup
          /\ missed' = FALSE
          /\ crossed' = Uids
          /\ late' = late \cup ({"cm", "pod"} \X
                        {u \in Uids : backup[u].status = "deleted" /\ row[u].status # "deleted"})
    /\ UNCHANGED <<cm, pod, backup>>

-----------------------------------------------------------------------------
Begin(r) ==
    \/ \E u \in Uids : Insert(r, u) \/ Update(r, u) \/ Wake(r, u) \/ Halt(r, u)
    \/ ForceSync(r)

Continue(r) ==
    \/ DeletePod(r) \/ DeleteConfigMap(r) \/ Awake(r) \/ Apply(r) \/ Mark(r)
    \/ CreatePod(r) \/ SetStatus(r) \/ SetStatusFails(r) \/ Repend(r) \/ FlushImport(r)

Sync == SyncRound \/ SyncApply \/ SyncMark

Copying == \E f \in {"loop"} \cup Requests : CopyToNas(f)

Next ==
    \/ \E r \in Requests : Begin(r) \/ Continue(r)
    \/ Sync \/ FlushLoop \/ Copying \/ Crash

Spec == Init /\ [][Next]_vars

\* A request under way goes on, the two loops come round again and again.
FairSpec ==
    /\ Spec
    /\ \A r \in Requests : WF_vars(Continue(r))
    /\ WF_vars(Sync) /\ WF_vars(FlushLoop) /\ WF_vars(Copying)

-----------------------------------------------------------------------------
(* Properties.                                                             *)

Kept(u) == row[u].status \in {"running", "stopped"}

\* An instance whose ConfigMap is not the one of its row is marked pending, or is
\* being deleted: no failed call, whoever's, and no crash makes the service forget
\* a change.  Not so when somebody has gone by an older copy.
NothingForgotten ==
    \A u \in Uids \ crossed :
       Kept(u) /\ cm[u] # row[u].cfg => row[u].sync = "pending" \/ Deleting(u)

\* A deleted instance has no ConfigMap and no pod, whatever was written or started
\* while its deletion was still on its way.  What has been removed comes back only by
\* a request for this very instance, or by a round of the worker or a forced sync
\* that read the row before the deletion was recorded and does not look again; never
\* by a round that begins afterwards.  Nor is it so for a row restored as deleted.
DeletedIsGone ==
    \A u \in Uids : row[u].status = "deleted" =>
       /\ cm[u] = NoConfig \/ <<"cm", u>> \in late
       /\ u \notin pod \/ <<"pod", u>> \in late

\* The backup has the contents of the database, or one is due: a write never
\* escapes the flag, whatever flush comes between the write and the copy.  Not
\* so from a copy that failed, or a crash, to the next copy.
BackupCurrent == Same(row, backup) \/ dirty \/ flush # {} \/ missed

\* When failures end, the ConfigMap of every instance comes to be that of its
\* row, unless somebody has written an older copy.
SyncConverges ==
    \A u \in Uids : <>[](Kept(u) /\ u \notin crossed => cm[u] = row[u].cfg)

=============================================================================
