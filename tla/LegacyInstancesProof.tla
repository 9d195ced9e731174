------------------------ MODULE LegacyInstancesProof ------------------------
(***************************************************************************)
(* Proofs about LegacyInstances, for any instances, requests and faults.   *)
(*                                                                         *)
(* Whether an instance is marked pending says nothing of what the holders  *)
(* of copies of its row will still do.  The invariant says it: a copy that *)
(* has been written and is about to be marked synced is in the ConfigMap,  *)
(* or the row has changed since (MarkedIsWritten); a deletion finds gone   *)
(* what it has deleted (Deletions); a copy of a deleted instance's row is  *)
(* held for an instance that was woken only (CopiesOfDeleted).             *)
(*                                                                         *)
(* What a deletion has removed stays away (LateInv): from the moment it is *)
(* removed, and not only when the row says so, whoever makes it again is   *)
(* noted, and a round that starts later has no copy of it.                 *)
(***************************************************************************)
EXTENDS LegacyInstances, TLAPS

-----------------------------------------------------------------------------
(* The invariant.                                                          *)

Fit(q) ==
    /\ q.kind = "force" => q.pc \in {"apply", "mark", "done"}
    /\ q.kind # "force" /\ q.pc \notin {"new", "done"} => q.uid \in Uids
    /\ q.pc = "unpod" => q.kind \in {"stop", "delete", "restart"}
    /\ q.pc = "uncm" => q.kind = "delete"
    /\ q.pc = "status" => q.kind \in {"start", "stop", "delete"}
    /\ q.pc = "mark" => q.at \in Copy

Fits ==
    /\ \A r \in Requests : Fit(req[r])
    /\ worker.pc = "mark" => worker.at \in Copy

CopiesOfDeleted ==
    \A c \in Copy : Holds(c) /\ c.status = "deleted" => c.uid \in crossed

\* A deletion that has only its row left to do.
Removed(u) ==
    \E r \in Requests : req[r].pc = "status" /\ req[r].kind = "delete" /\ req[r].uid = u

\* Copies that are about to be marked synced.
Marks(c) ==
    \/ \E r \in Requests : req[r].pc = "mark" /\ req[r].at = c
    \/ worker.pc = "mark" /\ worker.at = c

InPlace(c) ==
    c.uid \in crossed \/ OutOfDate(c) \/ cm[c.uid] = c.cfg \/ Removed(c.uid)

MarkedIsWritten == \A c \in Copy : Marks(c) => InPlace(c)

Deletion(q) ==
    q.kind = "delete" /\ q.uid \in Uids \ crossed =>
        /\ q.pc = "uncm" => q.uid \notin pod
        /\ q.pc = "status" => q.uid \notin pod /\ cm[q.uid] = NoConfig

Deletions == \A r \in Requests : Deletion(req[r])

\* A deleted instance that nobody has crossed is gone.
GoneUncrossed ==
    \A u \in Uids \ crossed : row[u].status = "deleted" => cm[u] = NoConfig /\ u \notin pod

\* NothingForgotten, of which only the end of a deletion is an exception.
Followed ==
    \A u \in Uids \ crossed :
       Kept(u) /\ cm[u] # row[u].cfg => row[u].sync = "pending" \/ Removed(u)

IInv ==
    /\ StateOK
    /\ Fits /\ CopiesOfDeleted /\ MarkedIsWritten /\ Deletions
    /\ GoneUncrossed /\ Followed

-----------------------------------------------------------------------------
(* Rows and copies.                                                        *)

LEMMA RowProperties ==
    ASSUME NEW i \in Row \cup {Absent}
    PROVE  /\ i \in Row <=> i # Absent
           /\ i \in Row <=> i.status \in {"running", "stopped", "deleted"}
           /\ i = Absent <=> i.status = "absent"
    BY DEF Row, Absent

LEMMA ContentProperties ==
    ASSUME NEW i \in Row \cup {Absent}, NEW c \in Configs, NEW s \in {"running", "stopped", "deleted"}
    PROVE  Content(i) = [cfg |-> c, status |-> s] <=> i \in Row /\ i.cfg = c /\ i.status = s
<1>1. CASE i = Absent
    <2>1. Absent # [cfg |-> c, status |-> s]
        <3>1. Absent.status = "absent" /\ [cfg |-> c, status |-> s].status = s
            BY DEF Absent
        <3>2. QED
            BY <3>1
    <2>2. i \notin Row
        BY <1>1, RowProperties
    <2>3. QED
        BY <1>1, <2>1, <2>2 DEF Content
<1>2. CASE i # Absent
    <2>1. i \in Row /\ Content(i) = [cfg |-> i.cfg, status |-> i.status]
        BY <1>2 DEF Content
    <2>2. QED
        BY <2>1
<1>3. QED
    BY <1>1, <1>2

LEMMA CopyProperties ==
    ASSUME NEW c \in Copy
    PROVE  /\ c.uid \in Uids /\ c.cfg \in Configs /\ c.status \in {"running", "stopped", "deleted"}
           /\ c = [uid |-> c.uid, cfg |-> c.cfg, status |-> c.status]
    BY DEF Copy

LEMMA OutOfDateProperties ==
    ASSUME row \in Rows, NEW c \in Copy
    PROVE  OutOfDate(c) <=>
              ~(row[c.uid] \in Row /\ row[c.uid].cfg = c.cfg /\ row[c.uid].status = c.status)
    BY CopyProperties, ContentProperties DEF OutOfDate, Rows

LEMMA CopyOfProperties ==
    ASSUME row \in Rows, NEW u \in Uids, row[u].status \in {"running", "stopped", "deleted"}
    PROVE  /\ CopyOf(u) \in Copy
           /\ CopyOf(u).uid = u /\ CopyOf(u).status = row[u].status
<1>1. row[u] \in Row
    BY RowProperties DEF Rows
<1>2. QED
    BY <1>1 DEF CopyOf, Copy, Row

LEMMA SetSyncProperties ==
    ASSUME row \in Rows, NEW u \in Uids, NEW s \in {"pending", "synced"}, SetSync(u, s)
    PROVE  /\ row' \in Rows
           /\ \A v \in Uids : /\ Content(row'[v]) = Content(row[v])
                              /\ row'[v].status = row[v].status
                              /\ row[v] \in Row => row'[v] \in Row /\ row'[v].cfg = row[v].cfg
                              /\ v # u => row'[v] = row[v]
           /\ row[u] \in Row => row'[u].sync = s
<1> DEFINE i == IF row[u] = Absent THEN row[u] ELSE [row[u] EXCEPT !.sync = s]
<1>1. row' = [row EXCEPT ![u] = i] /\ row[u] \in Row \cup {Absent}
    BY DEF SetSync, Rows
<1>2. CASE row[u] = Absent
    <2>1. i = Absent /\ row' = row
        BY <1>1, <1>2 DEF Rows
    <2>2. row[u] \notin Row
        BY <1>2, RowProperties
    <2>3. QED
        BY <2>1, <2>2
<1>3. CASE row[u] # Absent
    <2>1. row[u] \in Row
        BY <1>1, <1>3
    <2>2. /\ i \in Row /\ i.cfg = row[u].cfg /\ i.status = row[u].status /\ i.sync = s
        BY <1>3, <2>1 DEF Row
    <2>3. i # Absent
        BY <2>2, RowProperties
    <2>4. Content(i) = Content(row[u])
        BY <1>3, <2>2, <2>3 DEF Content
    <2> HIDE DEF i
    <2>5. QED
        BY <1>1, <2>1, <2>2, <2>4 DEF Rows
<1>4. QED
    BY <1>2, <1>3

-----------------------------------------------------------------------------
(* What the changes of a step preserve.                                    *)

LEMMA MarkedIsHeld == \A c : Marks(c) => Holds(c)
    BY DEF Marks, Holds

LEMMA CrossProperties ==
    ASSUME crossed \in SUBSET Uids, NEW u \in Uids, NEW b \in BOOLEAN, Cross(u, b)
    PROVE  crossed' \in SUBSET Uids /\ crossed \subseteq crossed' /\ (b => u \in crossed')
    BY DEF Cross

\* When a row changes, what was in place is still, unless it looks current again.
LEMMA Revival ==
    ASSUME row \in Rows, NEW u \in Uids, NEW i \in Row \cup {Absent}, row' = [row EXCEPT ![u] = i],
           NEW c \in Copy, Holds(c), OutOfDate(c), ~OutOfDate(c)'
    PROVE  c.uid = u /\ Revives(u, i)
<1>1. row' \in Rows
    BY DEF Rows
<1>2. /\ ~(row[c.uid] \in Row /\ row[c.uid].cfg = c.cfg /\ row[c.uid].status = c.status)
      /\ row'[c.uid] \in Row /\ row'[c.uid].cfg = c.cfg /\ row'[c.uid].status = c.status
    BY <1>1, CopyProperties, ContentProperties DEF OutOfDate, Rows
<1>3. c.uid = u /\ row'[u] = i
    BY <1>2, CopyProperties DEF Rows
<1>4. Content(i) = [cfg |-> c.cfg, status |-> c.status] /\ i # Absent
    BY <1>2, <1>3, CopyProperties, ContentProperties, RowProperties
<1>5. Content(row[u]) # [cfg |-> c.cfg, status |-> c.status]
    BY <1>2, <1>3, CopyProperties, ContentProperties DEF Rows
<1>6. [uid |-> u, cfg |-> i.cfg, status |-> i.status] = c
    BY <1>2, <1>3, CopyProperties
<1>7. QED
    BY <1>3, <1>4, <1>5, <1>6 DEF Revives

\* A request goes on, and nothing becomes current again.
LEMMA RequestStep ==
    ASSUME IInv, NEW r \in Requests, NEW q \in Request, req' = [req EXCEPT ![r] = q], Fit(q),
           UNCHANGED worker, crossed \subseteq crossed',
           \A c \in Copy : c \in q.todo \cup {q.at} /\ c.status = "deleted" => c.uid \in crossed'
    PROVE  /\ req' \in [Requests -> Request]
           /\ req'[r] = q /\ \A s \in Requests : s # r => req'[s] = req[s]
           /\ Fits' /\ CopiesOfDeleted'
<1>1. /\ req' \in [Requests -> Request]
      /\ req'[r] = q /\ \A s \in Requests : s # r => req'[s] = req[s]
    BY DEF IInv, StateOK
<1>2. Fits'
    BY <1>1 DEF IInv, Fits, Fit
<1>3. CopiesOfDeleted'
    <2>1. ASSUME NEW c \in Copy, Holds(c)', c.status = "deleted"
          PROVE  c.uid \in crossed'
        <3>1. Holds(c) \/ c \in q.todo \cup {q.at}
            BY <1>1, <2>1 DEF Holds
        <3>2. QED
            BY <2>1, <3>1 DEF IInv, CopiesOfDeleted
    <2>2. QED
        BY <2>1 DEF CopiesOfDeleted
<1>4. QED
    BY <1>1, <1>2, <1>3

\* The variables of the backup, typed.
BackupTyped ==
    /\ backup \in Rows /\ dirty \in BOOLEAN /\ flush \in SUBSET ({"loop"} \cup Requests)
    /\ faults \in 0..MaxFaults /\ missed \in BOOLEAN

LEMMA NoCopyIsNone == NoCopy \notin Copy
<1>1. DOMAIN NoCopy = {"uid"}
    BY DEF NoCopy
<1>2. \A c \in Copy : DOMAIN c = {"uid", "cfg", "status"}
    BY DEF Copy
<1>3. QED
    BY <1>1, <1>2

LEMMA AfterFailureProperties ==
    ASSUME NEW q \in Request, q.kind # "force" => q.uid \in Uids
    PROVE  /\ AfterFailure(q) \in Request /\ Fit(AfterFailure(q))
           /\ AfterFailure(q).pc \notin {"mark", "status", "uncm", "unpod"}
           /\ AfterFailure(q).todo \subseteq q.todo /\ AfterFailure(q).at = NoCopy
           /\ AfterFailure(q).kind = q.kind /\ AfterFailure(q).uid = q.uid
<1>1. CASE q.kind = "create"
    <2>1. AfterFailure(q) = [q EXCEPT !.pc = "repend", !.at = NoCopy]
        BY <1>1 DEF AfterFailure
    <2>2. QED
        BY <1>1, <2>1 DEF Request, Pcs, Fit
<1>2. CASE q.kind = "import"
    <2>1. AfterFailure(q) = [q EXCEPT !.pc = "flush", !.at = NoCopy]
        BY <1>2 DEF AfterFailure
    <2>2. QED
        BY <1>2, <2>1 DEF Request, Pcs, Fit
<1>3. CASE q.kind = "force"
    <2>1. \E pc \in {"apply", "done"} : AfterFailure(q) = [q EXCEPT !.pc = pc, !.at = NoCopy]
        BY <1>3 DEF AfterFailure
    <2>2. QED
        BY <1>3, <2>1 DEF Request, Pcs, Fit
<1>4. CASE q.kind \notin {"create", "import", "force"}
    <2>1. AfterFailure(q) = [q EXCEPT !.pc = "done", !.todo = {}, !.at = NoCopy]
        BY <1>4 DEF AfterFailure
    <2>2. QED
        BY <1>4, <2>1 DEF Request, Pcs, Fit
<1>5. QED
    BY <1>1, <1>2, <1>3, <1>4

\* Rows, ConfigMaps and pods stay: so does what is said of them.
LEMMA ClusterKept ==
    ASSUME IInv, UNCHANGED <<row, cm, pod>>, crossed \subseteq crossed',
           \A u \in Uids : Removed(u) => Removed(u)' \/ u \in crossed',
           \A c \in Copy : Marks(c)' => Marks(c),
           \A r \in Requests : req'[r].pc \notin {"status", "uncm"} \/ req'[r] = req[r]
    PROVE  MarkedIsWritten' /\ GoneUncrossed' /\ Followed' /\ Deletions'
<1>1. MarkedIsWritten'
    <2>1. ASSUME NEW c \in Copy, Marks(c)'
          PROVE  InPlace(c)'
        <3>1. InPlace(c) /\ c.uid \in Uids
            BY <2>1, CopyProperties DEF IInv, MarkedIsWritten
        <3>2. OutOfDate(c)' = OutOfDate(c)
            BY DEF OutOfDate
        <3>3. QED
            BY <3>1, <3>2 DEF InPlace
    <2>2. QED
        BY <2>1 DEF MarkedIsWritten
<1>2. GoneUncrossed'
    BY DEF IInv, GoneUncrossed
<1>3. Followed'
    BY DEF IInv, Followed, Kept
<1>4. Deletions'
    BY DEF IInv, Deletions, Deletion
<1>5. QED
    BY <1>1, <1>2, <1>3, <1>4

\* A step of a request that changes nothing in the cluster.
LEMMA QuietRequest ==
    ASSUME IInv, NEW r \in Requests, NEW q \in Request, req' = [req EXCEPT ![r] = q], Fit(q),
           UNCHANGED <<row, cm, pod, worker>>, crossed \subseteq crossed', crossed' \in SUBSET Uids,
           \A c \in Copy : c \in q.todo \cup {q.at} /\ c.status = "deleted" => c.uid \in crossed',
           q.pc \notin {"mark", "status", "uncm"}, req[r].pc # "status",
           BackupTyped'
    PROVE  IInv'
<1>1. /\ req' \in [Requests -> Request]
      /\ req'[r] = q /\ \A s \in Requests : s # r => req'[s] = req[s]
      /\ Fits' /\ CopiesOfDeleted'
    BY RequestStep
<1>2. \A u \in Uids : Removed(u) => Removed(u)'
    BY <1>1 DEF Removed
<1>3. \A c \in Copy : Marks(c)' => Marks(c)
    BY <1>1 DEF Marks
<1>4. \A s \in Requests : req'[s].pc \notin {"status", "uncm"} \/ req'[s] = req[s]
    BY <1>1
<1>5. MarkedIsWritten' /\ GoneUncrossed' /\ Followed' /\ Deletions'
    BY <1>2, <1>3, <1>4, ClusterKept
<1>6. StateOK'
    BY <1>1 DEF IInv, StateOK, BackupTyped
<1>7. QED
    BY <1>1, <1>5, <1>6 DEF IInv

-----------------------------------------------------------------------------
(* Steps of requests that change nothing in the cluster.                   *)

LEMMA StartsProperties ==
    ASSUME NEW pc \in Pcs \ {"mark"}, NEW kind \in AllKinds, NEW uid \in Uids \cup {0},
           NEW todo \in SUBSET Copy,
           kind = "force" => pc \in {"apply", "done"}, kind # "force" => uid \in Uids,
           pc = "unpod" => kind \in {"stop", "delete", "restart"},
           pc \notin {"uncm", "status"}
    PROVE  /\ Starts(pc, kind, uid, todo) \in Request /\ Fit(Starts(pc, kind, uid, todo))
           /\ Starts(pc, kind, uid, todo).todo = todo /\ Starts(pc, kind, uid, todo).at = NoCopy
           /\ Starts(pc, kind, uid, todo).pc = pc
    BY DEF Starts, Request, Fit

LEMMA FaultProperties ==
    ASSUME faults \in 0..MaxFaults, NEW k, Fault(k)
    PROVE  faults' \in 0..MaxFaults
    BY LegacyAssumptions DEF Fault

LEMMA WakeIInv == ASSUME IInv, NEW r \in Requests, NEW u \in Uids, Wake(r, u) PROVE IInv'
<1>1. /\ StateOK /\ row \in Rows /\ crossed \in SUBSET Uids /\ req[r].pc = "new" /\ row[u] # Absent
      /\ UNCHANGED <<row, cm, pod, worker, backup, dirty, flush, missed, faults>>
      /\ Cross(u, row[u].status = "deleted")
    BY DEF IInv, StateOK, Wake, Database, Cluster
<1>2. row[u].status \in {"running", "stopped", "deleted"}
    BY <1>1, RowProperties DEF Rows
<1>3. CopyOf(u) \in Copy /\ CopyOf(u).uid = u /\ CopyOf(u).status = row[u].status
    BY <1>1, <1>2, CopyOfProperties
<1>4. PICK kind \in {"start", "restart"} :
         req' = [req EXCEPT ![r] = Starts(IF kind = "start" THEN "apply" ELSE "unpod", kind, u, {CopyOf(u)})]
    BY DEF Wake, Becomes
<1> DEFINE pc == IF kind = "start" THEN "apply" ELSE "unpod"
           q == Starts(pc, kind, u, {CopyOf(u)})
<1>5. req' = [req EXCEPT ![r] = q]
    BY <1>4
<1>6. pc \in {"apply", "unpod"} /\ (pc = "unpod" => kind = "restart") /\ pc \in Pcs \ {"mark"} /\ kind \in AllKinds /\ {CopyOf(u)} \in SUBSET Copy
    BY <1>3 DEF Pcs, AllKinds
<1> HIDE DEF pc
<1>7. q \in Request /\ Fit(q) /\ q.todo = {CopyOf(u)} /\ q.at = NoCopy /\ q.pc = pc
    BY <1>6, StartsProperties
<1>8. q.pc \notin {"mark", "status", "uncm"}
    BY <1>6, <1>7
<1> HIDE DEF q
<1>9. crossed' \in SUBSET Uids /\ crossed \subseteq crossed'
      /\ (row[u].status = "deleted" => u \in crossed')
    BY <1>1 DEF Cross
<1>10. \A c \in Copy : c \in q.todo \cup {q.at} /\ c.status = "deleted" => c.uid \in crossed'
    BY <1>3, <1>7, <1>9, NoCopyIsNone
<1>11. BackupTyped'
    BY <1>1 DEF StateOK, BackupTyped
<1>12. QED
    BY <1>1, <1>5, <1>7, <1>8, <1>9, <1>10, <1>11, QuietRequest

LEMMA HaltIInv == ASSUME IInv, NEW r \in Requests, NEW u \in Uids, Halt(r, u) PROVE IInv'
<1>1. /\ StateOK /\ crossed \in SUBSET Uids /\ req[r].pc = "new"
      /\ UNCHANGED <<row, cm, pod, worker, backup, dirty, flush, missed, faults, crossed>>
    BY DEF IInv, StateOK, Halt, Database, Cluster
<1>2. PICK kind \in {"stop", "delete"} :
         req' = [req EXCEPT ![r] = Starts("unpod", kind, u, {})]
    BY DEF Halt, Becomes
<1> DEFINE q == Starts("unpod", kind, u, {})
<1>3. req' = [req EXCEPT ![r] = q]
    BY <1>2
<1>4. "unpod" \in Pcs \ {"mark"} /\ kind \in AllKinds
    BY DEF Pcs, AllKinds
<1>5. q \in Request /\ Fit(q) /\ q.todo = {} /\ q.at = NoCopy /\ q.pc = "unpod"
    BY <1>4, StartsProperties
<1> HIDE DEF q
<1>6. \A c \in Copy : c \in q.todo \cup {q.at} /\ c.status = "deleted" => c.uid \in crossed'
    BY <1>5, NoCopyIsNone
<1>7. BackupTyped'
    BY <1>1 DEF StateOK, BackupTyped
<1>8. QED
    BY <1>1, <1>3, <1>5, <1>6, <1>7, QuietRequest

LEMMA ForceSyncIInv == ASSUME IInv, NEW r \in Requests, ForceSync(r) PROVE IInv'
<1>1. /\ StateOK /\ row \in Rows /\ crossed \in SUBSET Uids /\ req[r].pc = "new"
      /\ UNCHANGED <<row, cm, pod, worker, backup, dirty, flush, missed, faults, crossed>>
    BY DEF IInv, StateOK, ForceSync, Database, Cluster
<1> DEFINE todo == {CopyOf(u) : u \in {v \in Uids : row[v].status \in {"running", "stopped"}}}
           pc == IF todo = {} THEN "done" ELSE "apply"
           q == Starts(pc, "force", 0, todo)
<1>2. todo \in SUBSET Copy /\ \A c \in todo : c.status # "deleted"
    BY <1>1, CopyOfProperties
<1>3. req' = [req EXCEPT ![r] = q]
    BY DEF ForceSync, Becomes
<1>4. pc \in {"done", "apply"} /\ pc \in Pcs \ {"mark"} /\ "force" \in AllKinds
    BY DEF Pcs, AllKinds
<1> HIDE DEF todo, pc
<1>5. q \in Request /\ Fit(q) /\ q.todo = todo /\ q.at = NoCopy /\ q.pc = pc
    BY <1>2, <1>4, StartsProperties
<1>6. q.pc \notin {"mark", "status", "uncm"}
    BY <1>4, <1>5
<1> HIDE DEF q
<1>7. \A c \in Copy : c \in q.todo \cup {q.at} /\ c.status = "deleted" => c.uid \in crossed'
    BY <1>2, <1>5, NoCopyIsNone
<1>8. BackupTyped'
    BY <1>1 DEF StateOK, BackupTyped
<1>9. QED
    BY <1>1, <1>3, <1>5, <1>6, <1>7, <1>8, QuietRequest

\* A request that goes on to another call, or to its end, keeps its copies.
LEMMA GoesOn ==
    ASSUME IInv, NEW r \in Requests, NEW pc \in Pcs \ {"mark"}, Goes(r, pc),
           req[r].pc \notin {"new", "done"}, req[r].kind # "force",
           pc = "unpod" => req[r].kind \in {"stop", "delete", "restart"},
           pc = "uncm" => req[r].kind = "delete",
           pc = "status" => req[r].kind \in {"start", "stop", "delete"}
    PROVE  \E q \in Request :
              /\ req' = [req EXCEPT ![r] = q] /\ Fit(q)
              /\ q.pc = pc /\ q.kind = req[r].kind /\ q.uid = req[r].uid
              /\ \A c \in Copy : c \in q.todo \cup {q.at} /\ c.status = "deleted" => c.uid \in crossed
<1> DEFINE q == [req[r] EXCEPT !.pc = pc]
<1>1. req[r] \in Request /\ Fit(req[r])
    BY DEF IInv, StateOK, Fits
<1>2. /\ q \in Request /\ q.pc = pc /\ q.kind = req[r].kind /\ q.uid = req[r].uid
      /\ q.todo = req[r].todo /\ q.at = req[r].at
    BY <1>1 DEF Request
<1>3. req' = [req EXCEPT ![r] = q]
    BY DEF Goes, Becomes
<1> HIDE DEF q
<1>4. Fit(q)
    BY <1>1, <1>2 DEF Fit
<1>5. \A c \in Copy : c \in q.todo \cup {q.at} /\ c.status = "deleted" => c.uid \in crossed
    BY <1>2 DEF IInv, CopiesOfDeleted, Holds
<1>6. QED
    BY <1>2, <1>3, <1>4, <1>5

LEMMA AwakeIInv == ASSUME IInv, NEW r \in Requests, Awake(r) PROVE IInv'
<1>1. /\ StateOK /\ crossed \in SUBSET Uids /\ req[r].pc = "sleep" /\ Goes(r, "apply")
      /\ UNCHANGED <<row, cm, pod, worker, backup, dirty, flush, missed, faults, crossed>>
    BY DEF IInv, StateOK, Awake, Database, Cluster
<1>2. req[r].kind # "force"
    BY <1>1 DEF IInv, Fits, Fit
<1>3. "apply" \in Pcs \ {"mark"}
    BY DEF Pcs
<1>4. PICK q \in Request :
              /\ req' = [req EXCEPT ![r] = q] /\ Fit(q)
              /\ q.pc = "apply" /\ q.kind = req[r].kind /\ q.uid = req[r].uid
              /\ \A c \in Copy : c \in q.todo \cup {q.at} /\ c.status = "deleted" => c.uid \in crossed
    BY <1>1, <1>2, <1>3, GoesOn
<1>5. BackupTyped'
    BY <1>1 DEF StateOK, BackupTyped
<1>6. QED
    BY <1>1, <1>4, <1>5, QuietRequest

LEMMA FlushImportIInv == ASSUME IInv, NEW r \in Requests, FlushImport(r) PROVE IInv'
<1>1. /\ StateOK /\ crossed \in SUBSET Uids /\ req[r].pc = "flush" /\ Goes(r, "done")
      /\ UNCHANGED <<row, cm, pod, worker, backup, missed, faults, crossed>>
      /\ dirty' = FALSE /\ flush' \in {flush, flush \cup {r}}
    BY DEF IInv, StateOK, FlushImport, Cluster
<1>2. req[r].kind # "force"
    BY <1>1 DEF IInv, Fits, Fit
<1>3. "done" \in Pcs \ {"mark"}
    BY DEF Pcs
<1>4. PICK q \in Request :
              /\ req' = [req EXCEPT ![r] = q] /\ Fit(q)
              /\ q.pc = "done" /\ q.kind = req[r].kind /\ q.uid = req[r].uid
              /\ \A c \in Copy : c \in q.todo \cup {q.at} /\ c.status = "deleted" => c.uid \in crossed
    BY <1>1, <1>2, <1>3, GoesOn
<1>5. BackupTyped'
    BY <1>1 DEF StateOK, BackupTyped
<1>6. QED
    BY <1>1, <1>4, <1>5, QuietRequest

-----------------------------------------------------------------------------
(* Calls to the cluster.                                                   *)

LEMMA Fails ==
    ASSUME IInv, NEW r \in Requests, req[r].pc \notin {"new", "done"},
           NEW p \in Request, p.todo \subseteq req[r].todo, p.kind = req[r].kind, p.uid = req[r].uid,
           Becomes(r, AfterFailure(p))
    PROVE  \E q \in Request :
              /\ req' = [req EXCEPT ![r] = q] /\ Fit(q)
              /\ q.pc \notin {"mark", "status", "uncm"}
              /\ \A c \in Copy : c \in q.todo \cup {q.at} /\ c.status = "deleted" => c.uid \in crossed
<1> DEFINE q == AfterFailure(p)
<1>1. req[r] \in Request /\ Fit(req[r])
    BY DEF IInv, StateOK, Fits
<1>2. p.kind # "force" => p.uid \in Uids
    BY <1>1 DEF Fit
<1>3. /\ q \in Request /\ Fit(q) /\ q.pc \notin {"mark", "status", "uncm"}
      /\ q.todo \subseteq req[r].todo /\ q.at = NoCopy
    BY <1>2, AfterFailureProperties
<1>4. req' = [req EXCEPT ![r] = q]
    BY DEF Becomes
<1> HIDE DEF q
<1>5. \A c \in Copy : c \in q.todo \cup {q.at} /\ c.status = "deleted" => c.uid \in crossed
    BY <1>3, NoCopyIsNone DEF IInv, CopiesOfDeleted, Holds
<1>6. QED
    BY <1>3, <1>4, <1>5

LEMMA DeletePodIInv == ASSUME IInv, NEW r \in Requests, DeletePod(r) PROVE IInv'
<1>1. /\ StateOK /\ row \in Rows /\ pod \in SUBSET Uids /\ crossed \in SUBSET Uids
      /\ req[r].pc = "unpod" /\ req[r] \in Request
      /\ req[r].kind \in {"stop", "delete", "restart"} /\ req[r].uid \in Uids
      /\ UNCHANGED <<row, cm, worker, backup, dirty, flush, missed, crossed>>
    BY DEF IInv, StateOK, Fits, Fit, DeletePod, Database
<1>2. CASE Fault("k8s") /\ Becomes(r, AfterFailure(req[r])) /\ UNCHANGED pod
    <2>1. PICK q \in Request :
              /\ req' = [req EXCEPT ![r] = q] /\ Fit(q)
              /\ q.pc \notin {"mark", "status", "uncm"}
              /\ \A c \in Copy : c \in q.todo \cup {q.at} /\ c.status = "deleted" => c.uid \in crossed
        BY <1>1, <1>2, Fails
    <2>2. BackupTyped'
        BY <1>1, <1>2, FaultProperties DEF StateOK, BackupTyped
    <2>3. QED
        BY <1>1, <1>2, <2>1, <2>2, QuietRequest
<1>3. CASE /\ pod' = pod \ {req[r].uid} /\ UNCHANGED faults
           /\ Goes(r, CASE req[r].kind = "restart" -> "sleep"
                        [] req[r].kind = "stop" -> "status"
                        [] OTHER -> "uncm")
    <2>1. PICK pc \in {"sleep", "status", "uncm"} :
             /\ Goes(r, pc) /\ pc \in Pcs \ {"mark"}
             /\ pc = "status" => req[r].kind = "stop"
             /\ pc = "uncm" => req[r].kind = "delete"
        BY <1>1, <1>3 DEF Pcs
    <2>2. PICK q \in Request :
              /\ req' = [req EXCEPT ![r] = q] /\ Fit(q)
              /\ q.pc = pc /\ q.kind = req[r].kind /\ q.uid = req[r].uid
              /\ \A c \in Copy : c \in q.todo \cup {q.at} /\ c.status = "deleted" => c.uid \in crossed
        BY <1>1, <2>1, GoesOn
    <2>3. /\ req' \in [Requests -> Request]
          /\ req'[r] = q /\ \A s \in Requests : s # r => req'[s] = req[s]
          /\ Fits' /\ CopiesOfDeleted'
        BY <1>1, <2>2, RequestStep
    <2>4. StateOK'
        BY <1>1, <1>3, <2>3 DEF StateOK
    <2>5. \A u : Removed(u)' <=> Removed(u)
        BY <1>1, <2>1, <2>2, <2>3 DEF Removed
    <2>6. MarkedIsWritten'
        BY <1>1, <2>2, <2>3, <2>5 DEF IInv, MarkedIsWritten, Marks, InPlace, OutOfDate
    <2>7. GoneUncrossed' /\ Followed'
        BY <1>1, <1>3, <2>5 DEF IInv, GoneUncrossed, Followed, Kept
    <2>8. Deletions'
        BY <1>1, <1>3, <2>1, <2>2, <2>3 DEF IInv, Deletions, Deletion
    <2>9. QED
        BY <2>3, <2>4, <2>6, <2>7, <2>8 DEF IInv
<1>4. QED
    BY <1>2, <1>3 DEF DeletePod

LEMMA DeleteConfigMapIInv == ASSUME IInv, NEW r \in Requests, DeleteConfigMap(r) PROVE IInv'
<1>0. req[r].uid \in Uids
    BY DEF IInv, Fits, Fit, DeleteConfigMap
<1> PICK x \in Uids : x = req[r].uid
    BY <1>0
<1>1. /\ StateOK /\ row \in Rows /\ pod \in SUBSET Uids /\ crossed \in SUBSET Uids
      /\ cm \in [Uids -> Configs \cup {NoConfig}]
      /\ req[r].pc = "uncm" /\ req[r] \in Request
      /\ req[r].kind = "delete" /\ x \in Uids
      /\ req[r].uid = x
      /\ UNCHANGED <<row, pod, worker, backup, dirty, flush, missed>>
    BY DEF IInv, StateOK, Fits, Fit, DeleteConfigMap, Database
<1>5. \/ cm' = [cm EXCEPT ![x] = NoConfig] /\ Goes(r, "status") /\ UNCHANGED <<faults, crossed>>
      \/ /\ Fault("k8s") /\ (UNCHANGED cm \/ cm' = [cm EXCEPT ![x] = NoConfig])
         /\ Becomes(r, AfterFailure(req[r])) /\ Cross(x, TRUE)
    BY DEF DeleteConfigMap, ConfigMapGoes
<1>2. CASE cm' = [cm EXCEPT ![x] = NoConfig] /\ Goes(r, "status") /\ UNCHANGED <<faults, crossed>>
    <2>1. "status" \in Pcs \ {"mark"}
        BY DEF Pcs
    <2>2. PICK q \in Request :
              /\ req' = [req EXCEPT ![r] = q] /\ Fit(q)
              /\ q.pc = "status" /\ q.kind = req[r].kind /\ q.uid = req[r].uid
              /\ \A c \in Copy : c \in q.todo \cup {q.at} /\ c.status = "deleted" => c.uid \in crossed
        BY <1>1, <1>2, <2>1, GoesOn
    <2>3. /\ req' \in [Requests -> Request]
          /\ req'[r] = q /\ \A s \in Requests : s # r => req'[s] = req[s]
          /\ Fits' /\ CopiesOfDeleted'
        BY <1>1, <1>2, <2>2, RequestStep
    <2>4. /\ cm' \in [Uids -> Configs \cup {NoConfig}] /\ cm'[x] = NoConfig
          /\ \A u \in Uids \ {x} : cm'[u] = cm[u]
        BY <1>1, <1>2
    <2>5. StateOK'
        BY <1>1, <1>2, <2>3, <2>4 DEF StateOK
    <2>6. Removed(x)' /\ \A u : Removed(u) => Removed(u)'
        BY <1>1, <2>2, <2>3 DEF Removed
    <2>7. MarkedIsWritten'
        <3>1. ASSUME NEW c \in Copy, Marks(c)'
              PROVE  InPlace(c)'
            <4>1. Marks(c) /\ InPlace(c) /\ c.uid \in Uids
                BY <1>1, <2>2, <2>3, <3>1, CopyProperties DEF IInv, MarkedIsWritten, Marks
            <4>2. OutOfDate(c)' = OutOfDate(c)
                BY <1>1 DEF OutOfDate
            <4>3. QED
                BY <1>2, <2>4, <2>6, <4>1, <4>2 DEF InPlace
        <3>2. QED
            BY <3>1 DEF MarkedIsWritten
    <2>8. GoneUncrossed'
        BY <1>1, <1>2, <2>4 DEF IInv, GoneUncrossed
    <2>9. Followed'
        BY <1>1, <1>2, <2>4, <2>6 DEF IInv, Followed, Kept
    <2>10. Deletions'
        <3>1. ASSUME NEW s \in Requests
              PROVE  Deletion(req[s])'
            <4>1. Deletion(req[s]) /\ Deletion(req[r])
                BY DEF IInv, Deletions
            <4>2. CASE s = r
                BY <1>1, <1>2, <2>2, <2>3, <2>4, <4>1, <4>2 DEF Deletion
            <4>3. CASE s # r
                <5>1. req'[s] = req[s]
                    BY <2>3, <4>3
                <5>2. req[s].uid \in Uids => req[s].uid = x \/ cm'[req[s].uid] = cm[req[s].uid]
                    BY <2>4
                <5>3. QED
                    BY <1>1, <1>2, <2>4, <4>1, <5>1, <5>2 DEF Deletion
            <4>4. QED
                BY <4>2, <4>3
        <3>2. QED
            BY <3>1 DEF Deletions
    <2>11. QED
        BY <2>3, <2>5, <2>7, <2>8, <2>9, <2>10 DEF IInv
<1>3. CASE /\ Fault("k8s") /\ (UNCHANGED cm \/ cm' = [cm EXCEPT ![x] = NoConfig])
           /\ Becomes(r, AfterFailure(req[r])) /\ Cross(x, TRUE)
    <2>1. PICK q \in Request :
              /\ req' = [req EXCEPT ![r] = q] /\ Fit(q)
              /\ q.pc \notin {"mark", "status", "uncm"}
              /\ \A c \in Copy : c \in q.todo \cup {q.at} /\ c.status = "deleted" => c.uid \in crossed
        BY <1>1, <1>3, Fails
    <2>2. crossed' \in SUBSET Uids /\ crossed \subseteq crossed' /\ x \in crossed'
        BY <1>1, <1>3 DEF Cross
    <2>3. /\ req' \in [Requests -> Request]
          /\ req'[r] = q /\ \A s \in Requests : s # r => req'[s] = req[s]
          /\ Fits' /\ CopiesOfDeleted'
        BY <1>1, <2>1, <2>2, RequestStep
    <2>4. cm' \in [Uids -> Configs \cup {NoConfig}] /\ \A u \in Uids \ {x} : cm'[u] = cm[u]
        BY <1>1, <1>3
    <2>5. StateOK'
        BY <1>1, <1>3, <2>2, <2>3, <2>4, FaultProperties DEF StateOK
    <2>6. \A u : Removed(u) => Removed(u)'
        BY <1>1, <2>1, <2>3 DEF Removed
    <2>7. MarkedIsWritten'
        <3>1. ASSUME NEW c \in Copy, Marks(c)'
              PROVE  InPlace(c)'
            <4>1. Marks(c) /\ InPlace(c) /\ c.uid \in Uids
                BY <1>1, <2>1, <2>3, <3>1, CopyProperties DEF IInv, MarkedIsWritten, Marks
            <4>2. OutOfDate(c)' = OutOfDate(c)
                BY <1>1 DEF OutOfDate
            <4>3. QED
                BY <2>2, <2>4, <2>6, <4>1, <4>2 DEF InPlace
        <3>2. QED
            BY <3>1 DEF MarkedIsWritten
    <2>8. GoneUncrossed'
        BY <1>1, <2>2, <2>4 DEF IInv, GoneUncrossed
    <2>9. Followed'
        BY <1>1, <2>2, <2>4, <2>6 DEF IInv, Followed, Kept
    <2>10. Deletions'
        <3>1. \A s \in Requests : Deletion(req[s]) /\ (req'[s] = req[s] \/ req'[s].pc \notin {"status", "uncm"})
            BY <2>1, <2>3 DEF IInv, Deletions
        <3>2. QED
            BY <1>1, <2>2, <2>4, <3>1 DEF Deletions, Deletion
    <2>11. QED
        BY <2>3, <2>5, <2>7, <2>8, <2>9, <2>10 DEF IInv
<1>4. QED
    BY <1>2, <1>3, <1>5

-----------------------------------------------------------------------------
(* ConfigMaps are written, by requests and by the worker.                  *)

\* A write, and one that has failed, but for what it says of deletions.
Wrote(c) ==
    /\ cm' = [cm EXCEPT ![c.uid] = c.cfg]
    /\ Cross(c.uid, OutOfDate(c) \/ Deleting(c.uid))

WroteOrNot(c) == Fault("k8s") /\ (Wrote(c) \/ UNCHANGED <<cm, crossed>>)

LEMMA WritesProperties ==
    ASSUME IInv, NEW c \in Copy, Wrote(c)
    PROVE  /\ cm' \in [Uids -> Configs \cup {NoConfig}]
           /\ cm'[c.uid] = c.cfg /\ \A u \in Uids : u # c.uid => cm'[u] = cm[u]
           /\ crossed' \in SUBSET Uids /\ crossed \subseteq crossed'
           /\ c.uid \notin crossed' => ~OutOfDate(c) /\ ~Deleting(c.uid)
<1>1. c.uid \in Uids /\ c.cfg \in Configs
    BY CopyProperties
<1>2. cm \in [Uids -> Configs \cup {NoConfig}] /\ crossed \in SUBSET Uids
    BY DEF IInv, StateOK
<1>3. /\ cm' = [cm EXCEPT ![c.uid] = c.cfg]
      /\ crossed' = IF OutOfDate(c) \/ Deleting(c.uid) THEN crossed \cup {c.uid} ELSE crossed
    BY DEF Wrote, Cross
<1>4. QED
    BY <1>1, <1>2, <1>3

\* A write, or one that fails, leaves everything in order: if it is not out of
\* date, the ConfigMap is then that of the row.
LEMMA WritesState ==
    ASSUME IInv, NEW c \in Copy, Holds(c), Wrote(c) \/ UNCHANGED <<cm, crossed>>,
           UNCHANGED <<row, pod>>,
           \A u : Removed(u) => Removed(u)',
           \A d \in Copy : Marks(d)' => Marks(d) \/ (d = c /\ Wrote(c)),
           \A r \in Requests : req'[r] = req[r] \/ req'[r].pc \notin {"status", "uncm"}
    PROVE  MarkedIsWritten' /\ GoneUncrossed' /\ Followed' /\ Deletions'
<1>1. row \in Rows /\ c.uid \in Uids /\ c.cfg \in Configs
    BY CopyProperties DEF IInv, StateOK
<1>2. CASE Wrote(c)
    <2>1. /\ cm' \in [Uids -> Configs \cup {NoConfig}]
          /\ cm'[c.uid] = c.cfg /\ \A u \in Uids : u # c.uid => cm'[u] = cm[u]
          /\ crossed' \in SUBSET Uids /\ crossed \subseteq crossed'
          /\ c.uid \notin crossed' => ~OutOfDate(c) /\ ~Deleting(c.uid)
        BY <1>2, WritesProperties
    <2>2. c.uid \notin crossed' => /\ row[c.uid] \in Row /\ row[c.uid].cfg = c.cfg
                                   /\ row[c.uid].status = c.status /\ c.status # "deleted"
        BY <1>1, <2>1, OutOfDateProperties DEF IInv, CopiesOfDeleted
    <2>3. MarkedIsWritten'
        <3>1. ASSUME NEW d \in Copy, Marks(d)'
              PROVE  InPlace(d)'
            <4>1. d.uid \in Uids /\ OutOfDate(d)' = OutOfDate(d)
                BY CopyProperties DEF OutOfDate
            <4>2. CASE d.uid = c.uid
                <5>1. CASE d.uid \in crossed' \/ OutOfDate(d)
                    BY <4>1, <5>1 DEF InPlace
                <5>2. CASE d.uid \notin crossed' /\ ~OutOfDate(d)
                    <6>1. d.cfg = c.cfg
                        BY <1>1, <2>2, <4>2, <5>2, OutOfDateProperties
                    <6>2. QED
                        BY <2>1, <4>2, <6>1 DEF InPlace
                <5>3. QED
                    BY <5>1, <5>2
            <4>3. CASE d.uid # c.uid
                <5>1. Marks(d) /\ InPlace(d)
                    BY <3>1, <4>3 DEF IInv, MarkedIsWritten
                <5>2. QED
                    BY <2>1, <4>1, <4>3, <5>1 DEF InPlace
            <4>4. QED
                BY <4>2, <4>3
        <3>2. QED
            BY <3>1 DEF MarkedIsWritten
    <2>4. GoneUncrossed'
        BY <2>1, <2>2 DEF IInv, GoneUncrossed
    <2>5. Followed'
        BY <2>1, <2>2 DEF IInv, Followed, Kept
    <2>6. Deletions'
        <3>1. ASSUME NEW r \in Requests
              PROVE  Deletion(req[r])'
            <4>1. CASE req'[r].pc \notin {"status", "uncm"}
                BY <4>1 DEF Deletion
            <4>2. CASE req'[r] = req[r] /\ req[r].pc \in {"status", "uncm"}
                <5>1. req[r].kind = "delete" => Deleting(req[r].uid)
                    BY <4>2 DEF Deleting, Active
                <5>2. Deletion(req[r])
                    BY DEF IInv, Deletions
                <5>3. QED
                    BY <2>1, <4>2, <5>1, <5>2 DEF Deletion
            <4>3. QED
                BY <4>1, <4>2
        <3>2. QED
            BY <3>1 DEF Deletions
    <2>7. QED
        BY <2>3, <2>4, <2>5, <2>6
<1>3. CASE UNCHANGED <<cm, crossed>> /\ ~Wrote(c)
    BY <1>3, ClusterKept
<1>4. QED
    BY <1>2, <1>3

LEMMA WrittenProperties ==
    ASSUME NEW q \in Request, NEW c \in Copy
    PROVE  /\ Written(q, c) \in Request
           /\ Written(q, c).pc = "mark" /\ Written(q, c).at = c /\ Written(q, c).todo \subseteq q.todo
           /\ Written(q, c).kind = q.kind /\ Written(q, c).uid = q.uid
<1> DEFINE todo == q.todo \ {c}
<1>1. [q EXCEPT !.pc = "mark"].todo = q.todo
    BY DEF Request
<1>2. Written(q, c) = [q EXCEPT !.pc = "mark", !.todo = todo, !.at = c]
    BY <1>1, Zenon DEF Written
<1>3. todo \in SUBSET Copy /\ todo \subseteq q.todo
    BY DEF Request
<1> HIDE DEF todo
<1>4. Written(q, c) = [pc |-> "mark", kind |-> q.kind, uid |-> q.uid, todo |-> todo, at |-> c]
    BY <1>2 DEF Request
<1>5. QED
    BY <1>3, <1>4 DEF Request, Pcs

LEMMA ApplyIInv == ASSUME IInv, NEW r \in Requests, Apply(r) PROVE IInv'
<1>1. /\ StateOK /\ cm \in [Uids -> Configs \cup {NoConfig}] /\ crossed \in SUBSET Uids
      /\ req[r].pc = "apply" /\ req[r] \in Request /\ req[r].todo \in SUBSET Copy /\ Fit(req[r])
      /\ UNCHANGED <<row, pod, worker, backup, dirty, flush, missed>>
    BY DEF IInv, StateOK, Fits, Apply, Database, Request
<1>2. PICK c \in req[r].todo :
          \/ /\ Wrote(c)
             /\ Becomes(r, Written(req[r], c))
             /\ UNCHANGED faults
          \/ /\ WroteOrNot(c)
             /\ Becomes(r, AfterFailure([req[r] EXCEPT !.todo = @ \ {c}]))
    BY DEF Apply, Writes, WriteFails, Wrote, WroteOrNot
<1>3. c \in Copy /\ Holds(c)
    BY <1>1 DEF Holds
<1>4. CASE /\ Wrote(c) /\ UNCHANGED faults
           /\ Becomes(r, Written(req[r], c))
    <2> DEFINE q == Written(req[r], c)
    <2>1. req' = [req EXCEPT ![r] = q]
        BY <1>4 DEF Becomes
    <2>2. q \in Request /\ Fit(q) /\ q.pc = "mark" /\ q.at = c /\ q.todo \subseteq req[r].todo
        BY <1>1, <1>3, WrittenProperties DEF Fit
    <2> HIDE DEF q
    <2>3. /\ cm' \in [Uids -> Configs \cup {NoConfig}]
          /\ crossed' \in SUBSET Uids /\ crossed \subseteq crossed'
        BY <1>3, <1>4, WritesProperties
    <2>4. \A d \in Copy : d \in q.todo \cup {q.at} /\ d.status = "deleted" => d.uid \in crossed'
        <3>1. \A d \in Copy : d \in q.todo \cup {q.at} => Holds(d)
            BY <1>2, <2>2 DEF Holds
        <3>2. QED
            BY <2>3, <3>1 DEF IInv, CopiesOfDeleted
    <2>5. /\ req' \in [Requests -> Request]
          /\ req'[r] = q /\ \A s \in Requests : s # r => req'[s] = req[s]
          /\ Fits' /\ CopiesOfDeleted'
        BY <1>1, <2>1, <2>2, <2>3, <2>4, RequestStep
    <2>6. StateOK'
        BY <1>1, <1>4, <2>3, <2>5 DEF StateOK
    <2>7. \A u : Removed(u) => Removed(u)'
        BY <1>1, <2>5 DEF Removed
    <2>8. \A d \in Copy : Marks(d)' => Marks(d) \/ (d = c /\ Wrote(c))
        BY <1>1, <1>4, <2>2, <2>5 DEF Marks
    <2>9. \A s \in Requests : req'[s] = req[s] \/ req'[s].pc \notin {"status", "uncm"}
        BY <2>2, <2>5
    <2>10. MarkedIsWritten' /\ GoneUncrossed' /\ Followed' /\ Deletions'
        BY <1>1, <1>3, <1>4, <2>7, <2>8, <2>9, WritesState
    <2>11. QED
        BY <2>5, <2>6, <2>10 DEF IInv
<1>5. CASE WroteOrNot(c) /\ Becomes(r, AfterFailure([req[r] EXCEPT !.todo = @ \ {c}]))
    <2>1. PICK p \in Request : /\ p.todo \subseteq req[r].todo /\ p.kind = req[r].kind /\ p.uid = req[r].uid
                               /\ Becomes(r, AfterFailure(p))
        <3> DEFINE p == [req[r] EXCEPT !.todo = @ \ {c}]
        <3>1. p \in Request /\ p.todo \subseteq req[r].todo /\ p.kind = req[r].kind /\ p.uid = req[r].uid
            BY <1>1 DEF Request
        <3>2. Becomes(r, AfterFailure(p))
            BY <1>5
        <3> HIDE DEF p
        <3>3. QED
            BY <3>1, <3>2
    <2>2. PICK q \in Request :
              /\ req' = [req EXCEPT ![r] = q] /\ Fit(q)
              /\ q.pc \notin {"mark", "status", "uncm"}
              /\ \A d \in Copy : d \in q.todo \cup {q.at} /\ d.status = "deleted" => d.uid \in crossed
        BY <1>1, <2>1, Fails
    <2>3. /\ Wrote(c) \/ UNCHANGED <<cm, crossed>>
          /\ Fault("k8s")
        BY <1>5 DEF WroteOrNot
    <2>4. /\ cm' \in [Uids -> Configs \cup {NoConfig}]
          /\ crossed' \in SUBSET Uids /\ crossed \subseteq crossed'
        BY <1>1, <1>3, <2>3, WritesProperties
    <2>5. /\ req' \in [Requests -> Request]
          /\ req'[r] = q /\ \A s \in Requests : s # r => req'[s] = req[s]
          /\ Fits' /\ CopiesOfDeleted'
        BY <1>1, <2>2, <2>4, RequestStep
    <2>6. StateOK'
        BY <1>1, <2>3, <2>4, <2>5, FaultProperties DEF StateOK
    <2>7. \A u : Removed(u) => Removed(u)'
        BY <1>1, <2>5 DEF Removed
    <2>8. \A d \in Copy : Marks(d)' => Marks(d)
        BY <1>1, <2>2, <2>5 DEF Marks
    <2>9. \A s \in Requests : req'[s] = req[s] \/ req'[s].pc \notin {"status", "uncm"}
        BY <2>2, <2>5
    <2>10. MarkedIsWritten' /\ GoneUncrossed' /\ Followed' /\ Deletions'
        BY <1>1, <1>3, <2>3, <2>7, <2>8, <2>9, WritesState
    <2>11. QED
        BY <2>5, <2>6, <2>10 DEF IInv
<1>6. QED
    BY <1>2, <1>4, <1>5

LEMMA NextCopyProperties ==
    ASSUME NEW todo \in SUBSET Copy
    PROVE  /\ NextCopy(todo) \in Worker /\ NextCopy(todo).todo = todo /\ NextCopy(todo).at = NoCopy
           /\ NextCopy(todo).pc # "mark"
    BY DEF NextCopy, Worker

\* The worker goes on to copies that it has.
LEMMA WorkerStep ==
    ASSUME IInv, worker' \in Worker, UNCHANGED req, crossed \subseteq crossed',
           worker'.pc = "mark" => worker'.at \in Copy,
           \A c \in Copy : c \in worker'.todo \cup {worker'.at} /\ c.status = "deleted" => c.uid \in crossed'
    PROVE  Fits' /\ CopiesOfDeleted'
<1>1. Fits'
    BY DEF IInv, Fits, Fit
<1>2. CopiesOfDeleted'
    <2>1. ASSUME NEW c \in Copy, Holds(c)', c.status = "deleted"
          PROVE  c.uid \in crossed'
        <3>1. Holds(c) \/ c \in worker'.todo \cup {worker'.at}
            BY <2>1 DEF Holds
        <3>2. QED
            BY <2>1, <3>1 DEF IInv, CopiesOfDeleted
    <2>2. QED
        BY <2>1 DEF CopiesOfDeleted
<1>3. QED
    BY <1>1, <1>2

LEMMA SyncApplyIInv == IInv /\ SyncApply => IInv'
<1> SUFFICES ASSUME IInv, SyncApply
             PROVE  IInv'
    OBVIOUS
<1>1. /\ StateOK /\ cm \in [Uids -> Configs \cup {NoConfig}] /\ crossed \in SUBSET Uids
      /\ worker.pc = "apply" /\ worker \in Worker /\ worker.todo \in SUBSET Copy
      /\ UNCHANGED <<row, pod, req, backup, dirty, flush, missed>>
    BY DEF IInv, StateOK, SyncApply, Database, Worker
<1>2. PICK c \in worker.todo :
          \/ /\ Wrote(c)
             /\ worker' = [pc |-> "mark", todo |-> worker.todo \ {c}, at |-> c]
             /\ UNCHANGED faults
          \/ WroteOrNot(c) /\ worker' = NextCopy(worker.todo \ {c})
    BY DEF SyncApply, Writes, WriteFails, Wrote, WroteOrNot
<1>3. c \in Copy /\ Holds(c)
    BY <1>1 DEF Holds
<1>4. /\ Wrote(c) \/ UNCHANGED <<cm, crossed>>
      /\ UNCHANGED faults \/ Fault("k8s")
      /\ cm' \in [Uids -> Configs \cup {NoConfig}]
      /\ crossed' \in SUBSET Uids /\ crossed \subseteq crossed'
    BY <1>1, <1>2, <1>3, WritesProperties DEF WroteOrNot
<1>5. /\ worker' \in Worker /\ worker'.todo \subseteq worker.todo /\ worker'.at \in {c, NoCopy}
      /\ worker'.pc = "mark" => worker'.at = c /\ Wrote(c)
    BY <1>1, <1>2, <1>3, NextCopyProperties DEF Worker
<1>6. \A d \in Copy : d \in worker'.todo \cup {worker'.at} /\ d.status = "deleted" => d.uid \in crossed'
    BY <1>2, <1>4, <1>5, NoCopyIsNone DEF IInv, CopiesOfDeleted, Holds
<1>7. Fits' /\ CopiesOfDeleted'
    BY <1>1, <1>3, <1>4, <1>5, <1>6, WorkerStep
<1>8. StateOK'
    BY <1>1, <1>4, <1>5, FaultProperties DEF StateOK
<1>9. \A d \in Copy : Marks(d)' => Marks(d) \/ (d = c /\ Wrote(c))
    BY <1>1, <1>5 DEF Marks
<1>10. \A u : Removed(u) => Removed(u)'
    BY <1>1 DEF Removed
<1>11. MarkedIsWritten' /\ GoneUncrossed' /\ Followed' /\ Deletions'
    BY <1>1, <1>3, <1>4, <1>9, <1>10, WritesState
<1>12. QED
    BY <1>7, <1>8, <1>11 DEF IInv

-----------------------------------------------------------------------------
(* Marks: the sync flag changes.                                           *)

\* A copy is marked synced when it is in the ConfigMap, or the row has changed
\* since, which is then said of the instance.
LEMMA MarkState ==
    ASSUME IInv, NEW c \in Copy, Marks(c), SetSync(c.uid, "synced"), Cross(c.uid, OutOfDate(c)),
           UNCHANGED <<cm, pod>>,
           \A u : Removed(u) => Removed(u)',
           \A d \in Copy : Marks(d)' => Marks(d),
           \A r \in Requests : req'[r] = req[r] \/ req'[r].pc \notin {"status", "uncm"}
    PROVE  /\ row' \in Rows /\ crossed' \in SUBSET Uids /\ crossed \subseteq crossed'
           /\ MarkedIsWritten' /\ GoneUncrossed' /\ Followed' /\ Deletions'
<1>1. row \in Rows /\ crossed \in SUBSET Uids /\ c.uid \in Uids
    BY CopyProperties DEF IInv, StateOK
<1>2. /\ crossed' \in SUBSET Uids /\ crossed \subseteq crossed'
      /\ OutOfDate(c) => c.uid \in crossed'
    BY <1>1 DEF Cross
<1>3. /\ row' \in Rows
      /\ \A v \in Uids : /\ Content(row'[v]) = Content(row[v])
                         /\ row'[v].status = row[v].status
                         /\ row[v] \in Row => row'[v] \in Row /\ row'[v].cfg = row[v].cfg
                         /\ v # c.uid => row'[v] = row[v]
    BY <1>1, SetSyncProperties
<1>4. MarkedIsWritten'
    <2>1. ASSUME NEW d \in Copy, Marks(d)'
          PROVE  InPlace(d)'
        <3>1. InPlace(d) /\ d.uid \in Uids
            BY <2>1, CopyProperties DEF IInv, MarkedIsWritten
        <3>2. OutOfDate(d)' = OutOfDate(d)
            BY <1>3, <3>1 DEF OutOfDate
        <3>3. QED
            BY <1>2, <3>1, <3>2 DEF InPlace
    <2>2. QED
        BY <2>1 DEF MarkedIsWritten
<1>5. GoneUncrossed'
    BY <1>2, <1>3 DEF IInv, GoneUncrossed
<1>6. Followed'
    <2>1. ASSUME NEW u \in Uids \ crossed', Kept(u)', cm'[u] # row'[u].cfg
          PROVE  row'[u].sync = "pending" \/ Removed(u)'
        <3>1. Kept(u) /\ row[u] \in Row
            BY <1>1, <1>3, <2>1, RowProperties DEF Kept, Rows
        <3>2. row'[u].cfg = row[u].cfg
            BY <1>3, <3>1
        <3>3. CASE u = c.uid
            <4>1. ~OutOfDate(c) /\ c.uid \notin crossed
                BY <1>2, <2>1, <3>3
            <4>2. row[u].cfg = c.cfg
                BY <1>1, <3>3, <4>1, OutOfDateProperties
            <4>3. InPlace(c)
                BY DEF IInv, MarkedIsWritten
            <4>4. Removed(c.uid)
                BY <2>1, <3>2, <3>3, <4>1, <4>2, <4>3 DEF InPlace
            <4>5. QED
                BY <3>3, <4>4
        <3>4. CASE u # c.uid
            <4>1. row'[u] = row[u] /\ u \in Uids \ crossed
                BY <1>2, <1>3, <3>4
            <4>2. row[u].sync = "pending" \/ Removed(u)
                BY <2>1, <3>1, <4>1 DEF IInv, Followed
            <4>3. QED
                BY <4>1, <4>2
        <3>5. QED
            BY <3>3, <3>4
    <2>2. QED
        BY <2>1 DEF Followed
<1>7. Deletions'
    BY <1>2 DEF IInv, Deletions, Deletion
<1>8. QED
    BY <1>2, <1>3, <1>4, <1>5, <1>6, <1>7

LEMMA MarkIInv == ASSUME IInv, NEW r \in Requests, Mark(r) PROVE IInv'
<1>1. /\ StateOK /\ req[r].pc = "mark" /\ req[r] \in Request /\ req[r].at \in Copy /\ Fit(req[r])
      /\ UNCHANGED <<cm, pod, worker, backup, dirty, flush, faults, missed>>
    BY DEF IInv, StateOK, Fits, Fit, Mark, Cluster, Loops
<1>2. PICK c \in Copy : c = req[r].at
    BY <1>1
<1>3. Marks(c) /\ SetSync(c.uid, "synced") /\ Cross(c.uid, OutOfDate(c))
    BY <1>1, <1>2 DEF Mark, Marks, SetSync, Cross, OutOfDate
<1>4. PICK pc \in {"done", "apply", "pod"} :
         /\ req' = [req EXCEPT ![r] = [req[r] EXCEPT !.at = NoCopy, !.pc = pc]]
         /\ pc = "pod" => req[r].kind \notin {"force", "update"}
    BY DEF Mark, Becomes
<1> DEFINE q == [req[r] EXCEPT !.at = NoCopy, !.pc = pc]
<1>5. q \in Request /\ q.pc = pc /\ q.kind = req[r].kind /\ q.uid = req[r].uid
      /\ q.todo = req[r].todo /\ q.at = NoCopy
    BY <1>1 DEF Request, Pcs
<1>6. req' = [req EXCEPT ![r] = q]
    BY <1>4
<1> HIDE DEF q
<1>7. Fit(q)
    BY <1>1, <1>4, <1>5 DEF Fit
<1>8. \A d \in Copy : d \in q.todo \cup {q.at} /\ d.status = "deleted" => d.uid \in crossed
    BY <1>5, NoCopyIsNone DEF IInv, CopiesOfDeleted, Holds
<1>9. crossed \subseteq crossed'
    BY <1>3 DEF Cross
<1>10. /\ req' \in [Requests -> Request]
       /\ req'[r] = q /\ \A s \in Requests : s # r => req'[s] = req[s]
       /\ Fits' /\ CopiesOfDeleted'
    BY <1>1, <1>5, <1>6, <1>7, <1>8, <1>9, RequestStep
<1>11. \A u : Removed(u) => Removed(u)'
    BY <1>1, <1>10 DEF Removed
<1>12. \A d \in Copy : Marks(d)' => Marks(d)
    BY <1>1, <1>4, <1>5, <1>10 DEF Marks
<1>13. \A s \in Requests : req'[s] = req[s] \/ req'[s].pc \notin {"status", "uncm"}
    BY <1>4, <1>5, <1>10
<1>14. /\ row' \in Rows /\ crossed' \in SUBSET Uids
       /\ MarkedIsWritten' /\ GoneUncrossed' /\ Followed' /\ Deletions'
    BY <1>1, <1>3, <1>11, <1>12, <1>13, MarkState
<1>15. StateOK'
    BY <1>1, <1>10, <1>14 DEF StateOK
<1>16. QED
    BY <1>10, <1>14, <1>15 DEF IInv

LEMMA SyncMarkIInv == IInv /\ SyncMark => IInv'
<1> SUFFICES ASSUME IInv, SyncMark
             PROVE  IInv'
    OBVIOUS
<1>1. /\ StateOK /\ worker.pc = "mark" /\ worker \in Worker /\ worker.at \in Copy
      /\ worker.todo \in SUBSET Copy /\ worker' = NextCopy(worker.todo)
      /\ UNCHANGED <<cm, pod, req, backup, dirty, flush, faults, missed>>
    BY DEF IInv, StateOK, Fits, SyncMark, Cluster, Worker
<1>2. PICK c \in Copy : c = worker.at
    BY <1>1
<1>3. Marks(c) /\ SetSync(c.uid, "synced") /\ Cross(c.uid, OutOfDate(c))
    BY <1>1, <1>2 DEF SyncMark, Marks, SetSync, Cross, OutOfDate
<1>4. worker' \in Worker /\ worker'.todo = worker.todo /\ worker'.at = NoCopy /\ worker'.pc # "mark"
    BY <1>1, NextCopyProperties
<1>5. \A d \in Copy : d \in worker'.todo \cup {worker'.at} /\ d.status = "deleted" => d.uid \in crossed
    BY <1>4, NoCopyIsNone DEF IInv, CopiesOfDeleted, Holds
<1>6. crossed \subseteq crossed'
    BY <1>3 DEF Cross
<1>7. Fits' /\ CopiesOfDeleted'
    BY <1>1, <1>4, <1>5, <1>6, WorkerStep
<1>8. /\ \A u : Removed(u) => Removed(u)'
      /\ \A d \in Copy : Marks(d)' => Marks(d)
    BY <1>1, <1>4 DEF Removed, Marks
<1>9. /\ row' \in Rows /\ crossed' \in SUBSET Uids
      /\ MarkedIsWritten' /\ GoneUncrossed' /\ Followed' /\ Deletions'
    BY <1>1, <1>3, <1>8, MarkState
<1>10. StateOK'
    BY <1>1, <1>4, <1>9 DEF StateOK
<1>11. QED
    BY <1>7, <1>9, <1>10 DEF IInv

\* Setting an instance pending does no harm.
LEMMA RependIInv == ASSUME IInv, NEW r \in Requests, Repend(r) PROVE IInv'
<1>1. /\ StateOK /\ row \in Rows /\ crossed \in SUBSET Uids
      /\ req[r].pc = "repend" /\ req[r].kind # "force" /\ req[r].uid \in Uids /\ Goes(r, "done")
      /\ UNCHANGED <<cm, pod, worker, backup, dirty, flush, faults, crossed, missed>>
    BY DEF IInv, StateOK, Fits, Fit, Repend, Cluster, Loops
<1>2. PICK x \in Uids : x = req[r].uid
    BY <1>1
<1>3. SetSync(x, "pending")
    BY <1>2 DEF Repend, SetSync
<1>4. /\ row' \in Rows
      /\ \A v \in Uids : /\ Content(row'[v]) = Content(row[v])
                         /\ row'[v].status = row[v].status
                         /\ row[v] \in Row => row'[v] \in Row /\ row'[v].cfg = row[v].cfg
                         /\ v # x => row'[v] = row[v]
      /\ row[x] \in Row => row'[x].sync = "pending"
    BY <1>1, <1>3, SetSyncProperties
<1>5. "done" \in Pcs \ {"mark"}
    BY DEF Pcs
<1>6. PICK q \in Request :
              /\ req' = [req EXCEPT ![r] = q] /\ Fit(q)
              /\ q.pc = "done" /\ q.kind = req[r].kind /\ q.uid = req[r].uid
              /\ \A c \in Copy : c \in q.todo \cup {q.at} /\ c.status = "deleted" => c.uid \in crossed
    BY <1>1, <1>5, GoesOn
<1>7. /\ req' \in [Requests -> Request]
      /\ req'[r] = q /\ \A s \in Requests : s # r => req'[s] = req[s]
      /\ Fits' /\ CopiesOfDeleted'
    BY <1>1, <1>6, RequestStep
<1>8. StateOK'
    BY <1>1, <1>4, <1>7 DEF StateOK
<1>9. /\ \A u : Removed(u) => Removed(u)'
      /\ \A d \in Copy : Marks(d)' => Marks(d)
    BY <1>1, <1>6, <1>7 DEF Removed, Marks
<1>10. MarkedIsWritten'
    <2>1. ASSUME NEW d \in Copy, Marks(d)'
          PROVE  InPlace(d)'
        <3>1. InPlace(d) /\ d.uid \in Uids
            BY <1>9, <2>1, CopyProperties DEF IInv, MarkedIsWritten
        <3>2. OutOfDate(d)' = OutOfDate(d)
            BY <1>4, <3>1 DEF OutOfDate
        <3>3. QED
            BY <1>1, <1>9, <3>1, <3>2 DEF InPlace
    <2>2. QED
        BY <2>1 DEF MarkedIsWritten
<1>11. GoneUncrossed' /\ Deletions'
    BY <1>1, <1>4, <1>6, <1>7 DEF IInv, GoneUncrossed, Deletions, Deletion
<1>12. Followed'
    <2>1. ASSUME NEW u \in Uids \ crossed', Kept(u)', cm'[u] # row'[u].cfg
          PROVE  row'[u].sync = "pending" \/ Removed(u)'
        <3>1. Kept(u) /\ row[u] \in Row
            BY <1>1, <1>4, <2>1, RowProperties DEF Kept, Rows
        <3>2. CASE u = x
            BY <1>4, <3>1, <3>2
        <3>3. CASE u # x
            <4>1. row'[u] = row[u] /\ u \in Uids \ crossed
                BY <1>1, <1>4, <3>3
            <4>2. row[u].sync = "pending" \/ Removed(u)
                BY <1>1, <2>1, <3>1, <4>1 DEF IInv, Followed
            <4>3. QED
                BY <1>9, <4>1, <4>2
        <3>4. QED
            BY <3>2, <3>3
    <2>2. QED
        BY <2>1 DEF Followed
<1>13. QED
    BY <1>7, <1>8, <1>10, <1>11, <1>12 DEF IInv

\* A pod made for an instance that is gone, or going, is said of the instance.
LEMMA CreatePodIInv == ASSUME IInv, NEW r \in Requests, CreatePod(r) PROVE IInv'
<1>1. /\ StateOK /\ row \in Rows /\ crossed \in SUBSET Uids /\ pod \in SUBSET Uids
      /\ req[r].pc = "pod" /\ req[r] \in Request /\ req[r].kind # "force" /\ req[r].uid \in Uids
      /\ UNCHANGED <<row, cm, worker, backup, dirty, flush, missed>>
    BY DEF IInv, StateOK, Fits, Fit, CreatePod, Database
<1>2. PICK u \in Uids : u = req[r].uid
    BY <1>1
<1>3. \/ /\ pod' = pod \cup {u}
         /\ Goes(r, CASE req[r].kind = "start" -> "status"
                      [] req[r].kind = "import" -> "flush"
                      [] OTHER -> "done")
         /\ Cross(u, row[u].status \in {"absent", "deleted"} \/ Deleting(u))
         /\ UNCHANGED faults
      \/ Fault("k8s") /\ Becomes(r, AfterFailure(req[r])) /\ UNCHANGED <<pod, crossed>>
    BY <1>2, Zenon DEF CreatePod
<1>4. CASE Fault("k8s") /\ Becomes(r, AfterFailure(req[r])) /\ UNCHANGED <<pod, crossed>>
    <2>1. PICK q \in Request :
              /\ req' = [req EXCEPT ![r] = q] /\ Fit(q)
              /\ q.pc \notin {"mark", "status", "uncm"}
              /\ \A c \in Copy : c \in q.todo \cup {q.at} /\ c.status = "deleted" => c.uid \in crossed
        BY <1>1, <1>4, Fails
    <2>2. BackupTyped'
        BY <1>1, <1>4, FaultProperties DEF StateOK, BackupTyped
    <2>3. QED
        BY <1>1, <1>4, <2>1, <2>2, QuietRequest
<1>5. CASE /\ pod' = pod \cup {u} /\ UNCHANGED faults
           /\ Goes(r, CASE req[r].kind = "start" -> "status"
                        [] req[r].kind = "import" -> "flush"
                        [] OTHER -> "done")
           /\ Cross(u, row[u].status \in {"absent", "deleted"} \/ Deleting(u))
    <2>1. PICK pc \in {"status", "flush", "done"} :
             /\ Goes(r, pc) /\ pc \in Pcs \ {"mark"}
             /\ pc = "status" => req[r].kind = "start"
        BY <1>1, <1>5 DEF Pcs
    <2>2. PICK q \in Request :
              /\ req' = [req EXCEPT ![r] = q] /\ Fit(q)
              /\ q.pc = pc /\ q.kind = req[r].kind /\ q.uid = req[r].uid
              /\ \A c \in Copy : c \in q.todo \cup {q.at} /\ c.status = "deleted" => c.uid \in crossed
        BY <1>1, <2>1, GoesOn
    <2>3. /\ crossed' \in SUBSET Uids /\ crossed \subseteq crossed'
          /\ row[u].status = "deleted" \/ Deleting(u) => u \in crossed'
        BY <1>1, <1>5 DEF Cross
    <2>4. /\ req' \in [Requests -> Request]
          /\ req'[r] = q /\ \A s \in Requests : s # r => req'[s] = req[s]
          /\ Fits' /\ CopiesOfDeleted'
        BY <1>1, <2>2, <2>3, RequestStep
    <2>5. StateOK'
        BY <1>1, <1>5, <2>3, <2>4 DEF StateOK
    <2>6. /\ \A v : Removed(v) => Removed(v)'
          /\ \A d \in Copy : Marks(d)' => Marks(d)
        BY <1>1, <2>1, <2>2, <2>4 DEF Removed, Marks
    <2>7. MarkedIsWritten'
        <3>1. ASSUME NEW d \in Copy, Marks(d)'
              PROVE  InPlace(d)'
            <4>1. InPlace(d) /\ OutOfDate(d)' = OutOfDate(d)
                BY <1>1, <2>6, <3>1 DEF IInv, MarkedIsWritten, OutOfDate
            <4>2. QED
                BY <1>1, <2>3, <2>6, <4>1 DEF InPlace
        <3>2. QED
            BY <3>1 DEF MarkedIsWritten
    <2>8. GoneUncrossed'
        BY <1>1, <1>5, <2>3 DEF IInv, GoneUncrossed
    <2>9. Followed'
        BY <1>1, <2>3, <2>6 DEF IInv, Followed, Kept
    <2>10. Deletions'
        <3>1. ASSUME NEW s \in Requests
              PROVE  Deletion(req[s])'
            <4>1. CASE s = r
                BY <2>1, <2>2, <2>4, <4>1 DEF Deletion
            <4>2. CASE s # r
                <5>1. req'[s] = req[s] /\ Deletion(req[s])
                    BY <2>4, <4>2 DEF IInv, Deletions
                <5>2. req[s].kind = "delete" /\ req[s].pc \in {"uncm", "status"} => Deleting(req[s].uid)
                    BY DEF Deleting, Active
                <5>3. req[s].kind = "delete" /\ req[s].pc \in {"uncm", "status"} /\ req[s].uid = u
                         => u \in crossed'
                    BY <2>3, <5>2
                <5>4. QED
                    BY <1>1, <1>5, <2>3, <5>1, <5>3 DEF Deletion
            <4>3. QED
                BY <4>1, <4>2
        <3>2. QED
            BY <3>1 DEF Deletions
    <2>11. QED
        BY <2>4, <2>5, <2>7, <2>8, <2>9, <2>10 DEF IInv
<1>6. QED
    BY <1>3, <1>4, <1>5

-----------------------------------------------------------------------------
(* Rows change.                                                            *)

LEMMA RowState ==
    ASSUME IInv, NEW u \in Uids, NEW i \in Row \cup {Absent}, row' = [row EXCEPT ![u] = i],
           UNCHANGED <<cm, pod>>, crossed \subseteq crossed',
           Revives(u, i) => u \in crossed',
           \A d \in Copy : Marks(d)' => Marks(d),
           \A r \in Requests : req'[r] = req[r] \/ req'[r].pc \notin {"status", "uncm"},
           \A v : Removed(v) => Removed(v)' \/ (v = u /\ i.status \in {"absent", "deleted"}),
           i.status = "deleted" => u \in crossed' \/ (cm[u] = NoConfig /\ u \notin pod),
           i.status \in {"running", "stopped"} =>
              \/ u \in crossed' \/ i.sync = "pending"
              \/ /\ row[u].status \in {"running", "stopped"}
                 /\ i.cfg = row[u].cfg /\ i.sync = row[u].sync
    PROVE  row' \in Rows /\ MarkedIsWritten' /\ GoneUncrossed' /\ Followed' /\ Deletions'
<1>1. row \in Rows /\ row' \in Rows /\ row'[u] = i /\ \A v \in Uids : v # u => row'[v] = row[v]
    BY DEF IInv, StateOK, Rows
<1>2. MarkedIsWritten'
    <2>1. ASSUME NEW d \in Copy, Marks(d)'
          PROVE  InPlace(d)'
        <3>1. InPlace(d) /\ Holds(d) /\ d.uid \in Uids
            BY <2>1, MarkedIsHeld, CopyProperties DEF IInv, MarkedIsWritten
        <3>2. CASE OutOfDate(d)
            <4>1. OutOfDate(d)' \/ (d.uid = u /\ Revives(u, i))
                BY <1>1, <3>1, <3>2, Revival
            <4>2. QED
                BY <4>1 DEF InPlace
        <3>3. CASE Removed(d.uid) /\ ~OutOfDate(d)
            <4>1. CASE Removed(d.uid)'
                BY <4>1 DEF InPlace
            <4>2. CASE d.uid = u /\ i.status \in {"absent", "deleted"}
                <5>1. d.status = "deleted" => u \in crossed
                    BY <3>1, <4>2 DEF IInv, CopiesOfDeleted
                <5>2. d.status # "deleted" => OutOfDate(d)'
                    <6>1. d.status \in {"running", "stopped", "deleted"} /\ d.cfg \in Configs
                        BY CopyProperties
                    <6>2. d.status # "deleted" => Content(i) # [cfg |-> d.cfg, status |-> d.status]
                        BY <4>2, <6>1, ContentProperties
                    <6>3. QED
                        BY <1>1, <4>2, <6>2 DEF OutOfDate
                <5>3. QED
                    BY <4>2, <5>1, <5>2 DEF InPlace
            <4>3. QED
                BY <3>3, <4>1, <4>2
        <3>4. CASE d.uid \in crossed \/ cm[d.uid] = d.cfg
            BY <3>4 DEF InPlace
        <3>5. QED
            BY <3>1, <3>2, <3>3, <3>4 DEF InPlace
    <2>2. QED
        BY <2>1 DEF MarkedIsWritten
<1>3. GoneUncrossed'
    BY <1>1 DEF IInv, GoneUncrossed
<1>4. Followed'
    <2>1. ASSUME NEW v \in Uids \ crossed', Kept(v)', cm'[v] # row'[v].cfg
          PROVE  row'[v].sync = "pending" \/ Removed(v)'
        <3>1. CASE v = u
            <4>1. i.status \in {"running", "stopped"}
                BY <1>1, <2>1, <3>1 DEF Kept
            <4>2. CASE i.sync = "pending"
                BY <1>1, <3>1, <4>2
            <4>3. CASE /\ row[u].status \in {"running", "stopped"}
                       /\ i.cfg = row[u].cfg /\ i.sync = row[u].sync
                <5>1. row[u].sync = "pending" \/ Removed(u)
                    BY <1>1, <2>1, <3>1, <4>3 DEF IInv, Followed, Kept
                <5>2. QED
                    BY <1>1, <3>1, <4>1, <4>3, <5>1
            <4>4. QED
                BY <2>1, <3>1, <4>1, <4>2, <4>3
        <3>2. CASE v # u
            <4>1. row'[v] = row[v] /\ v \in Uids \ crossed
                BY <1>1, <3>2
            <4>2. row[v].sync = "pending" \/ Removed(v)
                BY <2>1, <4>1 DEF IInv, Followed, Kept
            <4>3. QED
                BY <3>2, <4>1, <4>2
        <3>3. QED
            BY <3>1, <3>2
    <2>2. QED
        BY <2>1 DEF Followed
<1>5. Deletions'
    BY DEF IInv, Deletions, Deletion
<1>6. QED
    BY <1>1, <1>2, <1>3, <1>4, <1>5

\* What an insertion and an update have in common.
LEMMA BeginWithRow ==
    ASSUME IInv, NEW r \in Requests, req[r].pc = "new", NEW u \in Uids,
           NEW i \in Row, i.sync = "pending", row' = [row EXCEPT ![u] = i],
           NEW kind \in AllKinds \ {"force"}, NEW c \in Copy, c.status = i.status,  c.uid = u,
           Becomes(r, Starts("apply", kind, u, {c})),
           NEW b \in BOOLEAN, Cross(u, b), Revives(u, i) => b, i.status = "deleted" => b,
           dirty' = TRUE, UNCHANGED <<cm, pod, backup, worker, flush, faults, missed>>
    PROVE  IInv'
<1> DEFINE q == Starts("apply", kind, u, {c})
<1>1. "apply" \in Pcs \ {"mark"} /\ kind \in AllKinds /\ {c} \in SUBSET Copy
    BY DEF Pcs
<1>2. q \in Request /\ Fit(q) /\ q.todo = {c} /\ q.at = NoCopy /\ q.pc = "apply"
    BY <1>1, StartsProperties
<1>3. req' = [req EXCEPT ![r] = q]
    BY DEF Becomes
<1> HIDE DEF q
<1>4. crossed' \in SUBSET Uids /\ crossed \subseteq crossed' /\ (b => u \in crossed')
    BY DEF IInv, StateOK, Cross
<1>5. \A d \in Copy : d \in q.todo \cup {q.at} /\ d.status = "deleted" => d.uid \in crossed'
    BY <1>2, <1>4, NoCopyIsNone
<1>6. /\ req' \in [Requests -> Request]
      /\ req'[r] = q /\ \A s \in Requests : s # r => req'[s] = req[s]
      /\ Fits' /\ CopiesOfDeleted'
    BY <1>2, <1>3, <1>4, <1>5, RequestStep
<1>7. /\ \A v : Removed(v) => Removed(v)'
      /\ \A d \in Copy : Marks(d)' => Marks(d)
      /\ \A s \in Requests : req'[s] = req[s] \/ req'[s].pc \notin {"status", "uncm"}
    BY <1>2, <1>6 DEF Removed, Marks
<1>8. row' \in Rows /\ MarkedIsWritten' /\ GoneUncrossed' /\ Followed' /\ Deletions'
    BY <1>4, <1>7, RowState
<1>9. StateOK'
    BY <1>4, <1>6, <1>8 DEF IInv, StateOK
<1>10. QED
    BY <1>6, <1>8, <1>9 DEF IInv

LEMMA InsertIInv == ASSUME IInv, NEW r \in Requests, NEW u \in Uids, Insert(r, u) PROVE IInv'
<1>1. /\ row \in Rows /\ req[r].pc = "new" /\ dirty' = TRUE
      /\ UNCHANGED <<cm, pod, backup, worker, flush, faults, missed>>
      /\ Cross(u, Revives(u, row'[u]))
    BY DEF IInv, StateOK, Insert, Cluster, Loops
<1>2. PICK kind \in {"create", "import"}, c \in Configs :
          /\ row' = [row EXCEPT ![u] = [cfg |-> c, sync |-> "pending", status |-> "running"]]
          /\ Becomes(r, Starts("apply", kind, u, {[uid |-> u, cfg |-> c, status |-> "running"]}))
    BY DEF Insert
<1> DEFINE i == [cfg |-> c, sync |-> "pending", status |-> "running"]
           d == [uid |-> u, cfg |-> c, status |-> "running"]
<1>3. i \in Row /\ d \in Copy /\ i.sync = "pending" /\ i.status = "running"
      /\ d.status = "running" /\ d.uid = u
    BY DEF Row, Copy
<1>4. row' = [row EXCEPT ![u] = i] /\ Becomes(r, Starts("apply", kind, u, {d}))
    BY <1>2
<1> HIDE DEF i, d
<1>5. row'[u] = i
    BY <1>1, <1>4 DEF Rows
<1>6. PICK b \in BOOLEAN : b <=> Revives(u, i)
    OBVIOUS
<1>7. Cross(u, b)
    BY <1>1, <1>5, <1>6 DEF Cross
<1>8. kind \in AllKinds \ {"force"}
    BY DEF AllKinds
<1>9. QED
    BY <1>1, <1>3, <1>4, <1>6, <1>7, <1>8, BeginWithRow

LEMMA UpdateIInv == ASSUME IInv, NEW r \in Requests, NEW u \in Uids, Update(r, u) PROVE IInv'
<1>1. /\ row \in Rows /\ req[r].pc = "new" /\ dirty' = TRUE /\ row[u] # Absent
      /\ UNCHANGED <<cm, pod, backup, worker, flush, faults, missed>>
      /\ Cross(u, row[u].status = "deleted" \/ Revives(u, row'[u]))
    BY DEF IInv, StateOK, Update, Cluster, Loops
<1>2. PICK kind \in {"update", "redeploy"}, c \in Configs :
          /\ row' = [row EXCEPT ![u] = [row[u] EXCEPT !.cfg = c, !.sync = "pending"]]
          /\ Becomes(r, Starts("apply", kind, u, {[uid |-> u, cfg |-> c, status |-> row[u].status]}))
    BY DEF Update
<1>3. row[u] \in Row
    BY <1>1 DEF Rows
<1> DEFINE i == [row[u] EXCEPT !.cfg = c, !.sync = "pending"]
           d == [uid |-> u, cfg |-> c, status |-> row[u].status]
<1>4. i \in Row /\ d \in Copy /\ i.sync = "pending" /\ i.status = row[u].status
      /\ d.status = i.status /\ d.uid = u
    BY <1>3 DEF Row, Copy
<1>5. row' = [row EXCEPT ![u] = i] /\ Becomes(r, Starts("apply", kind, u, {d}))
    BY <1>2
<1> HIDE DEF i, d
<1>6. row'[u] = i
    BY <1>1, <1>5 DEF Rows
<1>7. PICK b \in BOOLEAN : b <=> row[u].status = "deleted" \/ Revives(u, i)
    OBVIOUS
<1>8. Cross(u, b)
    BY <1>1, <1>6, <1>7 DEF Cross
<1>9. kind \in AllKinds \ {"force"}
    BY DEF AllKinds
<1>10. QED
    BY <1>1, <1>4, <1>5, <1>7, <1>8, <1>9, BeginWithRow

\* The row of a deletion goes, or is marked, when its pod and its ConfigMap are gone.
LEMMA SetStatusIInv == ASSUME IInv, NEW r \in Requests, SetStatus(r) PROVE IInv'
<1>1. /\ StateOK /\ row \in Rows /\ crossed \in SUBSET Uids /\ req[r].pc = "status" /\ dirty' = TRUE
      /\ req[r].kind \in {"start", "stop", "delete"} /\ req[r].uid \in Uids /\ Goes(r, "done")
      /\ UNCHANGED <<cm, pod, backup, worker, flush, faults, missed>>
    BY DEF IInv, StateOK, Fits, Fit, SetStatus, Cluster, Loops
<1>2. PICK u \in Uids : u = req[r].uid
    BY <1>1
<1>3. PICK s \in {"running", "stopped", "deleted"} :
          /\ s = "deleted" <=> req[r].kind = "delete"
          /\ \/ row' = [row EXCEPT ![u] = IF row[u] = Absent THEN row[u] ELSE [row[u] EXCEPT !.status = s]]
             \/ req[r].kind = "delete" /\ row' = [row EXCEPT ![u] = Absent]
          /\ Cross(u, (row[u].status = "deleted" /\ s # "deleted") \/ Revives(u, row'[u]))
    BY <1>1, <1>2 DEF SetStatus, StatusOf
<1>4. PICK i \in Row \cup {Absent} :
          /\ row' = [row EXCEPT ![u] = i]
          /\ \/ i.status = "absent" /\ (req[r].kind = "delete" \/ i = row[u])
             \/ /\ row[u] \in Row /\ i \in Row /\ i.status = s
                /\ i.cfg = row[u].cfg /\ i.sync = row[u].sync
    <2>0. Absent.status = "absent"
        BY DEF Absent
    <2>1. CASE row' = [row EXCEPT ![u] = Absent] /\ req[r].kind = "delete"
        BY <2>0, <2>1
    <2>2. CASE row[u] = Absent /\ row' = [row EXCEPT ![u] = row[u]]
        BY <2>0, <2>2
    <2>3. CASE row[u] # Absent /\ row' = [row EXCEPT ![u] = [row[u] EXCEPT !.status = s]]
        <3>1. row[u] \in Row
            BY <1>1, <2>3 DEF Rows
        <3>2. /\ [row[u] EXCEPT !.status = s] \in Row /\ [row[u] EXCEPT !.status = s].status = s
              /\ [row[u] EXCEPT !.status = s].cfg = row[u].cfg
              /\ [row[u] EXCEPT !.status = s].sync = row[u].sync
            BY <3>1 DEF Row
        <3>3. PICK i \in Row : /\ row' = [row EXCEPT ![u] = i] /\ i.status = s
                               /\ i.cfg = row[u].cfg /\ i.sync = row[u].sync
            BY <2>3, <3>2
        <3>4. QED
            BY <3>1, <3>3
    <2>4. QED
        BY <1>3, <2>1, <2>2, <2>3
<1>5. row'[u] = i
    BY <1>1, <1>4 DEF Rows
<1>6. /\ crossed' \in SUBSET Uids /\ crossed \subseteq crossed'
      /\ Revives(u, i) => u \in crossed'
      /\ row[u].status = "deleted" /\ s # "deleted" => u \in crossed'
    BY <1>1, <1>3, <1>5 DEF Cross
<1>7. "done" \in Pcs \ {"mark"} /\ req[r].kind # "force"
    BY <1>1 DEF Pcs
<1>8. PICK q \in Request :
              /\ req' = [req EXCEPT ![r] = q] /\ Fit(q)
              /\ q.pc = "done" /\ q.kind = req[r].kind /\ q.uid = req[r].uid
              /\ \A c \in Copy : c \in q.todo \cup {q.at} /\ c.status = "deleted" => c.uid \in crossed
    BY <1>1, <1>7, GoesOn
<1>9. /\ req' \in [Requests -> Request]
      /\ req'[r] = q /\ \A t \in Requests : t # r => req'[t] = req[t]
      /\ Fits' /\ CopiesOfDeleted'
    BY <1>1, <1>6, <1>8, RequestStep
<1>10. /\ \A d \in Copy : Marks(d)' => Marks(d)
       /\ \A t \in Requests : req'[t] = req[t] \/ req'[t].pc \notin {"status", "uncm"}
    BY <1>1, <1>8, <1>9 DEF Marks
<1>11. \A v : Removed(v) => Removed(v)' \/ (v = u /\ i.status \in {"absent", "deleted"})
    BY <1>2, <1>3, <1>4, <1>9 DEF Removed
<1>12. i.status = "deleted" => u \in crossed' \/ (cm[u] = NoConfig /\ u \notin pod)
    <2>1. Deletion(req[r])
        BY DEF IInv, Deletions
    <2>2. i.status = "deleted" => s = "deleted"
        BY <1>3, <1>4
    <2>3. QED
        BY <1>1, <1>2, <1>3, <1>6, <2>1, <2>2 DEF Deletion
<1>13. i.status \in {"running", "stopped"} =>
          \/ u \in crossed' \/ i.sync = "pending"
          \/ /\ row[u].status \in {"running", "stopped"}
             /\ i.cfg = row[u].cfg /\ i.sync = row[u].sync
    BY <1>3, <1>4, <1>6 DEF Row
<1>14. row' \in Rows /\ MarkedIsWritten' /\ GoneUncrossed' /\ Followed' /\ Deletions'
    BY <1>1, <1>4, <1>6, <1>10, <1>11, <1>12, <1>13, RowState
<1>15. StateOK'
    BY <1>1, <1>6, <1>9, <1>14 DEF StateOK
<1>16. QED
    BY <1>9, <1>14, <1>15 DEF IInv

\* Where the row cannot be written, a deletion is cut off, which is said of its
\* instance.
LEMMA SetStatusFailsIInv == ASSUME IInv, NEW r \in Requests, SetStatusFails(r) PROVE IInv'
<1>1. /\ StateOK /\ row \in Rows /\ crossed \in SUBSET Uids /\ req[r].pc = "status"
      /\ req[r].kind \in {"start", "stop", "delete"} /\ req[r].uid \in Uids /\ Goes(r, "done")
      /\ UNCHANGED <<row, cm, pod, backup, dirty, worker, flush, missed>>
      /\ Cross(req[r].uid, req[r].kind = "delete") /\ Fault("db")
    BY DEF IInv, StateOK, Fits, Fit, SetStatusFails, Cluster, Database
<1>2. /\ crossed' \in SUBSET Uids /\ crossed \subseteq crossed'
      /\ req[r].kind = "delete" => req[r].uid \in crossed'
    BY <1>1 DEF Cross
<1>3. "done" \in Pcs \ {"mark"} /\ req[r].kind # "force"
    BY <1>1 DEF Pcs
<1>4. PICK q \in Request :
              /\ req' = [req EXCEPT ![r] = q] /\ Fit(q)
              /\ q.pc = "done" /\ q.kind = req[r].kind /\ q.uid = req[r].uid
              /\ \A c \in Copy : c \in q.todo \cup {q.at} /\ c.status = "deleted" => c.uid \in crossed
    BY <1>1, <1>3, GoesOn
<1>5. /\ req' \in [Requests -> Request]
      /\ req'[r] = q /\ \A t \in Requests : t # r => req'[t] = req[t]
      /\ Fits' /\ CopiesOfDeleted'
    BY <1>1, <1>2, <1>4, RequestStep
<1>6. /\ \A u \in Uids : Removed(u) => Removed(u)' \/ u \in crossed'
      /\ \A c \in Copy : Marks(c)' => Marks(c)
      /\ \A t \in Requests : req'[t].pc \notin {"status", "uncm"} \/ req'[t] = req[t]
    <2>1. \A u \in Uids : Removed(u) => Removed(u)' \/ u \in crossed'
        BY <1>2, <1>5 DEF Removed
    <2>2. \A c \in Copy : Marks(c)' => Marks(c)
        BY <1>1, <1>4, <1>5 DEF Marks
    <2>3. QED
        BY <2>1, <2>2, <1>4, <1>5
<1>7. MarkedIsWritten' /\ GoneUncrossed' /\ Followed' /\ Deletions'
    BY <1>1, <1>2, <1>6, ClusterKept
<1>8. StateOK'
    BY <1>1, <1>2, <1>5, FaultProperties DEF StateOK
<1>9. QED
    BY <1>5, <1>7, <1>8 DEF IInv

-----------------------------------------------------------------------------
(* The worker's round, the backup, the crash.                              *)

LEMMA SyncRoundIInv == IInv /\ SyncRound => IInv'
<1> SUFFICES ASSUME IInv, SyncRound
             PROVE  IInv'
    OBVIOUS
<1>1. /\ StateOK /\ row \in Rows /\ crossed \in SUBSET Uids /\ worker \in Worker /\ worker.pc = "idle"
      /\ UNCHANGED <<row, cm, pod, req, backup, dirty, flush, missed, crossed>>
    BY DEF IInv, StateOK, SyncRound, LoopFree, Database, Cluster
<1> DEFINE todo == {CopyOf(u) : u \in Pending}
<1>2. todo \in SUBSET Copy /\ \A c \in todo : c.status # "deleted"
    BY <1>1, CopyOfProperties DEF Pending
<1>3. \/ worker' = [worker EXCEPT !.pc = "apply", !.todo = todo] /\ UNCHANGED faults
      \/ Fault("crd") /\ UNCHANGED worker
    BY DEF SyncRound
<1> HIDE DEF todo
<1>4. /\ worker' \in Worker /\ worker'.pc # "mark" /\ worker'.at = worker.at
      /\ worker'.todo \in {todo, worker.todo}
    BY <1>1, <1>2, <1>3 DEF Worker
<1>5. \A c \in Copy : c \in worker'.todo \cup {worker'.at} /\ c.status = "deleted" => c.uid \in crossed'
    BY <1>1, <1>2, <1>4 DEF IInv, CopiesOfDeleted, Holds
<1>6. Fits' /\ CopiesOfDeleted'
    BY <1>1, <1>4, <1>5, WorkerStep
<1>7. /\ \A u : Removed(u) => Removed(u)'
      /\ \A d \in Copy : Marks(d)' => Marks(d)
    BY <1>1, <1>4 DEF Removed, Marks
<1>8. MarkedIsWritten' /\ GoneUncrossed' /\ Followed' /\ Deletions'
    BY <1>1, <1>7, ClusterKept
<1>9. StateOK'
    BY <1>1, <1>3, <1>4, FaultProperties DEF StateOK
<1>10. QED
    BY <1>6, <1>8, <1>9 DEF IInv

LEMMA FlushLoopIInv == IInv /\ FlushLoop => IInv'
<1> SUFFICES ASSUME IInv, FlushLoop
             PROVE  IInv'
    OBVIOUS
<1>1. /\ StateOK /\ worker' = IdleWorker /\ dirty' = FALSE
      /\ flush' \in {flush, flush \cup {"loop"}}
      /\ UNCHANGED <<row, cm, pod, backup, req, faults, crossed, missed>>
    BY DEF IInv, StateOK, FlushLoop, Cluster
<1>2. /\ worker' \in Worker /\ worker'.pc = "idle" /\ worker'.todo = {} /\ worker'.at = NoCopy
    BY <1>1 DEF IdleWorker, Worker
<1>3. \A c \in Copy : c \in worker'.todo \cup {worker'.at} /\ c.status = "deleted" => c.uid \in crossed'
    BY <1>2, NoCopyIsNone
<1>4. Fits' /\ CopiesOfDeleted'
    BY <1>1, <1>2, <1>3, WorkerStep
<1>5. /\ \A u : Removed(u) => Removed(u)'
      /\ \A d \in Copy : Marks(d)' => Marks(d)
    BY <1>1, <1>2 DEF Removed, Marks
<1>6. MarkedIsWritten' /\ GoneUncrossed' /\ Followed' /\ Deletions'
    BY <1>1, <1>5, ClusterKept
<1>7. StateOK'
    BY <1>1, <1>2 DEF StateOK
<1>8. QED
    BY <1>4, <1>6, <1>7 DEF IInv

LEMMA CopyToNasIInv == ASSUME IInv, NEW f, CopyToNas(f) PROVE IInv'
<1>1. /\ StateOK /\ flush' \subseteq flush /\ missed' \in BOOLEAN
      /\ backup' \in {row, backup} /\ (UNCHANGED faults \/ Fault("nas"))
      /\ UNCHANGED <<row, cm, pod, dirty, req, worker, crossed>>
    BY DEF IInv, StateOK, CopyToNas, Cluster
<1>2. StateOK'
    BY <1>1, FaultProperties DEF StateOK
<1>3. /\ \A u : Removed(u) => Removed(u)'
      /\ \A d \in Copy : Marks(d)' => Marks(d)
      /\ \A d : Holds(d)' => Holds(d)
    BY <1>1 DEF Removed, Marks, Holds
<1>4. Fits' /\ CopiesOfDeleted'
    BY <1>1, <1>3 DEF IInv, Fits, Fit, CopiesOfDeleted
<1>5. MarkedIsWritten' /\ GoneUncrossed' /\ Followed' /\ Deletions'
    BY <1>1, <1>3, ClusterKept
<1>6. QED
    BY <1>2, <1>4, <1>5 DEF IInv

\* A deletion that the crash cuts off is said of its instance.
LEMMA CrashIInv == IInv /\ Crash => IInv'
<1> SUFFICES ASSUME IInv, Crash
             PROVE  IInv'
    OBVIOUS
<1>1. /\ StateOK /\ row \in Rows /\ backup \in Rows /\ crossed \in SUBSET Uids
      /\ req \in [Requests -> Request] /\ missed \in BOOLEAN
      /\ worker' = IdleWorker /\ flush' = {} /\ dirty' = FALSE
      /\ UNCHANGED <<cm, pod, backup>>
    BY DEF IInv, StateOK, Crash, Cluster
<1> DEFINE over == [NewRequest EXCEPT !.pc = "done"]
<1>2. /\ over \in Request /\ Fit(over) /\ over.pc = "done" /\ over.todo = {} /\ over.at = NoCopy
    BY DEF NewRequest, Starts, Request, Pcs, AllKinds, Fit
<1>3. req' = [r \in Requests |-> IF Active(r) THEN over ELSE req[r]]
    BY DEF Crash
<1> HIDE DEF over
<1>4. /\ req' \in [Requests -> Request]
      /\ \A r \in Requests : req'[r] = over \/ (req'[r] = req[r] /\ ~Active(r))
    BY <1>1, <1>2, <1>3
<1>5. /\ worker' \in Worker /\ worker'.pc = "idle" /\ worker'.todo = {} /\ worker'.at = NoCopy
    BY <1>1 DEF IdleWorker, Worker
<1>6. /\ row' \in {row, backup} /\ crossed' \in SUBSET Uids /\ crossed \subseteq crossed'
      /\ \/ row' = row /\ \A u \in Uids : Deleting(u) => u \in crossed'
         \/ crossed' = Uids
      /\ faults' \in 0..MaxFaults /\ missed' \in BOOLEAN
    BY <1>1, FaultProperties DEF StateOK, Crash
<1>7. StateOK'
    BY <1>1, <1>4, <1>5, <1>6 DEF StateOK
<1>8. Fits'
    BY <1>2, <1>4, <1>5 DEF IInv, Fits, Fit
<1>9. \A c \in Copy : Holds(c)' => Holds(c)
    BY <1>2, <1>4, <1>5, NoCopyIsNone DEF Holds
<1>10. CopiesOfDeleted'
    BY <1>6, <1>9 DEF IInv, CopiesOfDeleted
<1>11. \A c \in Copy : ~Marks(c)'
    BY <1>2, <1>4, <1>5 DEF Marks, Active
<1>12. MarkedIsWritten'
    BY <1>11 DEF MarkedIsWritten
<1>13. \A r \in Requests : req'[r].pc \notin {"status", "uncm"}
    BY <1>2, <1>4 DEF Active
<1>14. Deletions'
    BY <1>13 DEF Deletions, Deletion
<1>15. GoneUncrossed'
    BY <1>1, <1>6 DEF IInv, GoneUncrossed
<1>16. \A u \in Uids : Removed(u) => Deleting(u)
    BY DEF Removed, Deleting, Active
<1>17. Followed'
    BY <1>1, <1>6, <1>16 DEF IInv, Followed, Kept
<1>18. QED
    BY <1>7, <1>8, <1>10, <1>12, <1>14, <1>15, <1>17 DEF IInv

LEMMA InitIInv == Init => IInv
<1> SUFFICES ASSUME Init
             PROVE  IInv
    OBVIOUS
<1> DEFINE New == [cfg: Configs, sync: {"synced"}, status: {"running"}]
<1>0. \A i \in New : i \in Row /\ i.status = "running"
    BY DEF Row
<1>15. row \in [Uids -> New \cup {Absent}]
    BY DEF Init
<1> HIDE DEF New
<1>1. /\ \A u \in Uids : /\ row[u] \in Row \cup {Absent}
                         /\ row[u] \in Row => row[u].status = "running"
      /\ row \in Rows
    <2>1. Absent \notin Row
        BY RowProperties
    <2>2. QED
        BY <1>0, <1>15, <2>1 DEF Rows
<1>2. cm \in [Uids -> Configs \cup {NoConfig}] /\ pod \in SUBSET Uids
    <2>1. \A u \in Uids : (IF row[u] = Absent THEN NoConfig ELSE row[u].cfg) \in Configs \cup {NoConfig}
        BY <1>1 DEF Row
    <2>2. QED
        BY <2>1 DEF Init
<1>3. /\ NewRequest \in Request /\ Fit(NewRequest) /\ NewRequest.pc = "new" /\ NewRequest.kind = "update"
      /\ NewRequest.todo = {} /\ NewRequest.at = NoCopy
    BY DEF NewRequest, Starts, Request, Pcs, AllKinds, Fit
<1>4. req \in [Requests -> Request] /\ \A r \in Requests : req[r] = NewRequest
    BY <1>3 DEF Init
<1>5. worker \in Worker /\ worker.pc = "idle" /\ worker.todo = {} /\ worker.at = NoCopy
    BY DEF Init, IdleWorker, Worker
<1>14. /\ backup = row /\ dirty = FALSE /\ flush = {} /\ crossed = {} /\ missed = FALSE
       /\ faults = 0 /\ faults \in 0..MaxFaults
    BY LegacyAssumptions DEF Init
<1>6. StateOK
    BY <1>1, <1>2, <1>4, <1>5, <1>14 DEF StateOK
<1>7. Fits
    BY <1>3, <1>4, <1>5 DEF Fits
<1>8. \A c \in Copy : ~Holds(c) /\ ~Marks(c)
    BY <1>3, <1>4, <1>5, NoCopyIsNone DEF Holds, Marks
<1>9. CopiesOfDeleted /\ MarkedIsWritten
    BY <1>8 DEF CopiesOfDeleted, MarkedIsWritten
<1>10. Deletions
    BY <1>3, <1>4 DEF Deletions, Deletion
<1>11. GoneUncrossed
    BY <1>1, RowProperties DEF GoneUncrossed
<1>12. Followed
    <2>1. ASSUME NEW u \in Uids, Kept(u)
          PROVE  cm[u] = row[u].cfg
        <3>1. row[u] # Absent
            BY <1>1, <2>1, RowProperties DEF Kept
        <3>2. QED
            BY <3>1 DEF Init
    <2>2. QED
        BY <2>1 DEF Followed
<1>13. QED
    BY <1>6, <1>7, <1>9, <1>10, <1>11, <1>12 DEF IInv

LEMMA StutterIInv == IInv /\ UNCHANGED vars => IInv'
<1> SUFFICES ASSUME IInv, UNCHANGED vars
             PROVE  IInv'
    OBVIOUS
<1>1. UNCHANGED <<row, cm, pod, backup, dirty, req, worker, flush, faults, crossed, missed>>
    BY DEF vars
<1>2. /\ \A u : Removed(u) => Removed(u)'
      /\ \A d \in Copy : Marks(d)' => Marks(d)
      /\ \A d : Holds(d)' => Holds(d)
    BY <1>1 DEF Removed, Marks, Holds
<1>3. StateOK' /\ Fits' /\ CopiesOfDeleted'
    BY <1>1, <1>2 DEF IInv, StateOK, Fits, Fit, CopiesOfDeleted
<1>4. MarkedIsWritten' /\ GoneUncrossed' /\ Followed' /\ Deletions'
    BY <1>1, <1>2, ClusterKept
<1>5. QED
    BY <1>3, <1>4 DEF IInv

LEMMA BeginIInv == ASSUME IInv, NEW r \in Requests, Begin(r) PROVE IInv'
    BY InsertIInv, UpdateIInv, WakeIInv, HaltIInv, ForceSyncIInv DEF Begin

LEMMA ContinueIInv == ASSUME IInv, NEW r \in Requests, Continue(r) PROVE IInv'
    BY DeletePodIInv, DeleteConfigMapIInv, AwakeIInv, ApplyIInv, MarkIInv, CreatePodIInv, SetStatusIInv,
       SetStatusFailsIInv,
       RependIInv, FlushImportIInv DEF Continue

LEMMA StepIInv == IInv /\ [Next]_vars => IInv'
    BY BeginIInv, ContinueIInv, SyncRoundIInv, SyncApplyIInv, SyncMarkIInv, FlushLoopIInv, CopyToNasIInv,
       CrashIInv, StutterIInv DEF Next, Sync, Copying

LEMMA SpecIInv == Spec => []IInv
    BY InitIInv, StepIInv, PTL DEF Spec

-----------------------------------------------------------------------------
(* The backup.                                                             *)

\* A step that changes what the database says sets the flag; one that clears it
\* makes a copy due.
LEMMA StepBackup == IInv /\ BackupCurrent /\ [Next]_vars => BackupCurrent'
<1> SUFFICES ASSUME IInv, BackupCurrent, [Next]_vars
             PROVE  BackupCurrent'
    OBVIOUS
<1>1. row \in Rows /\ backup \in Rows
    BY DEF IInv, StateOK
<1>2. CASE UNCHANGED <<row, backup, dirty, flush, missed>>
    BY <1>2 DEF BackupCurrent, Same
<1>3. CASE dirty' = TRUE
    BY <1>3 DEF BackupCurrent
<1>4. CASE \E u \in Uids, s \in {"pending", "synced"} :
              SetSync(u, s) /\ UNCHANGED <<backup, dirty, flush, missed>>
    <2>1. \A v \in Uids : Content(row'[v]) = Content(row[v])
        BY <1>1, <1>4, SetSyncProperties
    <2>2. QED
        BY <1>4, <2>1 DEF BackupCurrent, Same
<1>5. ASSUME NEW f, dirty' = FALSE, flush' = IF dirty THEN flush \cup {f} ELSE flush,
             UNCHANGED <<row, backup, missed>>
      PROVE  BackupCurrent'
    <2>1. dirty => flush' # {}
        BY <1>5
    <2>2. flush # {} => flush' # {}
        BY <1>5
    <2>3. QED
        BY <1>5, <2>1, <2>2 DEF BackupCurrent, Same
<1>6. ASSUME NEW f, CopyToNas(f)
      PROVE  BackupCurrent'
    BY <1>6 DEF CopyToNas, BackupCurrent, Same
<1>7. CASE Crash
    <2>1. \/ /\ missed' = (missed \/ ~Same(row, backup))
             /\ UNCHANGED <<row, backup>>
          \/ row' = backup /\ backup' = backup
        BY <1>7 DEF Crash, Cluster
    <2>2. QED
        BY <2>1 DEF BackupCurrent, Same
<1>8. ASSUME NEW r \in Requests, Begin(r)
      PROVE  BackupCurrent'
    BY <1>2, <1>3, <1>8 DEF Begin, Insert, Update, Wake, Halt, ForceSync, Database
<1>9. ASSUME NEW r \in Requests, Continue(r)
      PROVE  BackupCurrent'
    <2>1. CASE DeletePod(r) \/ DeleteConfigMap(r) \/ Awake(r) \/ Apply(r) \/ CreatePod(r)
        BY <1>2, <2>1 DEF DeletePod, DeleteConfigMap, Awake, Apply, CreatePod, Database
    <2>2. CASE Mark(r)
        <3>1. req[r].at \in Copy /\ req[r].at.uid \in Uids
            BY <2>2, CopyProperties DEF IInv, Fits, Fit, Mark
        <3>2. SetSync(req[r].at.uid, "synced") /\ UNCHANGED <<backup, dirty, flush, missed>>
            BY <2>2 DEF Mark, Loops
        <3>3. QED
            BY <1>4, <3>1, <3>2
    <2>3. CASE SetStatus(r)
        BY <1>3, <2>3 DEF SetStatus
    <2>7. CASE SetStatusFails(r)
        BY <1>2, <2>7 DEF SetStatusFails, Database
    <2>4. CASE Repend(r)
        <3>1. req[r].uid \in Uids
            BY <2>4 DEF IInv, Fits, Fit, Repend
        <3>2. SetSync(req[r].uid, "pending") /\ UNCHANGED <<backup, dirty, flush, missed>>
            BY <2>4 DEF Repend, Loops
        <3>3. QED
            BY <1>4, <3>1, <3>2
    <2>5. CASE FlushImport(r)
        BY <1>5, <2>5 DEF FlushImport
    <2>6. QED
        BY <1>9, <2>1, <2>2, <2>3, <2>4, <2>5, <2>7 DEF Continue
<1>10. CASE Sync
    <2>1. CASE SyncRound \/ SyncApply
        BY <1>2, <2>1 DEF SyncRound, SyncApply, Database
    <2>2. CASE SyncMark
        <3>1. worker.at \in Copy /\ worker.at.uid \in Uids
            BY <2>2, CopyProperties DEF IInv, Fits, SyncMark
        <3>2. SetSync(worker.at.uid, "synced") /\ UNCHANGED <<backup, dirty, flush, missed>>
            BY <2>2 DEF SyncMark
        <3>3. QED
            BY <1>4, <3>1, <3>2
    <2>3. QED
        BY <1>10, <2>1, <2>2 DEF Sync
<1>11. CASE FlushLoop
    BY <1>5, <1>11 DEF FlushLoop
<1>12. CASE UNCHANGED vars
    BY <1>2, <1>12 DEF vars
<1>13. QED
    BY <1>6, <1>7, <1>8, <1>9, <1>10, <1>11, <1>12 DEF Next, Copying

-----------------------------------------------------------------------------
(* What a deletion has removed.                                            *)

\* A round over all instances has no copy of a deleted one's row.
Unbidden(c) ==
    \/ \E r \in Requests : req[r].kind = "force" /\ c \in req[r].todo \cup {req[r].at}
    \/ c \in worker.todo \cup {worker.at}

FreshRounds == \A c \in Copy : Unbidden(c) => c.status # "deleted"

Things == {"cm", "pod"}

Gone(thing, u) == IF thing = "cm" THEN cm[u] = NoConfig ELSE u \notin pod

GoneOrLate ==
    \A thing \in Things, u \in Uids :
       Removal(thing, u) => Gone(thing, u) \/ <<thing, u>> \in late

LateInv == late \in SUBSET (Things \X Uids) /\ FreshRounds /\ GoneOrLate

\* A deletion's pcs after which the thing is gone.
Past(thing) == IF thing = "pod" THEN {"uncm", "status"} ELSE {"status"}

LEMMA RemovalIs ==
    ASSUME NEW thing, NEW u
    PROVE  Removal(thing, u) <=>
              \/ row[u].status = "deleted"
              \/ \E r \in Requests :
                    req[r].kind = "delete" /\ req[r].uid = u /\ req[r].pc \in Past(thing)
    BY DEF Removal, Past

\* A request takes a step that brings no deletion further.
LEMMA RemovalKept ==
    ASSUME IInv, NEW r \in Requests, NEW p, req' = [req EXCEPT ![r] = p],
           p.kind = "delete" => p.pc \notin {"uncm", "status"},
           \A u \in Uids : row'[u].status = "deleted" => row[u].status = "deleted" \/ Removed(u)
    PROVE  \A thing \in Things, u \in Uids : Removal(thing, u)' => Removal(thing, u)
<1>1. req'[r] = p /\ \A t \in Requests : t # r => req'[t] = req[t]
    BY DEF IInv, StateOK
<1>2. ASSUME NEW thing \in Things, NEW u \in Uids, Removal(thing, u)'
      PROVE  Removal(thing, u)
    <2>1. CASE row'[u].status = "deleted"
        <3>1. Removed(u) => Removal(thing, u)
            BY RemovalIs DEF Removed, Past
        <3>2. QED
            BY <2>1, <3>1, RemovalIs
    <2>2. CASE \E t \in Requests :
                  req'[t].kind = "delete" /\ req'[t].uid = u /\ req'[t].pc \in Past(thing)
        <3>1. PICK t \in Requests :
                  req'[t].kind = "delete" /\ req'[t].uid = u /\ req'[t].pc \in Past(thing)
            BY <2>2
        <3>2. t # r
            BY <1>1, <3>1 DEF Past
        <3>3. QED
            BY <1>1, <3>1, <3>2, RemovalIs
    <2>3. QED
        BY <1>2, <2>1, <2>2 DEF Removal, Past
<1>3. QED
    BY <1>2

LEMMA FreshKept ==
    ASSUME IInv, FreshRounds, NEW r \in Requests, NEW p, req' = [req EXCEPT ![r] = p],
           UNCHANGED worker,
           \A c \in Copy : p.kind = "force" /\ c \in p.todo \cup {p.at} => c.status # "deleted"
    PROVE  FreshRounds'
<1>1. req'[r] = p /\ \A t \in Requests : t # r => req'[t] = req[t]
    BY DEF IInv, StateOK
<1>2. QED
    BY <1>1 DEF FreshRounds, Unbidden

\* A step of a request that removes nothing and makes nothing.
LEMMA RequestLate ==
    ASSUME IInv, LateInv, NEW r \in Requests, NEW p, req' = [req EXCEPT ![r] = p],
           UNCHANGED <<cm, pod, late, worker>>,
           p.kind = "delete" => p.pc \notin {"uncm", "status"},
           \A c \in Copy : p.kind = "force" /\ c \in p.todo \cup {p.at} => c.status # "deleted",
           \A u \in Uids : row'[u].status = "deleted" => row[u].status = "deleted" \/ Removed(u)
    PROVE  LateInv'
<1>1. FreshRounds'
    BY FreshKept DEF LateInv
<1>2. \A thing \in Things, u \in Uids : Removal(thing, u)' => Removal(thing, u)
    BY RemovalKept
<1>3. GoneOrLate'
    BY <1>2 DEF LateInv, GoneOrLate, Gone
<1>4. QED
    BY <1>1, <1>3 DEF LateInv

\* How requests go on: they stay what they are, with copies that they have.
GoesOnAs(q, p) ==
    /\ p.kind = q.kind /\ p.uid = q.uid
    /\ \A c \in Copy : c \in p.todo \cup {p.at} => c \in q.todo \cup {q.at}

LEMMA GoesAs ==
    ASSUME IInv, NEW r \in Requests, NEW pc, Goes(r, pc)
    PROVE  \E p : req' = [req EXCEPT ![r] = p] /\ p.pc = pc /\ GoesOnAs(req[r], p)
<1> DEFINE p == [req[r] EXCEPT !.pc = pc]
<1>1. req[r] \in Request
    BY DEF IInv, StateOK
<1>2. p.pc = pc /\ p.kind = req[r].kind /\ p.uid = req[r].uid /\ p.todo = req[r].todo /\ p.at = req[r].at
    BY <1>1 DEF Request
<1>3. req' = [req EXCEPT ![r] = p]
    BY DEF Goes, Becomes
<1> HIDE DEF p
<1>4. QED
    BY <1>2, <1>3 DEF GoesOnAs

LEMMA FailsAs ==
    ASSUME IInv, NEW r \in Requests, req[r].pc \notin {"new", "done"},
           NEW o \in Request, GoesOnAs(req[r], o), Becomes(r, AfterFailure(o))
    PROVE  \E p : /\ req' = [req EXCEPT ![r] = p] /\ p.pc \notin {"uncm", "status"}
                  /\ GoesOnAs(req[r], p)
<1> DEFINE p == AfterFailure(o)
<1>1. req[r] \in Request /\ Fit(req[r])
    BY DEF IInv, StateOK, Fits
<1>2. o.kind # "force" => o.uid \in Uids
    BY <1>1 DEF Fit, GoesOnAs
<1>3. p.pc \notin {"uncm", "status"} /\ p.todo \subseteq o.todo /\ p.at = NoCopy
      /\ p.kind = o.kind /\ p.uid = o.uid
    BY <1>2, AfterFailureProperties
<1>5. req' = [req EXCEPT ![r] = p]
    BY DEF Becomes
<1> HIDE DEF p
<1>6. ASSUME NEW c \in Copy, c \in p.todo \cup {p.at}
      PROVE  c \in req[r].todo \cup {req[r].at}
    <2>1. c \in o.todo
        BY <1>3, <1>6, NoCopyIsNone
    <2>2. QED
        BY <2>1 DEF GoesOnAs
<1>7. p.kind = req[r].kind /\ p.uid = req[r].uid
    BY <1>3 DEF GoesOnAs
<1>8. GoesOnAs(req[r], p)
    BY <1>6, <1>7 DEF GoesOnAs
<1>9. QED
    BY <1>3, <1>5, <1>8

\* Copies that stay are still not those of a deleted instance.
LEMMA StillFresh ==
    ASSUME FreshRounds, NEW r \in Requests, NEW p, GoesOnAs(req[r], p)
    PROVE  \A c \in Copy : p.kind = "force" /\ c \in p.todo \cup {p.at} => c.status # "deleted"
    BY DEF FreshRounds, Unbidden, GoesOnAs

LEMMA BeginLate == ASSUME IInv, LateInv, NEW r \in Requests, Begin(r) PROVE LateInv'
<1>1. row \in Rows
    BY DEF IInv, StateOK
<1>2. ASSUME NEW pc, NEW kind, NEW uid, NEW todo, Becomes(r, Starts(pc, kind, uid, todo)),
             pc \notin {"uncm", "status"}, UNCHANGED <<cm, pod, late, worker>>,
             kind = "force" => \A c \in Copy : c \in todo => c.status # "deleted",
             \A u \in Uids : row'[u].status = "deleted" => row[u].status = "deleted"
      PROVE  LateInv'
    <2> DEFINE p == Starts(pc, kind, uid, todo)
    <2>1. p.pc = pc /\ p.kind = kind /\ p.todo = todo /\ p.at = NoCopy
        BY DEF Starts
    <2>2. req' = [req EXCEPT ![r] = p]
        BY <1>2 DEF Becomes
    <2> HIDE DEF p
    <2>3. \A c \in Copy : p.kind = "force" /\ c \in p.todo \cup {p.at} => c.status # "deleted"
        BY <1>2, <2>1, NoCopyIsNone
    <2>4. QED
        BY <1>2, <2>1, <2>2, <2>3, RequestLate
<1>3. ASSUME NEW u \in Uids, Insert(r, u) PROVE LateInv'
    <2>1. PICK kind \in Kinds \cap {"create", "import"}, c \in Configs :
             /\ row' = [row EXCEPT ![u] = [cfg |-> c, sync |-> "pending", status |-> "running"]]
             /\ Becomes(r, Starts("apply", kind, u, {[uid |-> u, cfg |-> c, status |-> "running"]}))
        BY <1>3 DEF Insert
    <2>2. \A v \in Uids : row'[v].status = "deleted" => row[v].status = "deleted"
        BY <1>1, <2>1 DEF Rows
    <2>3. UNCHANGED <<cm, pod, late, worker>>
        BY <1>3 DEF Insert, Cluster, Loops
    <2>4. QED
        BY <1>2, <2>1, <2>2, <2>3
<1>4. ASSUME NEW u \in Uids, Update(r, u) PROVE LateInv'
    <2>1. PICK kind \in Kinds \cap {"update", "redeploy"}, c \in Configs \ {row[u].cfg} :
             /\ row' = [row EXCEPT ![u] = [row[u] EXCEPT !.cfg = c, !.sync = "pending"]]
             /\ Becomes(r, Starts("apply", kind, u, {[uid |-> u, cfg |-> c, status |-> row[u].status]}))
        BY <1>4 DEF Update
    <2>2. \A v \in Uids : row'[v].status = "deleted" => row[v].status = "deleted"
        <3>1. row[u] \in Row
            BY <1>1, <1>4 DEF Rows, Update
        <3>2. [row[u] EXCEPT !.cfg = c, !.sync = "pending"].status = row[u].status
            BY <3>1 DEF Row
        <3>3. QED
            BY <1>1, <2>1, <3>2 DEF Rows
    <2>3. UNCHANGED <<cm, pod, late, worker>>
        BY <1>4 DEF Update, Cluster, Loops
    <2>4. QED
        BY <1>2, <2>1, <2>2, <2>3
<1>5. ASSUME NEW u \in Uids, Wake(r, u) PROVE LateInv'
    <2>1. PICK kind \in Kinds \cap {"start", "restart"} :
             Becomes(r, Starts(IF kind = "start" THEN "apply" ELSE "unpod", kind, u, {CopyOf(u)}))
        BY <1>5 DEF Wake
    <2>2. UNCHANGED <<row, cm, pod, late, worker>>
        BY <1>5 DEF Wake, Database, Cluster
    <2>3. QED
        BY <1>2, <2>1, <2>2
<1>6. ASSUME NEW u \in Uids, Halt(r, u) PROVE LateInv'
    <2>1. PICK kind \in Kinds \cap {"stop", "delete"} : Becomes(r, Starts("unpod", kind, u, {}))
        BY <1>6 DEF Halt
    <2>2. UNCHANGED <<row, cm, pod, late, worker>>
        BY <1>6 DEF Halt, Database, Cluster
    <2>3. QED
        BY <1>2, <2>1, <2>2
<1>7. CASE ForceSync(r)
    <2> DEFINE todo == {CopyOf(u) : u \in {v \in Uids : row[v].status \in {"running", "stopped"}}}
    <2>1. Becomes(r, Starts(IF todo = {} THEN "done" ELSE "apply", "force", 0, todo))
        BY <1>7 DEF ForceSync
    <2>2. \A c \in todo : c.status # "deleted"
        BY <1>1, CopyOfProperties
    <2>3. UNCHANGED <<row, cm, pod, late, worker>>
        BY <1>7 DEF ForceSync, Database, Cluster
    <2> HIDE DEF todo
    <2>4. QED
        BY <1>2, <2>1, <2>2, <2>3
<1>8. QED
    BY <1>3, <1>4, <1>5, <1>6, <1>7 DEF Begin

\* Steps of requests that neither remove nor make anything, SetStatus among them:
\* what it records as deleted is gone, or was made late.
LEMMA QuietLate ==
    ASSUME IInv, LateInv, NEW r \in Requests,
           \/ Awake(r) \/ Mark(r) \/ SetStatus(r) \/ SetStatusFails(r) \/ Repend(r) \/ FlushImport(r)
    PROVE  LateInv'
<1>1. row \in Rows /\ req[r] \in Request /\ Fit(req[r])
    BY DEF IInv, StateOK, Fits
<1>2. ASSUME NEW pc, Goes(r, pc), pc \notin {"uncm", "status"},
             UNCHANGED <<cm, pod, late, worker>>,
             \A u \in Uids : row'[u].status = "deleted" => row[u].status = "deleted" \/ Removed(u)
      PROVE  LateInv'
    <2>1. PICK p : req' = [req EXCEPT ![r] = p] /\ p.pc = pc /\ GoesOnAs(req[r], p)
        BY <1>2, GoesAs
    <2>2. \A c \in Copy : p.kind = "force" /\ c \in p.todo \cup {p.at} => c.status # "deleted"
        BY <2>1, StillFresh DEF LateInv
    <2>3. QED
        BY <1>2, <2>1, <2>2, RequestLate
<1>3. CASE Awake(r)
    BY <1>2, <1>3 DEF Awake, Database, Cluster
<1>4. CASE FlushImport(r)
    BY <1>2, <1>4 DEF FlushImport, Cluster
<1>5. CASE SetStatusFails(r)
    BY <1>2, <1>5 DEF SetStatusFails, Database, Cluster
<1>6. CASE Repend(r)
    <2>1. \A u \in Uids : row'[u].status = row[u].status
        BY <1>1, <1>6, SetSyncProperties DEF Repend, Fit
    <2>2. Goes(r, "done") /\ UNCHANGED <<cm, pod, late, worker>>
        BY <1>6 DEF Repend, Cluster, Loops
    <2>3. QED
        BY <1>2, <2>1, <2>2
<1>7. CASE SetStatus(r)
    <2>1. PICK u \in Uids : u = req[r].uid
        BY <1>1, <1>7 DEF SetStatus, Fit
    <2>2. req[r].kind \in {"start", "stop", "delete"} /\ req[r].pc = "status"
        BY <1>1, <1>7 DEF SetStatus, Fit
    <2>3. PICK s \in {"running", "stopped", "deleted"} :
              /\ s = "deleted" => req[r].kind = "delete"
              /\ \/ row' = [row EXCEPT ![u] = IF row[u] = Absent THEN row[u] ELSE [row[u] EXCEPT !.status = s]]
                 \/ req[r].kind = "delete" /\ row' = [row EXCEPT ![u] = Absent]
        BY <1>7, <2>1, <2>2 DEF SetStatus, StatusOf
    <2>4. \A v \in Uids : v # u => row'[v] = row[v]
        BY <1>1, <2>3 DEF Rows
    <2>5. row'[u].status = "deleted" => row[u].status = "deleted" \/ req[r].kind = "delete"
        <3>1. CASE row[u] = Absent
            BY <1>1, <2>3, <3>1 DEF Rows, Absent
        <3>2. CASE row[u] # Absent
            <4>1. row[u] \in Row
                BY <1>1, <3>2 DEF Rows
            <4>2. [row[u] EXCEPT !.status = s].status = s
                BY <4>1 DEF Row
            <4>3. QED
                BY <1>1, <2>3, <3>2, <4>2 DEF Rows, Absent
        <3>3. QED
            BY <3>1, <3>2
    <2>6. \A v \in Uids : row'[v].status = "deleted" => row[v].status = "deleted" \/ Removed(v)
        BY <2>1, <2>2, <2>4, <2>5 DEF Removed
    <2>7. Goes(r, "done") /\ UNCHANGED <<cm, pod, late, worker>>
        BY <1>7 DEF SetStatus, Cluster, Loops
    <2>8. QED
        BY <1>2, <2>6, <2>7
<1>8. CASE Mark(r)
    <2> DEFINE pc == CASE req[r].kind = "force" -> IF req[r].todo = {} THEN "done" ELSE "apply"
                       [] req[r].kind = "update" -> "done"
                       [] OTHER -> "pod"
               p == [req[r] EXCEPT !.at = NoCopy, !.pc = pc]
    <2>1. req' = [req EXCEPT ![r] = p]
        BY <1>8, Zenon DEF Mark, Becomes
    <2>2. pc \notin {"uncm", "status"}
        OBVIOUS
    <2> HIDE DEF pc
    <2>3. p.pc = pc /\ p.kind = req[r].kind /\ p.uid = req[r].uid /\ p.todo = req[r].todo /\ p.at = NoCopy
        BY <1>1 DEF Request
    <2> HIDE DEF p
    <2>4. GoesOnAs(req[r], p)
        BY <2>3, NoCopyIsNone DEF GoesOnAs
    <2>5. \A c \in Copy : p.kind = "force" /\ c \in p.todo \cup {p.at} => c.status # "deleted"
        BY <2>4, StillFresh DEF LateInv
    <2>6. \A u \in Uids : row'[u].status = row[u].status
        <3>1. req[r].at \in Copy /\ req[r].at.uid \in Uids
            BY <1>1, <1>8, CopyProperties DEF Mark, Fit
        <3>2. QED
            BY <1>1, <1>8, <3>1, SetSyncProperties DEF Mark
    <2>7. UNCHANGED <<cm, pod, late, worker>>
        BY <1>8 DEF Mark, Cluster, Loops
    <2>8. QED
        BY <2>1, <2>2, <2>3, <2>5, <2>6, <2>7, RequestLate
<1>9. QED
    BY <1>3, <1>4, <1>5, <1>6, <1>7, <1>8

-----------------------------------------------------------------------------
(* What a deletion has removed: the steps that remove it or make it again. *)

\* The pod or the ConfigMap goes; one deletion may have come further with it.
LEMMA RemovesLate ==
    ASSUME IInv, LateInv, NEW r \in Requests, NEW p, req' = [req EXCEPT ![r] = p],
           NEW thing \in Things, NEW x \in Uids,
           late' = late \ {<<thing, x>>}, Gone(thing, x)',
           \A t \in Things, u \in Uids : Gone(t, u) => Gone(t, u)',
           UNCHANGED <<row, worker>>, GoesOnAs(req[r], p), p.uid = x,
           p.kind = "delete" =>
              \A t \in Things \ {thing} : p.pc \in Past(t) => req[r].pc \in Past(t)
    PROVE  LateInv'
<1>1. req'[r] = p /\ \A t \in Requests : t # r => req'[t] = req[t]
    BY DEF IInv, StateOK
<1>2. FreshRounds'
    <2>1. \A c \in Copy : p.kind = "force" /\ c \in p.todo \cup {p.at} => c.status # "deleted"
        BY StillFresh DEF LateInv
    <2>2. QED
        BY <2>1, FreshKept DEF LateInv
<1>3. ASSUME NEW t \in Things, NEW u \in Uids, Removal(t, u)', t # thing \/ u # x
      PROVE  Removal(t, u)
    <2>1. CASE row'[u].status = "deleted"
        BY <2>1, RemovalIs
    <2>2. CASE \E q \in Requests :
                  req'[q].kind = "delete" /\ req'[q].uid = u /\ req'[q].pc \in Past(t)
        <3>1. PICK q \in Requests :
                  req'[q].kind = "delete" /\ req'[q].uid = u /\ req'[q].pc \in Past(t)
            BY <2>2
        <3>2. CASE q = r
            <4>1. p.kind = "delete" /\ u = x /\ p.pc \in Past(t)
                BY <1>1, <3>1, <3>2
            <4>2. req[r].kind = "delete" /\ req[r].uid = u /\ req[r].pc \in Past(t)
                BY <1>3, <4>1 DEF GoesOnAs
            <4>3. QED
                BY <4>2, RemovalIs
        <3>3. CASE q # r
            BY <1>1, <3>1, <3>3, RemovalIs
        <3>4. QED
            BY <3>2, <3>3
    <2>3. QED
        BY <1>3, <2>1, <2>2 DEF Removal, Past
<1>4. ASSUME NEW t \in Things, NEW u \in Uids, Removal(t, u)'
      PROVE  Gone(t, u)' \/ <<t, u>> \in late'
    <2>1. CASE t = thing /\ u = x
        BY <2>1
    <2>2. CASE t # thing \/ u # x
        <3>1. Gone(t, u) \/ <<t, u>> \in late
            BY <1>3, <1>4, <2>2 DEF LateInv, GoneOrLate
        <3>2. QED
            BY <2>2, <3>1
    <2>3. QED
        BY <2>1, <2>2
<1>5. GoneOrLate'
    BY <1>4 DEF GoneOrLate
<1>6. QED
    BY <1>2, <1>5 DEF LateInv

\* The pod or the ConfigMap is made, and noted if a deletion has removed it.
LEMMA MadeLate ==
    ASSUME LateInv, NEW thing \in Things, NEW x \in Uids, Made(thing, x), FreshRounds',
           \A t \in Things, u \in Uids : Removal(t, u)' => Removal(t, u),
           \A t \in Things, u \in Uids : <<t, u>> # <<thing, x>> => Gone(t, u)' = Gone(t, u)
    PROVE  LateInv'
<1>1. /\ late' \in {late, late \cup {<<thing, x>>}}
      /\ Removal(thing, x) => <<thing, x>> \in late'
    BY DEF Made
<1>2. late' \in SUBSET (Things \X Uids)
    BY <1>1 DEF LateInv
<1>3. ASSUME NEW t \in Things, NEW u \in Uids, Removal(t, u)'
      PROVE  Gone(t, u)' \/ <<t, u>> \in late'
    <2>1. Removal(t, u) /\ (Gone(t, u) \/ <<t, u>> \in late)
        BY <1>3 DEF LateInv, GoneOrLate
    <2>2. CASE <<t, u>> = <<thing, x>>
        BY <1>1, <2>1, <2>2
    <2>3. CASE <<t, u>> # <<thing, x>>
        BY <1>1, <2>1, <2>3
    <2>4. QED
        BY <2>2, <2>3
<1>4. GoneOrLate'
    BY <1>3 DEF GoneOrLate
<1>5. QED
    BY <1>2, <1>4 DEF LateInv

\* A ConfigMap is written by somebody bidden, or from a copy of an active row.
LEMMA WriteLate ==
    ASSUME IInv, LateInv, NEW c \in Copy, NEW bidden, Writes(c, bidden),
           bidden \/ c.status # "deleted", UNCHANGED pod, FreshRounds',
           \A t \in Things, u \in Uids : Removal(t, u)' => Removal(t, u)
    PROVE  LateInv'
<1>1. c.uid \in Uids /\ Made("cm", c.uid) /\ cm' = [cm EXCEPT ![c.uid] = c.cfg]
    BY CopyProperties DEF Writes
<1>2. cm \in [Uids -> Configs \cup {NoConfig}]
    BY DEF IInv, StateOK
<1>3. \A t \in Things, u \in Uids : <<t, u>> # <<"cm", c.uid>> => Gone(t, u)' = Gone(t, u)
    BY <1>1, <1>2 DEF Gone, Things
<1>4. "cm" \in Things
    BY DEF Things
<1>5. QED
    BY <1>1, <1>3, <1>4, MadeLate

\* Nothing is made, and no deletion comes further.
LEMMA NothingLate ==
    ASSUME LateInv, UNCHANGED <<cm, pod, late>>, FreshRounds',
           \A t \in Things, u \in Uids : Removal(t, u)' => Removal(t, u)
    PROVE  LateInv'
    BY DEF LateInv, GoneOrLate, Gone

LEMMA DeletePodLate == ASSUME IInv, LateInv, NEW r \in Requests, DeletePod(r) PROVE LateInv'
<1>0. req[r].uid \in Uids
    BY DEF IInv, Fits, Fit, DeletePod
<1> PICK x \in Uids : x = req[r].uid
    BY <1>0
<1>1. /\ req[r] \in Request /\ req[r].pc = "unpod" /\ req[r].uid = x
      /\ UNCHANGED <<row, cm, worker>>
    BY DEF IInv, StateOK, DeletePod, Database
<1>2. CASE Becomes(r, AfterFailure(req[r])) /\ UNCHANGED <<pod, late>>
    <2>1. GoesOnAs(req[r], req[r])
        BY DEF GoesOnAs
    <2>2. PICK p : /\ req' = [req EXCEPT ![r] = p] /\ p.pc \notin {"uncm", "status"}
                   /\ GoesOnAs(req[r], p)
        BY <1>1, <1>2, <2>1, FailsAs
    <2>3. \A c \in Copy : p.kind = "force" /\ c \in p.todo \cup {p.at} => c.status # "deleted"
        BY <2>2, StillFresh DEF LateInv
    <2>4. QED
        BY <1>1, <1>2, <2>2, <2>3, RequestLate
<1>3. CASE /\ pod' = pod \ {x} /\ late' = late \ {<<"pod", x>>}
           /\ \E pc \in {"sleep", "status", "uncm"} :
                 Goes(r, pc) /\ (pc = "status" => req[r].kind # "delete")
    <2>1. PICK pc \in {"sleep", "status", "uncm"} :
             Goes(r, pc) /\ (pc = "status" => req[r].kind # "delete")
        BY <1>3
    <2>2. PICK p : req' = [req EXCEPT ![r] = p] /\ p.pc = pc /\ GoesOnAs(req[r], p)
        BY <2>1, GoesAs
    <2>3. p.uid = x /\ p.kind = req[r].kind
        BY <1>1, <2>2 DEF GoesOnAs
    <2>4. "pod" \in Things /\ \A t \in Things \ {"pod"} : Past(t) = {"status"}
        BY DEF Things, Past
    <2>5. Gone("pod", x)' /\ \A t \in Things, u \in Uids : Gone(t, u) => Gone(t, u)'
        BY <1>1, <1>3 DEF Gone
    <2>6. QED
        BY <1>1, <1>3, <2>1, <2>2, <2>3, <2>4, <2>5, RemovesLate
<1>4. QED
    <2> DEFINE pc == CASE req[r].kind = "restart" -> "sleep"
                       [] req[r].kind = "stop" -> "status"
                       [] OTHER -> "uncm"
    <2>1. pc \in {"sleep", "status", "uncm"} /\ (pc = "status" => req[r].kind # "delete")
        OBVIOUS
    <2>2. \/ pod' = pod \ {x} /\ late' = late \ {<<"pod", x>>} /\ Goes(r, pc)
          \/ Becomes(r, AfterFailure(req[r])) /\ UNCHANGED <<pod, late>>
        BY <1>1 DEF DeletePod
    <2> HIDE DEF pc
    <2>3. QED
        BY <1>2, <1>3, <2>1, <2>2

LEMMA DeleteConfigMapLate == ASSUME IInv, LateInv, NEW r \in Requests, DeleteConfigMap(r) PROVE LateInv'
<1>0. req[r].uid \in Uids
    BY DEF IInv, Fits, Fit, DeleteConfigMap
<1> PICK x \in Uids : x = req[r].uid
    BY <1>0
<1>1. /\ req[r] \in Request /\ req[r].pc = "uncm" /\ req[r].uid = x
      /\ cm \in [Uids -> Configs \cup {NoConfig}]
      /\ UNCHANGED <<row, pod, worker>>
    BY DEF IInv, StateOK, DeleteConfigMap, Database
<1>2. \/ ConfigMapGoes(x) /\ Goes(r, "status")
      \/ (ConfigMapGoes(x) \/ UNCHANGED <<cm, late>>) /\ Becomes(r, AfterFailure(req[r]))
    BY <1>1 DEF DeleteConfigMap
<1>3. /\ "cm" \in Things /\ \A t \in Things \ {"cm"} : Past(t) = {"uncm", "status"}
      /\ "status" \in Past("cm")
    BY DEF Things, Past
<1>4. ASSUME ConfigMapGoes(x)
      PROVE  /\ late' = late \ {<<"cm", x>>} /\ Gone("cm", x)'
             /\ \A t \in Things, u \in Uids : Gone(t, u) => Gone(t, u)'
    BY <1>1, <1>4 DEF Gone, ConfigMapGoes
<1>5. CASE ConfigMapGoes(x) /\ Goes(r, "status")
    <2>1. PICK p : req' = [req EXCEPT ![r] = p] /\ p.pc = "status" /\ GoesOnAs(req[r], p)
        BY <1>5, GoesAs
    <2>2. p.uid = x
        BY <1>1, <2>1 DEF GoesOnAs
    <2>3. QED
        BY <1>1, <1>3, <1>4, <1>5, <2>1, <2>2, RemovesLate
<1>6. CASE (ConfigMapGoes(x) \/ UNCHANGED <<cm, late>>) /\ Becomes(r, AfterFailure(req[r]))
    <2>1. GoesOnAs(req[r], req[r])
        BY DEF GoesOnAs
    <2>2. PICK p : /\ req' = [req EXCEPT ![r] = p] /\ p.pc \notin {"uncm", "status"}
                   /\ GoesOnAs(req[r], p)
        BY <1>1, <1>6, <2>1, FailsAs
    <2>3. CASE ConfigMapGoes(x)
        <3>1. p.uid = x
            BY <1>1, <2>2 DEF GoesOnAs
        <3>2. \A t \in Things : p.pc \notin Past(t)
            BY <2>2 DEF Past
        <3>3. QED
            BY <1>1, <1>3, <1>4, <2>2, <2>3, <3>1, <3>2, RemovesLate
    <2>4. CASE UNCHANGED <<cm, late>>
        <3>1. \A c \in Copy : p.kind = "force" /\ c \in p.todo \cup {p.at} => c.status # "deleted"
            BY <2>2, StillFresh DEF LateInv
        <3>2. QED
            BY <1>1, <2>2, <2>4, <3>1, RequestLate
    <2>5. QED
        BY <1>6, <2>3, <2>4
<1>7. QED
    BY <1>2, <1>5, <1>6

LEMMA ApplyLate == ASSUME IInv, LateInv, NEW r \in Requests, Apply(r) PROVE LateInv'
<1>1. /\ req[r] \in Request /\ req[r].todo \in SUBSET Copy /\ req[r].pc = "apply"
      /\ UNCHANGED <<row, pod, worker>>
    BY DEF IInv, StateOK, Apply, Database, Request
<1>2. PICK c \in req[r].todo :
          \/ Writes(c, req[r].kind # "force") /\ Becomes(r, Written(req[r], c))
          \/ /\ WriteFails(c, req[r].kind # "force")
             /\ Becomes(r, AfterFailure([req[r] EXCEPT !.todo = @ \ {c}]))
    BY DEF Apply
<1>3. c \in Copy /\ (req[r].kind # "force" \/ c.status # "deleted")
    BY <1>1 DEF LateInv, FreshRounds, Unbidden
<1>4. PICK p : /\ req' = [req EXCEPT ![r] = p] /\ p.pc \notin {"uncm", "status"}
               /\ GoesOnAs(req[r], p)
    <2>1. CASE Becomes(r, Written(req[r], c))
        <3> DEFINE p == Written(req[r], c)
        <3>1. req' = [req EXCEPT ![r] = p]
            BY <2>1 DEF Becomes
        <3>2. p.pc = "mark" /\ p.at = c /\ p.todo \subseteq req[r].todo /\ p.kind = req[r].kind /\ p.uid = req[r].uid
            BY <1>1, <1>3, WrittenProperties
        <3> HIDE DEF p
        <3>3. QED
            BY <3>1, <3>2 DEF GoesOnAs
    <2>2. CASE Becomes(r, AfterFailure([req[r] EXCEPT !.todo = @ \ {c}]))
        <3> DEFINE o == [req[r] EXCEPT !.todo = @ \ {c}]
        <3>1. o \in Request /\ GoesOnAs(req[r], o)
            BY <1>1 DEF Request, GoesOnAs
        <3>2. Becomes(r, AfterFailure(o))
            BY <2>2
        <3> HIDE DEF o
        <3>3. QED
            BY <1>1, <3>1, <3>2, FailsAs
    <2>3. QED
        BY <1>2, <2>1, <2>2
<1>5. \A d \in Copy : p.kind = "force" /\ d \in p.todo \cup {p.at} => d.status # "deleted"
    BY <1>4, StillFresh DEF LateInv
<1>6. FreshRounds'
    BY <1>1, <1>4, <1>5, FreshKept DEF LateInv
<1>7. \A t \in Things, u \in Uids : Removal(t, u)' => Removal(t, u)
    BY <1>1, <1>4, RemovalKept
<1>8. CASE Writes(c, req[r].kind # "force")
    BY <1>1, <1>3, <1>6, <1>7, <1>8, WriteLate
<1>9. CASE UNCHANGED <<cm, crossed, late>>
    BY <1>1, <1>6, <1>7, <1>9, NothingLate
<1>10. QED
    BY <1>2, <1>8, <1>9 DEF WriteFails

LEMMA CreatePodLate == ASSUME IInv, LateInv, NEW r \in Requests, CreatePod(r) PROVE LateInv'
<1>0. req[r].uid \in Uids
    BY DEF IInv, Fits, Fit, CreatePod
<1> PICK x \in Uids : x = req[r].uid
    BY <1>0
<1>1. /\ req[r] \in Request /\ req[r].pc = "pod" /\ req[r].uid = x
      /\ UNCHANGED <<row, cm, worker>>
    BY DEF IInv, StateOK, CreatePod, Database
<1> DEFINE next == CASE req[r].kind = "start" -> "status"
                     [] req[r].kind = "import" -> "flush"
                     [] OTHER -> "done"
<1>2. next \in {"status", "flush", "done"} /\ (next = "status" => req[r].kind = "start")
    OBVIOUS
<1>3. \/ pod' = pod \cup {x} /\ Goes(r, next) /\ Made("pod", x)
      \/ Becomes(r, AfterFailure(req[r])) /\ UNCHANGED <<pod, late>>
    BY <1>1 DEF CreatePod
<1> HIDE DEF next
<1>4. GoesOnAs(req[r], req[r])
    BY DEF GoesOnAs
<1>5. PICK p : /\ req' = [req EXCEPT ![r] = p] /\ GoesOnAs(req[r], p)
               /\ p.kind = "delete" => p.pc \notin {"uncm", "status"}
    <2>1. CASE Goes(r, next)
        <3>1. PICK p : req' = [req EXCEPT ![r] = p] /\ p.pc = next /\ GoesOnAs(req[r], p)
            BY <2>1, GoesAs
        <3>2. p.kind = req[r].kind
            BY <3>1 DEF GoesOnAs
        <3>3. QED
            BY <1>2, <3>1, <3>2
    <2>2. CASE Becomes(r, AfterFailure(req[r]))
        BY <1>1, <1>4, <2>2, FailsAs
    <2>3. QED
        BY <1>3, <2>1, <2>2
<1>6. \A d \in Copy : p.kind = "force" /\ d \in p.todo \cup {p.at} => d.status # "deleted"
    BY <1>5, StillFresh DEF LateInv
<1>7. FreshRounds'
    BY <1>1, <1>5, <1>6, FreshKept DEF LateInv
<1>8. \A t \in Things, u \in Uids : Removal(t, u)' => Removal(t, u)
    BY <1>1, <1>5, RemovalKept
<1>9. CASE pod' = pod \cup {x} /\ Made("pod", x)
    <2>1. "pod" \in Things
        BY DEF Things
    <2>2. \A t \in Things, u \in Uids : <<t, u>> # <<"pod", x>> => Gone(t, u)' = Gone(t, u)
        BY <1>1, <1>9 DEF Gone, Things
    <2>3. QED
        BY <1>7, <1>8, <1>9, <2>1, <2>2, MadeLate
<1>10. CASE UNCHANGED <<pod, late>>
    BY <1>1, <1>7, <1>8, <1>10, NothingLate
<1>11. QED
    BY <1>3, <1>9, <1>10

LEMMA ContinueLate == ASSUME IInv, LateInv, NEW r \in Requests, Continue(r) PROVE LateInv'
    BY DeletePodLate, DeleteConfigMapLate, ApplyLate, CreatePodLate, QuietLate DEF Continue

-----------------------------------------------------------------------------
(* What a deletion has removed: the worker, the backup and crashes.        *)

LEMMA RemovalSame ==
    ASSUME UNCHANGED req, \A u \in Uids : row'[u].status = "deleted" => row[u].status = "deleted"
    PROVE  \A t \in Things, u \in Uids : Removal(t, u)' => Removal(t, u)
    BY DEF Removal

LEMMA WorkerFresh ==
    ASSUME LateInv, UNCHANGED req,
           \A c \in Copy : c \in worker'.todo \cup {worker'.at} =>
              c \in worker.todo \cup {worker.at} \/ c.status # "deleted"
    PROVE  FreshRounds'
    BY DEF LateInv, FreshRounds, Unbidden

LEMMA SyncLate == ASSUME IInv, LateInv, Sync PROVE LateInv'
<1>1. row \in Rows /\ worker \in Worker
    BY DEF IInv, StateOK
<1>2. CASE SyncRound
    <2>1. \A u \in Pending : CopyOf(u).status # "deleted"
        BY <1>1, CopyOfProperties DEF Pending
    <2>2. UNCHANGED <<row, cm, pod, late, req>>
        BY <1>2 DEF SyncRound, Database, Cluster
    <2>3. worker'.todo \in {worker.todo, {CopyOf(u) : u \in Pending}} /\ worker'.at = worker.at
        BY <1>1, <1>2 DEF SyncRound, Worker
    <2>4. FreshRounds'
        BY <2>1, <2>2, <2>3, WorkerFresh
    <2>5. QED
        BY <2>2, <2>4, RemovalSame, NothingLate
<1>3. CASE SyncApply
    <2>1. worker.todo \in SUBSET Copy /\ UNCHANGED <<row, pod, req>>
        BY <1>1, <1>3 DEF SyncApply, Database, Worker
    <2>2. PICK c \in worker.todo :
             \/ Writes(c, FALSE) /\ worker' = [pc |-> "mark", todo |-> worker.todo \ {c}, at |-> c]
             \/ WriteFails(c, FALSE) /\ worker' = NextCopy(worker.todo \ {c})
        BY <1>3 DEF SyncApply
    <2>3. c \in Copy /\ c.status # "deleted"
        BY <2>1 DEF LateInv, FreshRounds, Unbidden
    <2>4. worker'.todo = worker.todo \ {c} /\ worker'.at \in {c, NoCopy}
        <3> DEFINE left == worker.todo \ {c}
        <3>1. \/ worker' = [pc |-> "mark", todo |-> left, at |-> c]
              \/ worker' = [pc |-> IF left = {} THEN "flush" ELSE "apply", todo |-> left, at |-> NoCopy]
            BY <2>2, Zenon DEF NextCopy
        <3> HIDE DEF left
        <3>2. worker'.todo = left /\ worker'.at \in {c, NoCopy}
            BY <3>1
        <3>3. QED
            BY <3>2 DEF left
    <2>5. FreshRounds'
        BY <2>1, <2>3, <2>4, NoCopyIsNone, WorkerFresh
    <2>6. \A t \in Things, u \in Uids : Removal(t, u)' => Removal(t, u)
        BY <2>1, RemovalSame
    <2>7. CASE Writes(c, FALSE)
        BY <2>1, <2>3, <2>5, <2>6, <2>7, WriteLate
    <2>8. CASE UNCHANGED <<cm, crossed, late>>
        BY <2>1, <2>5, <2>6, <2>8, NothingLate
    <2>9. QED
        BY <2>2, <2>7, <2>8 DEF WriteFails
<1>4. CASE SyncMark
    <2>1. worker.at \in Copy /\ worker.at.uid \in Uids
        BY <1>4, CopyProperties DEF IInv, Fits, SyncMark
    <2>2. \A u \in Uids : row'[u].status = row[u].status
        BY <1>1, <1>4, <2>1, SetSyncProperties DEF SyncMark
    <2>3. /\ UNCHANGED <<cm, pod, late, req>>
          /\ worker'.todo = worker.todo /\ worker'.at = NoCopy
        BY <1>4 DEF SyncMark, Cluster, NextCopy
    <2>4. FreshRounds'
        BY <2>3, NoCopyIsNone, WorkerFresh
    <2>5. QED
        BY <2>2, <2>3, <2>4, RemovalSame, NothingLate
<1>5. QED
    BY <1>2, <1>3, <1>4 DEF Sync

LEMMA BackupLate == ASSUME IInv, LateInv, FlushLoop \/ Copying \/ UNCHANGED vars PROVE LateInv'
<1>1. /\ UNCHANGED <<row, cm, pod, late, req>>
      /\ worker' \in {worker, IdleWorker}
    BY DEF FlushLoop, Copying, CopyToNas, Cluster, vars
<1>2. FreshRounds'
    BY <1>1, NoCopyIsNone, WorkerFresh DEF IdleWorker
<1>3. QED
    BY <1>1, <1>2, RemovalSame, NothingLate

\* A restored row may say deleted of an instance that is there again.
LEMMA CrashLate == ASSUME IInv, LateInv, Crash PROVE LateInv'
<1> DEFINE over == [NewRequest EXCEPT !.pc = "done"]
<1>1. over.pc = "done" /\ over.todo = {} /\ over.at = NoCopy
    BY DEF NewRequest, Starts
<1>2. req' = [r \in Requests |-> IF Active(r) THEN over ELSE req[r]]
    BY DEF Crash
<1> HIDE DEF over
<1>3. \A r \in Requests : req'[r] = over \/ req'[r] = req[r]
    BY <1>2
<1>4. worker'.todo = {} /\ worker'.at = NoCopy /\ UNCHANGED <<cm, pod>>
    BY DEF Crash, IdleWorker
<1>5. FreshRounds'
    BY <1>1, <1>3, <1>4, NoCopyIsNone DEF LateInv, FreshRounds, Unbidden
<1>6. ASSUME NEW t \in Things, NEW u \in Uids, Removal(t, u)', row'[u].status = "deleted" => row[u].status = "deleted"
      PROVE  Removal(t, u)
    <2>1. CASE row'[u].status = "deleted"
        BY <1>6, <2>1, RemovalIs
    <2>2. CASE \E q \in Requests :
                  req'[q].kind = "delete" /\ req'[q].uid = u /\ req'[q].pc \in Past(t)
        <3>1. PICK q \in Requests :
                  req'[q].kind = "delete" /\ req'[q].uid = u /\ req'[q].pc \in Past(t)
            BY <2>2
        <3>2. req'[q] = req[q]
            BY <1>1, <1>3, <3>1 DEF Past
        <3>3. QED
            BY <3>1, <3>2, RemovalIs
    <2>3. QED
        BY <1>6, <2>1, <2>2 DEF Removal, Past
<1> DEFINE again == {u \in Uids : backup[u].status = "deleted" /\ row[u].status # "deleted"}
<1>7. \/ UNCHANGED <<row, late>>
      \/ row' = backup /\ late' = late \cup (Things \X again)
    BY DEF Crash, Things
<1>8. late' \in SUBSET (Things \X Uids) /\ late \subseteq late'
    BY <1>7 DEF LateInv
<1>9. ASSUME NEW t \in Things, NEW u \in Uids, Removal(t, u)'
      PROVE  Gone(t, u)' \/ <<t, u>> \in late'
    <2>1. CASE row'[u].status = "deleted" /\ row[u].status # "deleted"
        BY <1>7, <2>1
    <2>2. CASE ~(row'[u].status = "deleted" /\ row[u].status # "deleted")
        <3>1. Gone(t, u) \/ <<t, u>> \in late
            BY <1>6, <1>9, <2>2 DEF LateInv, GoneOrLate
        <3>2. QED
            BY <1>4, <1>8, <3>1 DEF Gone
    <2>3. QED
        BY <2>1, <2>2
<1>10. GoneOrLate'
    BY <1>9 DEF GoneOrLate
<1>11. QED
    BY <1>5, <1>8, <1>10 DEF LateInv

LEMMA InitLate == Init => LateInv
<1> SUFFICES ASSUME Init
             PROVE  LateInv
    OBVIOUS
<1>1. /\ \A r \in Requests : req[r] = NewRequest
      /\ worker.todo = {} /\ worker.at = NoCopy /\ late = {}
    BY DEF Init, IdleWorker
<1>2. /\ NewRequest.pc = "new" /\ NewRequest.todo = {} /\ NewRequest.at = NoCopy
    BY DEF NewRequest, Starts
<1>3. FreshRounds
    BY <1>1, <1>2, NoCopyIsNone DEF FreshRounds, Unbidden
<1>4. \A u \in Uids : row[u].status # "deleted"
    <2>1. \A i \in [cfg: Configs, sync: {"synced"}, status: {"running"}] \cup {Absent} : i.status # "deleted"
        BY DEF Absent
    <2>2. \A u \in Uids : row[u] \in [cfg: Configs, sync: {"synced"}, status: {"running"}] \cup {Absent}
        BY DEF Init
    <2>3. QED
        BY <2>1, <2>2
<1>5. GoneOrLate
    BY <1>1, <1>2, <1>4 DEF GoneOrLate, Removal
<1>6. QED
    BY <1>1, <1>3, <1>5 DEF LateInv

LEMMA StepLate == IInv /\ LateInv /\ [Next]_vars => LateInv'
    BY BeginLate, ContinueLate, SyncLate, BackupLate, CrashLate DEF Next

LEMMA SpecLate == Spec => []LateInv
    BY InitLate, SpecIInv, StepLate, PTL DEF Spec

-----------------------------------------------------------------------------
(* Theorems.                                                               *)

\* Every variable keeps its type: no request or round gets to a state that the
\* code does not have.
THEOREM LegacyTypeCorrect == Spec => []TypeOK
<1>1. IInv /\ LateInv => TypeOK
    BY DEF IInv, LateInv, TypeOK, Things
<1>2. QED
    BY <1>1, SpecIInv, SpecLate, PTL

\* For any number of instances, requests and failures: a change that is not in
\* its ConfigMap is marked pending, or its instance is being deleted.
THEOREM LegacyNothingForgotten == Spec => []NothingForgotten
<1>1. IInv => NothingForgotten
    BY DEF IInv, Followed, NothingForgotten, Removed, Deleting, Active
<1>2. QED
    BY <1>1, SpecIInv, PTL

\* A deleted instance has neither ConfigMap nor pod, whoever wrote or started it
\* while it was being deleted, unless it was made again afterwards by a request for
\* it, from a row read before, or its row was restored.
THEOREM LegacyDeletedIsGone == Spec => []DeletedIsGone
<1>1. LateInv => DeletedIsGone
    <2> SUFFICES ASSUME LateInv, NEW u \in Uids, row[u].status = "deleted"
                 PROVE  /\ cm[u] = NoConfig \/ <<"cm", u>> \in late
                        /\ u \notin pod \/ <<"pod", u>> \in late
        BY DEF DeletedIsGone
    <2>1. \A thing \in Things : Gone(thing, u) \/ <<thing, u>> \in late
        BY RemovalIs DEF LateInv, GoneOrLate
    <2>2. QED
        BY <2>1 DEF Things, Gone
<1>2. QED
    BY <1>1, SpecLate, PTL

\* No write escapes the backup's flag, whichever flushes come in between.
THEOREM LegacyBackupCurrent == Spec => []BackupCurrent
<1>1. Init => BackupCurrent
    BY DEF Init, BackupCurrent, Same
<1>2. QED
    BY <1>1, SpecIInv, StepBackup, PTL DEF Spec

=============================================================================
