----------------------- MODULE DeployPipelineProof -----------------------
(***************************************************************************)
(* Proofs about DeployPipeline, for any fleet, registry, batch size and    *)
(* number of deploys and tasks.                                            *)
(*                                                                         *)
(* The argument: a task that works owns its row, in the sense that the row *)
(* is neither paused nor complete while the task works, and a second task  *)
(* of the same deploy is only created from a paused row.  Threads left     *)
(* behind by a task that no longer waits for them belong to a deploy with  *)
(* no worker and a row that is neither paused nor complete; nothing can    *)
(* bring such a row back to paused or complete.                            *)
(*                                                                         *)
(* The health gates need more, and that nobody edits the groups: the list  *)
(* of waves a worker still has to go through is ordered as the registry    *)
(* is, and whoever the registry puts before a wave of that list has passed *)
(* a check, is in the wave under way or comes before it in the list.       *)
(*                                                                         *)
(* That the orchestrator implements FleetRelease follows from the two:     *)
(* tasks and threads belong to releases that may change the fleet, threads *)
(* patch after the gates, and a release completes with everybody passed.   *)
(***************************************************************************)
EXTENDS DeployPipeline, SequenceTheorems, FiniteSetTheorems, TLAPS

-----------------------------------------------------------------------------
(* The inductive invariant.                                                *)

WorkerHoldsRow ==
    \A t \in Tasks :
        Working(t) => recs[tasks[t].deploy].status \notin {"paused", "complete"}

TasksHaveRows ==
    \A t \in Tasks :
        tasks[t].pc # "unused" => recs[tasks[t].deploy].status # "none"

\* Threads exist only for tasks that have submitted a batch.
JobsAreSubmitted ==
    \A j \in jobs : tasks[j.by].pc \notin {"unused", "ready", "notify"}

\* A thread that nobody waits for.
LateJobsAreLoose ==
    \A j \in jobs :
        tasks[j.by].pc # "patching" =>
            /\ recs[tasks[j.by].deploy].status \notin {"paused", "complete"}
            /\ \A u \in Tasks : Working(u) => tasks[u].deploy # tasks[j.by].deploy

ActiveTaskStarted == activeTask # 0 => tasks[activeTask].pc # "unused"

IInv ==
    /\ TypeOK
    /\ ActiveTaskStarted
    /\ OneWorkerPerDeploy
    /\ WorkerHoldsRow
    /\ TasksHaveRows
    /\ JobsAreSubmitted
    /\ LateJobsAreLoose

-----------------------------------------------------------------------------
(* Typing of the waves.                                                    *)

LEMMA WavesFromType ==
    ASSUME waveOrder \in WaveOrders, NEW g
    PROVE  WavesFrom(g) \in Seq(Groups)
<1>1. waveOrder \in Seq(Groups)
    BY DeployAssumptions DEF DeployAssumptions
<1>2. CASE \E k \in DOMAIN waveOrder : waveOrder[k] = g
    <2> DEFINE k == CHOOSE n \in DOMAIN waveOrder : waveOrder[n] = g
    <2>1. k \in DOMAIN waveOrder
        BY <1>2
    <2>2. WavesFrom(g) = SubSeq(waveOrder, k, Len(waveOrder))
        BY <1>2 DEF WavesFrom
    <2>3. k \in 1..(Len(waveOrder) + 1) /\ Len(waveOrder) \in k-1 .. Len(waveOrder)
        BY <1>1, <2>1
    <2> HIDE DEF k
    <2> QED BY <1>1, <2>2, <2>3, SubSeqProperties
<1>3. CASE ~\E k \in DOMAIN waveOrder : waveOrder[k] = g
    BY <1>1, <1>3 DEF WavesFrom
<1> QED BY <1>2, <1>3

LEMMA UpcomingType ==
    ASSUME TypeOK, NEW t \in Tasks
    PROVE  Upcoming(t) \in Seq(Groups)
<1>1. /\ tasks[t] \in Task
      /\ tasks[t].waves \in Seq(Groups)
      /\ tasks[t].deploy \in Deploys
      /\ waveOrder \in WaveOrders
    BY DEF TypeOK, Task
<1>2. WavesFrom(tasks[t].first) \in Seq(Groups)
    BY <1>1, WavesFromType
<1>3. waveOrder \in Seq(Groups) /\ waveOrder # <<>>
    BY <1>1, DeployAssumptions DEF DeployAssumptions
<1>4. waveOrder[1] \in Groups
    BY <1>3
<1>5. <<waveOrder[1]>> \in Seq(Groups)
    BY <1>4
<1>6. Plan(t) \in Seq(Groups)
    BY <1>2, <1>3, <1>5 DEF Plan
<1> QED BY <1>1, <1>6 DEF Upcoming

LEMMA SuffixType ==
    ASSUME NEW ws \in Seq(Groups), NEW k \in DOMAIN ws
    PROVE  SubSeq(ws, k + 1, Len(ws)) \in Seq(Groups)
<1>1. k + 1 \in 1..(Len(ws) + 1) /\ Len(ws) \in (k + 1) - 1 .. Len(ws)
    OBVIOUS
<1> QED BY <1>1, SubSeqProperties

-----------------------------------------------------------------------------
(* What the building blocks of the actions do to the rows and the tasks.   *)

LEMMA NoWaves == <<>> \in Seq(Groups)
OBVIOUS

LEMMA LeavesEffect ==
    ASSUME TypeOK, NEW t \in Tasks, NEW pc \in TaskPcs, Leaves(t, pc)
    PROVE  /\ tasks' \in [Tasks -> Task]
           /\ \A u \in Tasks : tasks'[u].deploy = tasks[u].deploy
           /\ tasks'[t].pc = pc
           /\ \A u \in Tasks \ {t} : tasks'[u] = tasks[u]
<1> DEFINE left == [tasks[t] EXCEPT !.pc = pc, !.first = "", !.waves = <<>>,
                                    !.todo = {}, !.batch = {}]
<1>1. tasks[t] \in Task
    BY DEF TypeOK
<1>2. left \in Task /\ left.pc = pc /\ left.deploy = tasks[t].deploy
    BY <1>1, NoWaves DEF Task
<1>3. tasks' = [tasks EXCEPT ![t] = left]
    BY DEF Leaves
<1> HIDE DEF left
<1> QED BY <1>2, <1>3 DEF TypeOK

LEMMA SetStatusEffect ==
    ASSUME TypeOK, NEW d \in Deploys, NEW s \in Statuses, SetStatus(d, s)
    PROVE  /\ recs' \in [Deploys -> Rec]
           /\ recs'[d].status = s
           /\ \A e \in Deploys \ {d} : recs'[e] = recs[e]
BY DEF TypeOK, SetStatus, Rec

\* The four updates of a row that also name the wave.
LEMMA SetWaveEffect ==
    ASSUME TypeOK, NEW d \in Deploys, NEW s \in Statuses,
           NEW g \in Groups \cup {"all", ""},
           recs' = [recs EXCEPT ![d].status = s, ![d].wave = g]
    PROVE  /\ recs' \in [Deploys -> Rec]
           /\ recs'[d].status = s
           /\ \A e \in Deploys \ {d} : recs'[e] = recs[e]
<1> DEFINE row == [recs[d] EXCEPT !.status = s, !.wave = g]
<1>1. recs \in [Deploys -> Rec] /\ recs[d] \in Rec
    BY DEF TypeOK
<1>2. row \in Rec /\ row.status = s
    BY <1>1 DEF Rec
<1>3. recs' = [recs EXCEPT ![d] = row]
    BY <1>1
<1> HIDE DEF row
<1>4. QED BY <1>1, <1>2, <1>3

LEMMA CreateTaskEffect ==
    ASSUME TypeOK, NEW t \in Tasks, NEW d \in Deploys, NEW resume \in BOOLEAN,
           NEW from \in Groups \cup {"all", ""}, CreateTask(t, d, resume, from)
    PROVE  /\ tasks' \in [Tasks -> Task]
           /\ activeTask' \in Tasks \cup {0}
           /\ tasks[t].pc = "unused"
           /\ tasks'[t].pc = "ready" /\ tasks'[t].deploy = d
           /\ \A u \in Tasks \ {t} : tasks'[u] = tasks[u]
<1> DEFINE new == [pc |-> "ready", deploy |-> d, resume |-> resume, first |-> from,
                   waves |-> <<>>, todo |-> {}, batch |-> {}]
<1>1. new \in Task /\ new.pc = "ready" /\ new.deploy = d
    BY NoWaves DEF Task, TaskPcs
<1>2. /\ tasks[t].pc = "unused"
      /\ tasks' = [tasks EXCEPT ![t] = new]
      /\ activeTask' = t
    BY DEF CreateTask
<1> HIDE DEF new
<1> QED BY <1>1, <1>2 DEF TypeOK

LEMMA SubmitBatchEffect ==
    ASSUME TypeOK, NEW t \in Tasks, NEW first \in Groups \cup {"all", ""},
           NEW waves \in Seq(Groups), NEW todo \in SUBSET Instances,
           SubmitBatch(t, first, waves, todo)
    PROVE  /\ tasks' \in [Tasks -> Task]
           /\ tasks'[t].pc = "patching" /\ tasks'[t].deploy = tasks[t].deploy
           /\ \A u \in Tasks \ {t} : tasks'[u] = tasks[u]
           /\ jobs' \subseteq Job
           /\ \A j \in jobs' : j \in jobs \/ j.by = t
<1>1. PICK b \in SUBSET todo :
         /\ tasks' = [tasks EXCEPT ![t] = [@ EXCEPT !.pc = "patching", !.first = first,
                                                   !.waves = waves, !.todo = todo \ b,
                                                   !.batch = b]]
         /\ jobs' = jobs \cup [by: {t}, inst: b]
    BY DEF SubmitBatch
<1> DEFINE new == [tasks[t] EXCEPT !.pc = "patching", !.first = first, !.waves = waves,
                                   !.todo = todo \ b, !.batch = b]
<1>2. tasks[t] \in Task
    BY DEF TypeOK
<1>3. new \in Task /\ new.pc = "patching" /\ new.deploy = tasks[t].deploy
    BY <1>2 DEF Task, TaskPcs
<1>4. tasks' = [tasks EXCEPT ![t] = new]
    BY <1>1
<1>5. jobs' \subseteq Job /\ \A j \in jobs' : j \in jobs \/ j.by = t
    BY <1>1 DEF TypeOK, Job
<1> HIDE DEF new
<1> QED BY <1>3, <1>4, <1>5 DEF TypeOK

LEMMA WaveDoneEffect ==
    ASSUME TypeOK, NEW t \in Tasks, WaveDone(t)
    PROVE  /\ tasks' \in [Tasks -> Task]
           /\ tasks'[t].pc = "notify" /\ tasks'[t].deploy = tasks[t].deploy
           /\ \A u \in Tasks \ {t} : tasks'[u] = tasks[u]
<1> DEFINE new == [tasks[t] EXCEPT !.pc = "notify"]
<1>1. tasks[t] \in Task
    BY DEF TypeOK
<1>2. new \in Task /\ new.pc = "notify" /\ new.deploy = tasks[t].deploy
    BY <1>1 DEF Task, TaskPcs
<1>3. tasks' = [tasks EXCEPT ![t] = new]
    BY DEF WaveDone
<1> HIDE DEF new
<1> QED BY <1>2, <1>3 DEF TypeOK

LEMMA EnterWaveEffect ==
    ASSUME TypeOK, NEW t \in Tasks, EnterWave(t)
    PROVE  /\ recs' \in [Deploys -> Rec]
           /\ recs'[tasks[t].deploy].status \in InProgress
           /\ \A e \in Deploys \ {tasks[t].deploy} : recs'[e] = recs[e]
           /\ tasks' \in [Tasks -> Task]
           /\ tasks'[t].pc = "patching" /\ tasks'[t].deploy = tasks[t].deploy
           /\ \A u \in Tasks \ {t} : tasks'[u] = tasks[u]
           /\ jobs' \subseteq Job
           /\ \A j \in jobs' : j \in jobs \/ j.by = t
<1>1. PICK k \in DOMAIN Upcoming(t) :
         LET ws    == Upcoming(t)
             g     == ws[k]
             first == IF tasks[t].pc = "ready" THEN ws[1] ELSE tasks[t].first
         IN  /\ recs' = [recs EXCEPT
                           ![tasks[t].deploy].status = IF g = first THEN "canary"
                                                                    ELSE "rolling",
                           ![tasks[t].deploy].wave = g]
             /\ SubmitBatch(t, first, SubSeq(ws, k + 1, Len(ws)), Members(g))
    BY DEF EnterWave
<1> DEFINE ws    == Upcoming(t)
           g     == ws[k]
           first == IF tasks[t].pc = "ready" THEN ws[1] ELSE tasks[t].first
           rest  == SubSeq(ws, k + 1, Len(ws))
           s     == IF g = first THEN "canary" ELSE "rolling"
<1>2. ws \in Seq(Groups)
    BY UpcomingType
<1>3. rest \in Seq(Groups)
    BY <1>2, SuffixType
<1>4. tasks[t].deploy \in Deploys /\ tasks[t].first \in Groups \cup {"all", ""}
    BY DEF TypeOK, Task
<1>5. g \in Groups /\ ws[1] \in Groups
    <2>1. k \in DOMAIN ws
        OBVIOUS
    <2> HIDE DEF ws
    <2>2. k \in 1..Len(ws) /\ Len(ws) \in Nat
        BY <1>2, <2>1
    <2>3. 1 \in DOMAIN ws
        BY <1>2, <2>2
    <2> QED BY <1>2, <2>1, <2>3
<1>6. first \in Groups \cup {"all", ""}
    BY <1>4, <1>5
<1>7. /\ recs' = [recs EXCEPT ![tasks[t].deploy].status = s, ![tasks[t].deploy].wave = g]
      /\ SubmitBatch(t, first, rest, Members(g))
    BY <1>1
<1>8. s \in InProgress /\ s \in Statuses
    BY DEF Statuses, ActiveStatuses, InProgress
<1>9. Members(g) \in SUBSET Instances
    BY DEF Members
<1> HIDE DEF ws, g, first, rest, s
<1>10. /\ recs' \in [Deploys -> Rec]
       /\ recs'[tasks[t].deploy].status = s
       /\ \A e \in Deploys \ {tasks[t].deploy} : recs'[e] = recs[e]
    BY <1>4, <1>5, <1>7, <1>8, SetWaveEffect
<1> QED BY <1>3, <1>6, <1>7, <1>8, <1>9, <1>10, SubmitBatchEffect

LEMMA NextBatchEffect ==
    ASSUME TypeOK, NEW t \in Tasks, NextBatch(t) \/ FastNext(t)
    PROVE  /\ tasks' \in [Tasks -> Task]
           /\ tasks'[t].pc = "patching" /\ tasks'[t].deploy = tasks[t].deploy
           /\ \A u \in Tasks \ {t} : tasks'[u] = tasks[u]
           /\ jobs' \subseteq Job
           /\ \A j \in jobs' : j \in jobs \/ j.by = t
<1>1. SubmitBatch(t, tasks[t].first, tasks[t].waves, tasks[t].todo)
    BY DEF NextBatch, FastNext
<1>2. /\ tasks[t].first \in Groups \cup {"all", ""}
      /\ tasks[t].waves \in Seq(Groups)
      /\ tasks[t].todo \in SUBSET Instances
    BY DEF TypeOK, Task
<1> QED BY <1>1, <1>2, SubmitBatchEffect

LEMMA FastStartEffect ==
    ASSUME TypeOK, NEW t \in Tasks, FastStart(t)
    PROVE  /\ recs' \in [Deploys -> Rec]
           /\ recs'[tasks[t].deploy].status = "rolling"
           /\ \A e \in Deploys \ {tasks[t].deploy} : recs'[e] = recs[e]
           /\ tasks' \in [Tasks -> Task]
           /\ tasks'[t].pc = "patching" /\ tasks'[t].deploy = tasks[t].deploy
           /\ \A u \in Tasks \ {t} : tasks'[u] = tasks[u]
           /\ jobs' \subseteq Job
           /\ \A j \in jobs' : j \in jobs \/ j.by = t
<1>1. SubmitBatch(t, "", <<>>, Instances)
    BY DEF FastStart
<1>2. tasks[t].deploy \in Deploys
    BY DEF TypeOK, Task
<1>3. recs' = [recs EXCEPT ![tasks[t].deploy].status = "rolling", ![tasks[t].deploy].wave = "all"]
    BY DEF FastStart
<1>4. "rolling" \in Statuses /\ "all" \in Groups \cup {"all", ""}
    BY DEF Statuses, ActiveStatuses, InProgress
<1> QED BY <1>1, <1>2, <1>3, <1>4, NoWaves, SubmitBatchEffect, SetWaveEffect

-----------------------------------------------------------------------------
(* Type correctness.                                                       *)

LEMMA PassesOverType ==
    ASSUME TypeOK, NEW t \in Tasks, NEW n, PassesOver(t, n)
    PROVE  overlooked' \in [Deploys -> SUBSET Instances]
<1> DEFINE hidden == {i \in Instances : group[i] \in {Upcoming(t)[k] : k \in 1..n}}
<1>1. overlooked' = [overlooked EXCEPT ![tasks[t].deploy] = @ \cup hidden]
    BY DEF PassesOver
<1>2. hidden \in SUBSET Instances
    OBVIOUS
<1> HIDE DEF hidden
<1>3. tasks[t].deploy \in Deploys /\ overlooked \in [Deploys -> SUBSET Instances]
    BY DEF TypeOK, Task
<1> QED BY <1>1, <1>2, <1>3

LEMMA InitTypeOK == Init => TypeOK
<1> SUFFICES ASSUME Init PROVE TypeOK
    OBVIOUS
<1> USE DeployAssumptions DEF DeployAssumptions
<1> DEFINE tag == CHOOSE v \in Tags : TRUE
<1>1. tag \in Tags
    OBVIOUS
<1>2. 1 \in Deploys
    <2>1. MaxDeploys \in Nat \ {0}
        OBVIOUS
    <2> QED BY ONLY <2>1 DEF Deploys
<1>3. recs \in [Deploys -> Rec]
    BY <1>1 DEF Init, NoRow, Rec, Statuses, ActiveStatuses, InProgress, NamedModes
<1>4. tasks \in [Tasks -> Task]
    BY <1>2, NoWaves DEF Init, Task, TaskPcs
<1>5. /\ activeTask \in Tasks \cup {0}
      /\ jobs \subseteq Job
      /\ rollback \in [Deploys -> SUBSET Instances]
      /\ abortReq \in [pc: {"idle"}, deploy: {0}]
      /\ gated \in [Deploys -> SUBSET Instances]
      /\ overlooked \in [Deploys -> SUBSET Instances]
      /\ orphaned \subseteq Deploys
    BY DEF Init
<1>6. image \in [Instances -> Tags] /\ group \in [Instances -> Groups] /\ waveOrder \in WaveOrders
    BY DEF Init
<1> QED BY <1>3, <1>4, <1>5, <1>6 DEF TypeOK

LEMMA NextTypeOK == TypeOK /\ [Next]_vars => TypeOK'
<1> SUFFICES ASSUME TypeOK, [Next]_vars PROVE TypeOK'
    OBVIOUS
<1>1. ASSUME NEW d \in Deploys, NEW t \in Tasks, NEW tag \in Tags, NEW mode \in Modes,
             NEW force \in BOOLEAN, StartDeploy(d, t, tag, mode, force)
      PROVE  TypeOK'
    <2>1. PICK prev \in Tags :
             recs' = [recs EXCEPT ![d] = [status |-> "pending", tag |-> tag, prev |-> prev,
                                          mode |-> mode, wave |-> ""]]
        BY <1>1 DEF StartDeploy
    <2>2. mode \in NamedModes \cup Groups
        BY DeployAssumptions DEF DeployAssumptions
    <2>3. recs' \in [Deploys -> Rec]
        BY <2>1, <2>2 DEF TypeOK, Rec, Statuses, ActiveStatuses, InProgress
    <2>4. CreateTask(t, d, FALSE, "")
        BY <1>1 DEF StartDeploy
    <2>5. tasks' \in [Tasks -> Task] /\ activeTask' \in Tasks \cup {0}
        BY <2>4, CreateTaskEffect
    <2> QED BY <1>1, <2>3, <2>5 DEF StartDeploy, TypeOK
<1>2. ASSUME NEW d \in Deploys, NEW t \in Tasks, ContinueDeploy(d, t)
      PROVE  TypeOK'
    <2>1. recs[d].wave \in Groups \cup {"all", ""}
        BY DEF TypeOK, Rec
    <2>2. CreateTask(t, d, TRUE, recs[d].wave)
        BY <1>2 DEF ContinueDeploy
    <2>3. tasks' \in [Tasks -> Task] /\ activeTask' \in Tasks \cup {0}
        BY <2>1, <2>2, CreateTaskEffect
    <2>4. recs' \in [Deploys -> Rec]
        BY <1>2, SetStatusEffect DEF ContinueDeploy, Statuses, ActiveStatuses, InProgress
    <2> QED BY <1>2, <2>3, <2>4 DEF ContinueDeploy, TypeOK
<1>3. ASSUME NEW d \in Deploys, RollbackStart(d)
      PROVE  TypeOK'
    <2>1. recs' \in [Deploys -> Rec]
        BY <1>3, SetStatusEffect DEF RollbackStart, Statuses
    <2>2. rollback' \in [Deploys -> SUBSET Instances]
        BY <1>3 DEF RollbackStart, TypeOK
    <2> QED BY <1>3, <2>1, <2>2 DEF RollbackStart, TypeOK
<1>4. ASSUME NEW d \in Deploys, AbortRead(d)
      PROVE  TypeOK'
    BY <1>4 DEF AbortRead, TypeOK
<1>5. ASSUME NEW d \in Deploys, NEW i \in Instances, RollbackOne(d, i)
      PROVE  TypeOK'
    <2>1. recs[d].prev \in Tags
        BY DEF TypeOK, Rec
    <2>2. image' \in [Instances -> Tags]
        BY <1>5, <2>1 DEF RollbackOne, TypeOK
    <2>3. rollback' \in [Deploys -> SUBSET Instances]
        BY <1>5 DEF RollbackOne, TypeOK
    <2> QED BY <1>5, <2>2, <2>3 DEF RollbackOne, TypeOK
<1>6. ASSUME AbortMark
      PROVE  TypeOK'
    <2>1. abortReq \in [pc: {"mark", "cancel"}, deploy: Deploys]
        BY <1>6 DEF AbortMark, TypeOK
    <2>2. recs' \in [Deploys -> Rec]
        BY <1>6, <2>1, SetStatusEffect DEF AbortMark, Statuses
    <2> QED BY <1>6, <2>1, <2>2 DEF AbortMark, TypeOK
<1>7. ASSUME AbortCancel
      PROVE  TypeOK'
    <2>1. CASE activeTask = 0 \/ tasks[activeTask].pc \in {"cancelled", "done"}
        BY <1>7, <2>1 DEF AbortCancel, TypeOK
    <2>2. CASE ~(activeTask = 0 \/ tasks[activeTask].pc \in {"cancelled", "done"})
        <3>1. activeTask \in Tasks
            BY <2>2 DEF TypeOK
        <3>2. PICK pc \in {"done", "cancelled"} : Leaves(activeTask, pc)
            BY <1>7, <2>2 DEF AbortCancel
        <3>3. tasks' \in [Tasks -> Task]
            BY <3>1, <3>2, LeavesEffect DEF TaskPcs
        <3>4. jobs' \subseteq jobs
            BY <1>7, <2>2 DEF AbortCancel
        <3>5. tasks[activeTask].deploy \in Deploys
            BY <3>1 DEF TypeOK, Task
        <3>6. orphaned' \subseteq Deploys
            BY <1>7, <2>2, <3>5 DEF AbortCancel, TypeOK
        <3>7. abortReq' \in [pc: {"idle"}, deploy: {0}]
            BY <1>7 DEF AbortCancel
        <3> QED BY <1>7, <3>3, <3>4, <3>6, <3>7 DEF AbortCancel, TypeOK
    <2> QED BY <2>1, <2>2
<1>8. ASSUME NEW j \in Job, JobEnds(j)
      PROVE  TypeOK'
    <2>1. recs[tasks[j.by].deploy].tag \in Tags
        BY DEF TypeOK, Rec, Task, Job
    <2>2. image' \in [Instances -> Tags]
        BY <1>8, <2>1 DEF JobEnds, TypeOK, Job
    <2> QED BY <1>8, <2>2 DEF JobEnds, TypeOK
<1>9. ASSUME NEW t \in Tasks, EnterWave(t)
      PROVE  TypeOK'
    <2>1. tasks' \in [Tasks -> Task] /\ jobs' \subseteq Job /\ recs' \in [Deploys -> Rec]
        BY <1>9, EnterWaveEffect
    <2>2. overlooked' \in [Deploys -> SUBSET Instances]
        BY <1>9, PassesOverType DEF EnterWave
    <2> QED BY <1>9, <2>1, <2>2 DEF EnterWave, TaskFrame, TypeOK
<1>10. ASSUME NEW t \in Tasks, AllWavesDone(t) \/ FastFindsNone(t) \/ FastDone(t)
       PROVE  TypeOK'
    <2>1. tasks[t].deploy \in Deploys
        BY DEF TypeOK, Task
    <2>2. tasks' \in [Tasks -> Task]
        BY <1>10, LeavesEffect DEF AllWavesDone, FastFindsNone, FastDone, TaskPcs
    <2>3. recs' \in [Deploys -> Rec]
        BY <1>10, <2>1, SetWaveEffect DEF AllWavesDone, FastFindsNone, FastDone, Statuses
    <2>4. overlooked' \in [Deploys -> SUBSET Instances]
        <3>1. overlooked' = overlooked \/ PassesOver(t, Len(Upcoming(t)))
            BY <1>10 DEF AllWavesDone, FastFindsNone, FastDone
        <3> QED BY <3>1, PassesOverType DEF TypeOK
    <2> QED BY <1>10, <2>2, <2>3, <2>4 DEF AllWavesDone, FastFindsNone, FastDone, TaskFrame, TypeOK
<1>11. ASSUME NEW t \in Tasks, NEW bad, HealthVerdict(t, bad)
       PROVE  /\ gated' \in [Deploys -> SUBSET Instances]
              /\ overlooked' \in [Deploys -> SUBSET Instances]
    BY <1>11 DEF HealthVerdict, TypeOK, Task
<1>12. ASSUME NEW t \in Tasks, GateFails(t)
       PROVE  TypeOK'
    <2>1. tasks[t].deploy \in Deploys
        BY DEF TypeOK, Task
    <2>2. tasks' \in [Tasks -> Task]
        BY <1>12, LeavesEffect DEF GateFails, TaskPcs
    <2>3. recs' \in [Deploys -> Rec]
        BY <1>12, <2>1, SetStatusEffect DEF GateFails, Statuses, ActiveStatuses
    <2>4. /\ gated' \in [Deploys -> SUBSET Instances]
          /\ overlooked' \in [Deploys -> SUBSET Instances]
        BY <1>11, <1>12 DEF GateFails
    <2> QED BY <1>12, <2>2, <2>3, <2>4 DEF GateFails, TaskFrame, TypeOK
<1>13. ASSUME NEW t \in Tasks, WaveDone(t) \/ StopSeen(t)
       PROVE  TypeOK'
    <2>1. tasks' \in [Tasks -> Task]
        BY <1>13, WaveDoneEffect, LeavesEffect DEF StopSeen, TaskPcs
    <2>2. /\ gated' \in [Deploys -> SUBSET Instances]
          /\ overlooked' \in [Deploys -> SUBSET Instances]
        BY <1>11, <1>13 DEF WaveDone, StopSeen
    <2> QED BY <1>13, <2>1, <2>2 DEF WaveDone, StopSeen, TaskFrame, TypeOK
<1>14. ASSUME NEW t \in Tasks, NextBatch(t) \/ FastNext(t)
       PROVE  TypeOK'
    <2>1. tasks' \in [Tasks -> Task] /\ jobs' \subseteq Job
        BY <1>14, NextBatchEffect
    <2>2. /\ gated' \in [Deploys -> SUBSET Instances]
          /\ overlooked' \in [Deploys -> SUBSET Instances]
        BY <1>11, <1>14 DEF NextBatch, FastNext, TypeOK
    <2> QED BY <1>14, <2>1, <2>2 DEF NextBatch, FastNext, TaskFrame, TypeOK
<1>15. ASSUME NEW t \in Tasks, FastStart(t)
       PROVE  TypeOK'
    <2>1. tasks' \in [Tasks -> Task] /\ jobs' \subseteq Job /\ recs' \in [Deploys -> Rec]
        BY <1>15, FastStartEffect
    <2> QED BY <1>15, <2>1 DEF FastStart, TaskFrame, TypeOK
<1>16. ASSUME NEW t \in Tasks, TaskFault(t) \/ CancelHandled(t)
       PROVE  TypeOK'
    <2>1. tasks[t].deploy \in Deploys
        BY DEF TypeOK, Task
    <2>2. tasks' \in [Tasks -> Task]
        BY <1>16, LeavesEffect DEF TaskFault, CancelHandled, TaskPcs
    <2>3. recs' \in [Deploys -> Rec]
        BY <1>16, <2>1, SetStatusEffect DEF TaskFault, CancelHandled, Statuses
    <2> QED BY <1>16, <2>2, <2>3 DEF TaskFault, CancelHandled, TaskFrame, TypeOK
<1>17. ASSUME NEW t \in Tasks, TaskReturns(t)
       PROVE  TypeOK'
    <2>1. tasks' \in [Tasks -> Task]
        BY <1>17, LeavesEffect DEF TaskReturns, TaskPcs
    <2> QED BY <1>17, <2>1 DEF TaskReturns, TaskFrame, TypeOK
<1>18. ASSUME NEW i \in Instances, NEW g \in Groups, Regroup(i, g)
       PROVE  TypeOK'
    BY <1>18 DEF Regroup, TypeOK
<1>19. ASSUME NEW order \in WaveOrders, EditRegistry(order)
       PROVE  TypeOK'
    BY <1>19 DEF EditRegistry, TypeOK
<1>20. ASSUME Restart
       PROVE  TypeOK'
    <2>1. PICK applied \in SUBSET jobs :
             image' = [i \in Instances |->
                         IF \E j \in applied : j.inst = i
                         THEN recs[tasks[(CHOOSE j \in applied : j.inst = i).by].deploy].tag
                         ELSE image[i]]
        BY <1>20 DEF Restart
    <2>2. ASSUME NEW j \in jobs
          PROVE  recs[tasks[j.by].deploy].tag \in Tags
        BY DEF TypeOK, Job, Task, Rec
    <2>3. ASSUME NEW i \in Instances, \E j \in applied : j.inst = i
          PROVE  (CHOOSE j \in applied : j.inst = i) \in jobs
        BY <2>3
    <2>4. image' \in [Instances -> Tags]
        BY <2>1, <2>2, <2>3 DEF TypeOK
    <2>5. tasks' \in [Tasks -> Task]
        <3>1. ASSUME NEW t \in Tasks
              PROVE  [tasks[t] EXCEPT !.pc = "done", !.first = "", !.waves = <<>>,
                                      !.todo = {}, !.batch = {}] \in Task
            <4>1. tasks[t] \in Task
                BY DEF TypeOK
            <4> QED BY <4>1, NoWaves DEF Task, TaskPcs
        <3> QED BY <1>20, <3>1 DEF Restart, TypeOK
    <2> QED BY <1>20, <2>4, <2>5 DEF Restart, TypeOK
<1>21. CASE UNCHANGED vars
    BY <1>21 DEF vars, TypeOK
<1> QED
    BY <1>1, <1>2, <1>3, <1>4, <1>5, <1>6, <1>7, <1>8, <1>9, <1>10, <1>12, <1>13, <1>14, <1>15,
       <1>16, <1>17, <1>18, <1>19, <1>20, <1>21 DEF Next, TaskStep

\* Every variable keeps its type: rows have a known status, tasks a known place,
\* whatever the interleaving of requests, threads and restarts.
THEOREM TypeCorrect == Spec => []TypeOK
<1>1. Init => TypeOK
    BY InitTypeOK
<1>2. TypeOK /\ [Next]_vars => TypeOK'
    BY NextTypeOK
<1> QED BY <1>1, <1>2, PTL DEF Spec

-----------------------------------------------------------------------------
(* The inductive invariant: how a step of one task, whatever it does, keeps *)
(* it.                                                                      *)

\* A worker goes on: its row shows progress and its new threads are awaited.
LEMMA WorkerGoesOn ==
    ASSUME IInv, TypeOK', NEW t \in Tasks, Working(t),
           tasks'[t].pc \in {"patching", "notify"},
           tasks'[t].deploy = tasks[t].deploy,
           \A u \in Tasks \ {t} : tasks'[u] = tasks[u],
           recs'[tasks[t].deploy].status \notin {"paused", "complete", "none"},
           \A e \in Deploys \ {tasks[t].deploy} : recs'[e] = recs[e],
           \A j \in jobs' : j \in jobs \/ j.by = t,
           tasks'[t].pc = "notify" => \A j \in jobs' : j.by # t,
           activeTask' = activeTask
    PROVE  IInv'
<1> USE DEF IInv
<1>1. \A u \in Tasks : tasks'[u].deploy = tasks[u].deploy /\ tasks[u].deploy \in Deploys
    BY DEF TypeOK, Task
<1>2. \A u \in Tasks : Working(u)' <=> Working(u)
    BY DEF Working
<1>3. \A j \in jobs' : j.by \in Tasks
    BY DEF TypeOK, Job
<1>4. OneWorkerPerDeploy'
    BY <1>1, <1>2 DEF OneWorkerPerDeploy
<1>5. WorkerHoldsRow'
    BY <1>1, <1>2 DEF WorkerHoldsRow
<1>6. TasksHaveRows'
    BY <1>1 DEF TasksHaveRows, Working
<1>7. JobsAreSubmitted'
    BY <1>3 DEF JobsAreSubmitted
<1>8. LateJobsAreLoose'
    <2> SUFFICES ASSUME NEW j \in jobs', tasks'[j.by].pc # "patching"
                 PROVE  /\ recs'[tasks[j.by].deploy].status \notin {"paused", "complete"}
                        /\ \A u \in Tasks : Working(u) => tasks[u].deploy # tasks[j.by].deploy
        BY <1>1, <1>2, <1>3 DEF LateJobsAreLoose
    <2>1. j.by # t /\ j \in jobs /\ j.by \in Tasks
        BY <1>3
    <2>2. tasks[j.by].pc # "patching"
        BY <2>1
    <2> QED BY <1>1, <2>1, <2>2 DEF LateJobsAreLoose
<1>9. ActiveTaskStarted'
    BY DEF ActiveTaskStarted, TypeOK
<1> QED BY <1>4, <1>5, <1>6, <1>7, <1>8, <1>9

\* A worker stops: it may write paused or complete only if it has no thread left.
LEMMA WorkerStops ==
    ASSUME IInv, TypeOK', NEW t \in Tasks, Working(t),
           tasks'[t].pc \in {"closing", "cancelled", "done"},
           \A u \in Tasks : tasks'[u].deploy = tasks[u].deploy,
           \A u \in Tasks \ {t} : tasks'[u] = tasks[u],
           recs'[tasks[t].deploy].status # "none",
           recs'[tasks[t].deploy].status \in {"paused", "complete"} => JobsOf(t) = {},
           \A e \in Deploys \ {tasks[t].deploy} : recs'[e] = recs[e],
           jobs' \subseteq jobs,
           activeTask' = activeTask
    PROVE  IInv'
<1> USE DEF IInv
<1>1. \A u \in Tasks : tasks[u].deploy \in Deploys
    BY DEF TypeOK, Task
<1>2. \A u \in Tasks : Working(u)' <=> Working(u) /\ u # t
    BY DEF Working
<1>3. \A j \in jobs' : j.by \in Tasks
    BY DEF TypeOK, Job
<1>4. \A u \in Tasks : Working(u)' => tasks[u].deploy # tasks[t].deploy
    BY <1>2 DEF OneWorkerPerDeploy
<1>5. OneWorkerPerDeploy'
    BY <1>2 DEF OneWorkerPerDeploy
<1>6. WorkerHoldsRow'
    BY <1>1, <1>2, <1>4 DEF WorkerHoldsRow
<1>7. TasksHaveRows'
    BY <1>1 DEF TasksHaveRows
<1>8. JobsAreSubmitted'
    BY <1>3 DEF JobsAreSubmitted
<1>9. LateJobsAreLoose'
    <2> SUFFICES ASSUME NEW j \in jobs', tasks'[j.by].pc # "patching"
                 PROVE  /\ recs'[tasks[j.by].deploy].status \notin {"paused", "complete"}
                        /\ \A u \in Tasks : Working(u)' => tasks[u].deploy # tasks[j.by].deploy
        BY <1>3 DEF LateJobsAreLoose
    <2>1. j \in jobs /\ j.by \in Tasks
        BY <1>3
    <2>2. CASE j.by = t
        <3>1. j \in JobsOf(t)
            BY <2>1, <2>2 DEF JobsOf
        <3> QED BY <1>4, <2>2, <3>1
    <2>3. CASE j.by # t /\ tasks[j.by].deploy = tasks[t].deploy
        \* Such a thread would have been loose beside the worker t, or awaited by
        \* a second worker of the deploy.
        <3>1. tasks[j.by].pc # "patching"
            BY <2>1, <2>3 DEF OneWorkerPerDeploy, Working
        <3> QED BY <2>1, <2>3, <3>1 DEF LateJobsAreLoose
    <2>4. CASE j.by # t /\ tasks[j.by].deploy # tasks[t].deploy
        <3>1. tasks[j.by].pc # "patching"
            BY <2>1, <2>4
        <3> QED BY <1>1, <1>2, <2>1, <2>4, <3>1 DEF LateJobsAreLoose
    <2> QED BY <2>2, <2>3, <2>4
<1>10. ActiveTaskStarted'
    BY DEF ActiveTaskStarted, TypeOK
<1> QED BY <1>5, <1>6, <1>7, <1>8, <1>9, <1>10

\* A task that no longer works moves on, and may mark its row failed.
LEMMA IdleMoves ==
    ASSUME IInv, TypeOK', NEW t \in Tasks, tasks[t].pc \in {"closing", "cancelled"},
           tasks'[t].pc \in {"cancelled", "done"},
           \A u \in Tasks : tasks'[u].deploy = tasks[u].deploy,
           \A u \in Tasks \ {t} : tasks'[u] = tasks[u],
           \/ recs'[tasks[t].deploy].status = "failed"
           \/ recs'[tasks[t].deploy] = recs[tasks[t].deploy],
           \A e \in Deploys \ {tasks[t].deploy} : recs'[e] = recs[e],
           jobs' \subseteq jobs,
           activeTask' = activeTask
    PROVE  IInv'
<1> USE DEF IInv
<1>1. \A u \in Tasks : tasks[u].deploy \in Deploys
    BY DEF TypeOK, Task
<1>2. \A u \in Tasks : Working(u)' <=> Working(u)
    BY DEF Working
<1>3. \A j \in jobs' : j.by \in Tasks /\ j \in jobs
    BY DEF TypeOK, Job
<1>4. OneWorkerPerDeploy'
    BY <1>2 DEF OneWorkerPerDeploy
<1>5. WorkerHoldsRow'
    BY <1>1, <1>2 DEF WorkerHoldsRow
<1>6. TasksHaveRows'
    BY <1>1 DEF TasksHaveRows
<1>7. JobsAreSubmitted'
    BY <1>3 DEF JobsAreSubmitted
<1>8. LateJobsAreLoose'
    <2> SUFFICES ASSUME NEW j \in jobs', tasks'[j.by].pc # "patching"
                 PROVE  /\ recs'[tasks[j.by].deploy].status \notin {"paused", "complete"}
                        /\ \A u \in Tasks : Working(u) => tasks[u].deploy # tasks[j.by].deploy
        BY <1>2, <1>3 DEF LateJobsAreLoose
    <2>1. tasks[j.by].pc # "patching"
        BY <1>3
    <2> QED BY <1>1, <1>3, <2>1 DEF LateJobsAreLoose
<1>9. ActiveTaskStarted'
    BY DEF ActiveTaskStarted, TypeOK
<1> QED BY <1>4, <1>5, <1>6, <1>7, <1>8, <1>9

\* A request marks a row failed or rolled back; its task is not told.
LEMMA RowEnds ==
    ASSUME IInv, TypeOK', NEW d \in Deploys, NEW s \in {"failed", "rolled_back"},
           SetStatus(d, s), UNCHANGED <<tasks, jobs>>,
           activeTask' = activeTask
    PROVE  IInv'
<1> USE DEF IInv
<1>1. recs'[d].status = s /\ \A e \in Deploys \ {d} : recs'[e] = recs[e]
    BY SetStatusEffect DEF Statuses
<1>2. \A t \in Tasks : tasks[t].deploy \in Deploys /\ (Working(t)' <=> Working(t))
    BY DEF TypeOK, Task, Working
<1>3. \A j \in jobs : j.by \in Tasks
    BY DEF TypeOK, Job
<1>4. OneWorkerPerDeploy'
    BY <1>2 DEF OneWorkerPerDeploy
<1>5. WorkerHoldsRow'
    BY <1>1, <1>2 DEF WorkerHoldsRow
<1>6. TasksHaveRows'
    BY <1>1, <1>2 DEF TasksHaveRows
<1>7. JobsAreSubmitted'
    BY DEF JobsAreSubmitted
<1>8. LateJobsAreLoose'
    BY <1>1, <1>2, <1>3 DEF LateJobsAreLoose
<1>9. ActiveTaskStarted'
    BY DEF ActiveTaskStarted, TypeOK
<1> QED BY <1>4, <1>5, <1>6, <1>7, <1>8, <1>9

\* A task is created for a row that no worker holds and no thread writes for.
LEMMA WorkerStarts ==
    ASSUME IInv, TypeOK', NEW t \in Tasks, NEW d \in Deploys,
           recs[d].status \in {"none", "paused"},
           tasks[t].pc = "unused", tasks'[t].pc = "ready", tasks'[t].deploy = d,
           \A u \in Tasks \ {t} : tasks'[u] = tasks[u],
           recs'[d].status \in {"pending", "rolling"},
           \A e \in Deploys \ {d} : recs'[e] = recs[e],
           jobs' = jobs,
           activeTask' = t
    PROVE  IInv'
<1> USE DEF IInv
<1>1. \A u \in Tasks : tasks[u].deploy \in Deploys
    BY DEF TypeOK, Task
<1>2. \A u \in Tasks : Working(u)' <=> Working(u) \/ u = t
    BY DEF Working
<1>3. \A j \in jobs : j.by \in Tasks /\ j.by # t
    BY DEF TypeOK, Job, JobsAreSubmitted
<1>4. \A u \in Tasks : Working(u) => tasks[u].deploy # d
    BY DEF WorkerHoldsRow, TasksHaveRows, Working
<1>5. \A j \in jobs : tasks[j.by].deploy # d
    BY <1>3, <1>4 DEF LateJobsAreLoose, JobsAreSubmitted, TasksHaveRows, Working
<1>6. OneWorkerPerDeploy'
    BY <1>2, <1>4 DEF OneWorkerPerDeploy, Working
<1>7. WorkerHoldsRow'
    BY <1>1, <1>2, <1>4 DEF WorkerHoldsRow, Working
<1>8. TasksHaveRows'
    BY <1>1 DEF TasksHaveRows
<1>9. JobsAreSubmitted'
    BY <1>3 DEF JobsAreSubmitted
<1>10. LateJobsAreLoose'
    BY <1>1, <1>2, <1>3, <1>5 DEF LateJobsAreLoose, Working
<1>11. ActiveTaskStarted'
    BY DEF ActiveTaskStarted, TypeOK
<1> QED BY <1>6, <1>7, <1>8, <1>9, <1>10, <1>11

LEMMA InitIInv == Init => IInv
<1> SUFFICES ASSUME Init PROVE IInv
    OBVIOUS
<1>1. TypeOK
    BY InitTypeOK
<1>2. (\A t \in Tasks : tasks[t].pc = "unused") /\ jobs = {} /\ activeTask = 0
    BY DEF Init
<1>3. \A t \in Tasks : ~Working(t)
    BY <1>2 DEF Working
<1>4. OneWorkerPerDeploy /\ WorkerHoldsRow
    BY <1>3 DEF OneWorkerPerDeploy, WorkerHoldsRow
<1>5. TasksHaveRows /\ JobsAreSubmitted /\ LateJobsAreLoose /\ ActiveTaskStarted
    BY <1>2 DEF TasksHaveRows, JobsAreSubmitted, LateJobsAreLoose, ActiveTaskStarted
<1> QED BY <1>1, <1>4, <1>5 DEF IInv

LEMMA NextIInv == IInv /\ [Next]_vars => IInv'
<1> SUFFICES ASSUME IInv, [Next]_vars PROVE IInv'
    OBVIOUS
<1> USE DEF IInv
<1>0. TypeOK'
    BY NextTypeOK
<1>1. ASSUME NEW d \in Deploys, NEW t \in Tasks, NEW tag \in Tags, NEW mode \in Modes,
             NEW force \in BOOLEAN, StartDeploy(d, t, tag, mode, force)
      PROVE  IInv'
    <2>a. PICK prev \in Tags :
             recs' = [recs EXCEPT ![d] = [status |-> "pending", tag |-> tag, prev |-> prev,
                                          mode |-> mode, wave |-> ""]]
        BY <1>1 DEF StartDeploy
    <2>b. recs[d].status = "none" /\ jobs' = jobs
        BY <1>1 DEF StartDeploy, IsNextRow, Created
    <2>1. /\ recs[d].status = "none"
          /\ recs'[d].status = "pending"
          /\ \A e \in Deploys \ {d} : recs'[e] = recs[e]
          /\ jobs' = jobs
        BY <2>a, <2>b DEF TypeOK
    <2>2. CreateTask(t, d, FALSE, "")
        BY <1>1 DEF StartDeploy
    <2>3. /\ tasks[t].pc = "unused"
          /\ tasks'[t].pc = "ready" /\ tasks'[t].deploy = d
          /\ \A u \in Tasks \ {t} : tasks'[u] = tasks[u]
          /\ activeTask' = t
        BY <2>2, CreateTaskEffect DEF CreateTask
    <2> QED BY <1>0, <2>1, <2>3, WorkerStarts
<1>2. ASSUME NEW d \in Deploys, NEW t \in Tasks, ContinueDeploy(d, t)
      PROVE  IInv'
    <2>1. /\ recs[d].status = "paused"
          /\ recs'[d].status = "rolling"
          /\ \A e \in Deploys \ {d} : recs'[e] = recs[e]
          /\ jobs' = jobs
        BY <1>2, SetStatusEffect DEF ContinueDeploy, Statuses, ActiveStatuses, InProgress
    <2>2. recs[d].wave \in Groups \cup {"all", ""}
        BY DEF TypeOK, Rec
    <2>3. CreateTask(t, d, TRUE, recs[d].wave)
        BY <1>2 DEF ContinueDeploy
    <2>4. /\ tasks[t].pc = "unused"
          /\ tasks'[t].pc = "ready" /\ tasks'[t].deploy = d
          /\ \A u \in Tasks \ {t} : tasks'[u] = tasks[u]
          /\ activeTask' = t
        BY <2>2, <2>3, CreateTaskEffect DEF CreateTask
    <2> QED BY <1>0, <2>1, <2>4, WorkerStarts
<1>3. ASSUME NEW d \in Deploys, RollbackStart(d)
      PROVE  IInv'
    <2>1. SetStatus(d, "rolled_back") /\ UNCHANGED <<tasks, jobs, activeTask>>
        BY <1>3 DEF RollbackStart
    <2> QED BY <1>0, <2>1, RowEnds
<1>4. ASSUME AbortMark
      PROVE  IInv'
    <2>1. abortReq.deploy \in Deploys
        BY <1>4 DEF AbortMark, TypeOK
    <2>2. SetStatus(abortReq.deploy, "failed") /\ UNCHANGED <<tasks, jobs, activeTask>>
        BY <1>4 DEF AbortMark
    <2> QED BY <1>0, <2>1, <2>2, RowEnds
<1>5. ASSUME AbortCancel
      PROVE  IInv'
    <2>1. CASE activeTask = 0 \/ tasks[activeTask].pc \in {"cancelled", "done"}
        BY <1>0, <1>5, <2>1 DEF AbortCancel, OneWorkerPerDeploy, WorkerHoldsRow, TasksHaveRows,
                                JobsAreSubmitted, LateJobsAreLoose, ActiveTaskStarted, Working
    <2>2. CASE ~(activeTask = 0 \/ tasks[activeTask].pc \in {"cancelled", "done"})
        <3> DEFINE t == activeTask
        <3>1. t \in Tasks
            BY <2>2 DEF TypeOK
        <3>2. /\ Leaves(t, IF tasks[t].pc = "ready" THEN "done" ELSE "cancelled")
              /\ jobs' \subseteq jobs
              /\ recs' = recs /\ activeTask' = activeTask
            BY <1>5, <2>2 DEF AbortCancel
        <3>3. PICK pc \in {"done", "cancelled"} : Leaves(t, pc)
            BY <3>2
        <3>4. /\ \A u \in Tasks : tasks'[u].deploy = tasks[u].deploy
              /\ tasks'[t].pc = pc
              /\ \A u \in Tasks \ {t} : tasks'[u] = tasks[u]
            BY <3>1, <3>3, LeavesEffect DEF TaskPcs
        <3>5. tasks[t].pc # "unused"
            BY <2>2 DEF ActiveTaskStarted
        <3> HIDE DEF t
        <3>6. CASE Working(t)
            <4>1. /\ recs[tasks[t].deploy].status \notin {"paused", "complete"}
                  /\ recs[tasks[t].deploy].status # "none"
                BY <3>1, <3>6 DEF WorkerHoldsRow, TasksHaveRows, Working
            <4> QED BY <1>0, <3>1, <3>2, <3>4, <3>6, <4>1, WorkerStops
        <3>7. CASE ~Working(t)
            <4>1. tasks[t].pc = "closing"
                BY <2>2, <3>1, <3>5, <3>7 DEF Working, TypeOK, Task, TaskPcs, t
            <4> QED BY <1>0, <3>1, <3>2, <3>4, <4>1, IdleMoves
        <3> QED BY <3>6, <3>7
    <2> QED BY <2>1, <2>2
<1>6. ASSUME NEW t \in Tasks, EnterWave(t)
      PROVE  IInv'
    <2>1. Working(t) /\ activeTask' = activeTask
        BY <1>6 DEF EnterWave, TaskFrame, Working
    <2>2. recs'[tasks[t].deploy].status \notin {"paused", "complete", "none"}
        BY <1>6, EnterWaveEffect DEF InProgress
    <2> QED BY <1>0, <1>6, <2>1, <2>2, EnterWaveEffect, WorkerGoesOn
<1>7. ASSUME NEW t \in Tasks, FastStart(t)
      PROVE  IInv'
    <2>1. Working(t) /\ activeTask' = activeTask
        BY <1>7 DEF FastStart, TaskFrame, Working
    <2> QED BY <1>0, <1>7, <2>1, FastStartEffect, WorkerGoesOn
<1>8. ASSUME NEW t \in Tasks, NextBatch(t) \/ FastNext(t)
      PROVE  IInv'
    <2>1. Working(t) /\ activeTask' = activeTask
        BY <1>8 DEF NextBatch, FastNext, TaskFrame, HealthVerdict, BatchPatched, Working
    <2>2. recs' = recs
        BY <1>8 DEF NextBatch, FastNext
    <2>3. recs[tasks[t].deploy].status \notin {"paused", "complete", "none"}
        BY <2>1 DEF WorkerHoldsRow, TasksHaveRows, Working
    <2> QED BY <1>0, <1>8, <2>1, <2>2, <2>3, NextBatchEffect, WorkerGoesOn
<1>9. ASSUME NEW t \in Tasks, WaveDone(t)
      PROVE  IInv'
    <2>1. Working(t) /\ JobsOf(t) = {} /\ recs' = recs /\ jobs' = jobs
             /\ activeTask' = activeTask
        BY <1>9 DEF WaveDone, TaskFrame, HealthVerdict, BatchPatched, Working
    <2>2. recs[tasks[t].deploy].status \notin {"paused", "complete", "none"}
        BY <2>1 DEF WorkerHoldsRow, TasksHaveRows, Working
    <2>3. \A j \in jobs : j.by # t
        BY <2>1 DEF JobsOf
    <2> QED BY <1>0, <1>9, <2>1, <2>2, <2>3, WaveDoneEffect, WorkerGoesOn
<1>10. ASSUME NEW t \in Tasks, AllWavesDone(t) \/ FastFindsNone(t) \/ FastDone(t)
       PROVE  IInv'
    <2>1. Working(t) /\ Leaves(t, "closing") /\ jobs' = jobs
          /\ activeTask' = activeTask
        BY <1>10 DEF AllWavesDone, FastFindsNone, FastDone, TaskFrame, BatchPatched, Working
    <2>2. tasks[t].deploy \in Deploys
        BY DEF TypeOK, Task
    <2>3. /\ recs'[tasks[t].deploy].status = "complete"
          /\ \A e \in Deploys \ {tasks[t].deploy} : recs'[e] = recs[e]
        BY <1>10, <2>2, SetWaveEffect DEF AllWavesDone, FastFindsNone, FastDone, Statuses
    <2>4. JobsOf(t) = {}
        BY <1>10 DEF AllWavesDone, FastFindsNone, FastDone, BatchPatched, JobsAreSubmitted, JobsOf
    <2> QED BY <1>0, <2>1, <2>3, <2>4, LeavesEffect, WorkerStops DEF TaskPcs
<1>11. ASSUME NEW t \in Tasks, GateFails(t)
       PROVE  IInv'
    <2>1. Working(t) /\ JobsOf(t) = {} /\ Leaves(t, "closing") /\ jobs' = jobs
          /\ activeTask' = activeTask
        BY <1>11 DEF GateFails, TaskFrame, HealthVerdict, BatchPatched, Working
    <2>2. tasks[t].deploy \in Deploys
        BY DEF TypeOK, Task
    <2>3. /\ recs'[tasks[t].deploy].status = "paused"
          /\ \A e \in Deploys \ {tasks[t].deploy} : recs'[e] = recs[e]
        BY <1>11, <2>2, SetStatusEffect DEF GateFails, Statuses, ActiveStatuses
    <2> QED BY <1>0, <2>1, <2>3, LeavesEffect, WorkerStops DEF TaskPcs
<1>12. ASSUME NEW t \in Tasks, StopSeen(t)
       PROVE  IInv'
    <2>1. Working(t) /\ JobsOf(t) = {} /\ Leaves(t, "done") /\ jobs' = jobs /\ recs' = recs
          /\ activeTask' = activeTask
        BY <1>12 DEF StopSeen, TaskFrame, HealthVerdict, BatchPatched, Working
    <2>2. recs[tasks[t].deploy].status # "none"
        BY <2>1 DEF TasksHaveRows, Working
    <2> QED BY <1>0, <2>1, <2>2, LeavesEffect, WorkerStops DEF TaskPcs
<1>13. ASSUME NEW t \in Tasks, TaskFault(t)
       PROVE  IInv'
    <2>1. Working(t) /\ Leaves(t, "closing") /\ jobs' = jobs
          /\ activeTask' = activeTask
        BY <1>13 DEF TaskFault, TaskFrame
    <2>2. tasks[t].deploy \in Deploys
        BY DEF TypeOK, Task
    <2>3. /\ recs'[tasks[t].deploy].status = "failed"
          /\ \A e \in Deploys \ {tasks[t].deploy} : recs'[e] = recs[e]
        BY <1>13, <2>2, SetStatusEffect DEF TaskFault, Statuses
    <2> QED BY <1>0, <2>1, <2>3, LeavesEffect, WorkerStops DEF TaskPcs
<1>14. ASSUME NEW t \in Tasks, CancelHandled(t)
       PROVE  IInv'
    <2>1. tasks[t].pc = "cancelled" /\ Leaves(t, "done") /\ jobs' = jobs
          /\ activeTask' = activeTask
        BY <1>14 DEF CancelHandled, TaskFrame
    <2>2. tasks[t].deploy \in Deploys
        BY DEF TypeOK, Task
    <2>3. /\ recs'[tasks[t].deploy].status = "failed"
          /\ \A e \in Deploys \ {tasks[t].deploy} : recs'[e] = recs[e]
        BY <1>14, <2>2, SetStatusEffect DEF CancelHandled, Statuses
    <2> QED BY <1>0, <2>1, <2>3, LeavesEffect, IdleMoves DEF TaskPcs
<1>15. ASSUME NEW t \in Tasks, TaskReturns(t)
       PROVE  IInv'
    <2>1. tasks[t].pc = "closing" /\ Leaves(t, "done") /\ jobs' = jobs /\ recs' = recs
          /\ activeTask' = activeTask
        BY <1>15 DEF TaskReturns, TaskFrame
    <2> QED BY <1>0, <2>1, LeavesEffect, IdleMoves DEF TaskPcs
<1>16. ASSUME \/ \E j \in Job : JobEnds(j)
              \/ \E d \in Deploys : AbortRead(d)
              \/ \E d \in Deploys, i \in Instances : RollbackOne(d, i)
              \/ \E i \in Instances, g \in Groups : Regroup(i, g)
              \/ \E order \in WaveOrders : EditRegistry(order)
              \/ UNCHANGED vars
       PROVE  IInv'
    <2>1. recs' = recs /\ tasks' = tasks /\ jobs' \subseteq jobs /\ activeTask' = activeTask
        BY <1>16 DEF JobEnds, AbortRead, RollbackOne, Regroup, EditRegistry, vars
    <2> QED BY <1>0, <2>1 DEF OneWorkerPerDeploy, WorkerHoldsRow, TasksHaveRows,
                              JobsAreSubmitted, LateJobsAreLoose, ActiveTaskStarted, Working
<1>17. ASSUME Restart
       PROVE  IInv'
    <2>1. recs' = recs /\ jobs' = {} /\ activeTask' = 0
        BY <1>17 DEF Restart
    <2>2. \A t \in Tasks : /\ tasks'[t].deploy = tasks[t].deploy
                           /\ tasks'[t].pc \in {"unused", "done"}
                           /\ tasks'[t].pc # "unused" => tasks[t].pc # "unused"
        <3>1. tasks \in [Tasks -> Task]
            BY DEF TypeOK
        <3>2. \A t \in Tasks :
                 tasks'[t] = IF tasks[t].pc = "unused" THEN tasks[t]
                             ELSE [tasks[t] EXCEPT !.pc = "done", !.first = "", !.waves = <<>>,
                                                   !.todo = {}, !.batch = {}]
            BY <1>17 DEF Restart
        <3> SUFFICES ASSUME NEW t \in Tasks
                     PROVE  /\ tasks'[t].deploy = tasks[t].deploy
                            /\ tasks'[t].pc \in {"unused", "done"}
                            /\ tasks'[t].pc # "unused" => tasks[t].pc # "unused"
            OBVIOUS
        <3>3. CASE tasks[t].pc = "unused"
            BY <3>2, <3>3
        <3>4. CASE tasks[t].pc # "unused"
            <4>1. tasks[t] \in Task
                BY <3>1
            <4>2. tasks'[t] = [tasks[t] EXCEPT !.pc = "done", !.first = "", !.waves = <<>>,
                                               !.todo = {}, !.batch = {}]
                BY <3>2, <3>4
            <4> QED BY <3>4, <4>1, <4>2 DEF Task
        <3> QED BY <3>3, <3>4
    <2> QED BY <1>0, <2>1, <2>2 DEF OneWorkerPerDeploy, WorkerHoldsRow, TasksHaveRows,
                                    JobsAreSubmitted, LateJobsAreLoose, ActiveTaskStarted, Working
<1> QED
    BY <1>1, <1>2, <1>3, <1>4, <1>5, <1>6, <1>7, <1>8, <1>9, <1>10, <1>11, <1>12, <1>13,
       <1>14, <1>15, <1>16, <1>17 DEF Next, TaskStep

-----------------------------------------------------------------------------
(* Consequences of the inductive invariant.                                *)

LEMMA AtRestFromIInv == IInv => AtRestIsQuiet
<1> SUFFICES ASSUME IInv, NEW d \in Deploys, recs[d].status \in {"paused", "complete"}
             PROVE  /\ \A t \in Tasks : Working(t) => tasks[t].deploy # d
                    /\ \A j \in jobs : tasks[j.by].deploy # d
    BY DEF AtRestIsQuiet
<1>1. ASSUME NEW t \in Tasks, Working(t)
      PROVE  tasks[t].deploy # d
    BY <1>1 DEF IInv, WorkerHoldsRow
<1>2. ASSUME NEW j \in jobs
      PROVE  tasks[j.by].deploy # d
    <2>1. j.by \in Tasks
        BY DEF IInv, TypeOK, Job
    <2>2. CASE tasks[j.by].pc = "patching"
        BY <1>1, <2>1, <2>2 DEF Working
    <2>3. CASE tasks[j.by].pc # "patching"
        BY <2>3 DEF IInv, LateJobsAreLoose
    <2> QED BY <2>2, <2>3
<1> QED BY <1>1, <1>2

LEMMA SpecIInv == Spec => []IInv
<1>1. Init => IInv
    BY InitIInv
<1>2. IInv /\ [Next]_vars => IInv'
    BY NextIInv
<1> QED BY <1>1, <1>2, PTL DEF Spec

\* However starts, continues, rollbacks, aborts and restarts interleave, no two
\* tasks ever write for the same deploy.
THEOREM OneWorker == Spec => []OneWorkerPerDeploy
<1>1. IInv => OneWorkerPerDeploy
    BY DEF IInv
<1> QED BY <1>1, SpecIInv, PTL

\* A row that shows paused or complete has no worker and no thread left.
THEOREM AtRest == Spec => []AtRestIsQuiet
BY SpecIInv, AtRestFromIInv, PTL

-----------------------------------------------------------------------------
(* No row is left in progress without a task.                              *)

LEMMA HolderKept ==
    ASSUME TypeOK, InProgressHasWorker, NEW t \in Tasks, NEW d \in Deploys,
           tasks'[t].deploy = d,
           tasks[t].pc = "unused" \/ tasks[t].deploy = d,
           \A u \in Tasks \ {t} : tasks'[u] = tasks[u],
           \A e \in Deploys \ {d} : recs'[e] = recs[e],
           orphaned \subseteq orphaned',
           recs'[d].status \in InProgress =>
               \/ tasks'[t].pc \in {"ready", "patching", "notify", "cancelled"}
               \/ d \in orphaned'
               \/ recs'[d] = recs[d] /\ tasks[t].pc = "closing"
    PROVE  InProgressHasWorker'
<1> SUFFICES ASSUME NEW e \in Deploys, recs'[e].status \in InProgress, e \notin orphaned'
             PROVE  \E u \in Tasks :
                       tasks'[u].deploy = e /\ (Working(u)' \/ tasks'[u].pc = "cancelled")
    BY DEF InProgressHasWorker
<1>1. CASE e = d /\ tasks'[t].pc \in {"ready", "patching", "notify", "cancelled"}
    BY <1>1 DEF Working
<1>2. CASE ~(e = d /\ tasks'[t].pc \in {"ready", "patching", "notify", "cancelled"})
    <2>1. recs'[e] = recs[e] /\ (e = d => tasks[t].pc = "closing")
        BY <1>2
    <2>2. PICK u \in Tasks :
             tasks[u].deploy = e /\ (Working(u) \/ tasks[u].pc = "cancelled")
        BY <2>1 DEF InProgressHasWorker
    <2>3. u # t
        BY <2>1, <2>2 DEF Working
    <2> QED BY <2>2, <2>3 DEF Working
<1> QED BY <1>1, <1>2

LEMMA NextInProgress ==
    IInv /\ InProgressHasWorker /\ [Next]_vars => InProgressHasWorker'
<1> SUFFICES ASSUME IInv, InProgressHasWorker, [Next]_vars PROVE InProgressHasWorker'
    OBVIOUS
<1>0. /\ TypeOK
      /\ \A t \in Tasks : tasks[t].deploy \in Deploys
    BY DEF IInv, TypeOK, Task
<1>1. ASSUME NEW d \in Deploys, NEW t \in Tasks, NEW tag \in Tags, NEW mode \in Modes,
             NEW force \in BOOLEAN, StartDeploy(d, t, tag, mode, force)
      PROVE  InProgressHasWorker'
    <2>1. CreateTask(t, d, FALSE, "")
        BY <1>1 DEF StartDeploy
    <2>2. (\A e \in Deploys \ {d} : recs'[e] = recs[e]) /\ orphaned' = orphaned
        BY <1>0, <1>1 DEF StartDeploy, TypeOK
    <2> QED BY <1>0, <2>1, <2>2, CreateTaskEffect, HolderKept
<1>2. ASSUME NEW d \in Deploys, NEW t \in Tasks, ContinueDeploy(d, t)
      PROVE  InProgressHasWorker'
    <2>1. recs[d].wave \in Groups \cup {"all", ""}
        BY <1>0 DEF TypeOK, Rec
    <2>2. CreateTask(t, d, TRUE, recs[d].wave)
        BY <1>2 DEF ContinueDeploy
    <2>3. (\A e \in Deploys \ {d} : recs'[e] = recs[e]) /\ orphaned' = orphaned
        BY <1>0, <1>2 DEF ContinueDeploy, SetStatus, TypeOK
    <2> QED BY <1>0, <2>1, <2>2, <2>3, CreateTaskEffect, HolderKept
<1>3. ASSUME NEW d \in Deploys, NEW s \in {"failed", "rolled_back"}, SetStatus(d, s),
             UNCHANGED <<tasks, orphaned>>
      PROVE  InProgressHasWorker'
    <2>1. recs'[d].status = s /\ \A e \in Deploys \ {d} : recs'[e] = recs[e]
        BY <1>0, <1>3, SetStatusEffect DEF Statuses
    <2>2. \A e \in Deploys : recs'[e].status \in InProgress => recs'[e] = recs[e]
        BY <2>1 DEF InProgress
    <2> QED BY <1>3, <2>2 DEF InProgressHasWorker, Working
<1>4. ASSUME NEW d \in Deploys, RollbackStart(d)
      PROVE  InProgressHasWorker'
    BY <1>3, <1>4 DEF RollbackStart
<1>5. ASSUME AbortMark
      PROVE  InProgressHasWorker'
    <2>1. abortReq.deploy \in Deploys
        BY <1>0, <1>5 DEF AbortMark, TypeOK
    <2> QED BY <1>3, <1>5, <2>1 DEF AbortMark
<1>6. ASSUME AbortCancel
      PROVE  InProgressHasWorker'
    <2>1. CASE activeTask = 0 \/ tasks[activeTask].pc \in {"cancelled", "done"}
        BY <1>6, <2>1 DEF AbortCancel, InProgressHasWorker, Working
    <2>2. CASE ~(activeTask = 0 \/ tasks[activeTask].pc \in {"cancelled", "done"})
        <3> DEFINE t == activeTask
        <3>1. t \in Tasks
            BY <1>0, <2>2 DEF TypeOK
        <3>2. /\ recs' = recs
              /\ \/ Leaves(t, "cancelled") /\ orphaned' = orphaned
                 \/ Leaves(t, "done") /\ orphaned' = orphaned \cup {tasks[t].deploy}
            BY <1>6, <2>2 DEF AbortCancel
        <3> HIDE DEF t
        <3> QED BY <1>0, <3>1, <3>2, LeavesEffect, HolderKept DEF TaskPcs
    <2> QED BY <2>1, <2>2
<1>7. ASSUME NEW t \in Tasks, EnterWave(t)
      PROVE  InProgressHasWorker'
    <2>1. orphaned' = orphaned
        BY <1>7 DEF EnterWave, TaskFrame
    <2> QED BY <1>0, <1>7, <2>1, EnterWaveEffect, HolderKept
<1>8. ASSUME NEW t \in Tasks, FastStart(t)
      PROVE  InProgressHasWorker'
    <2>1. orphaned' = orphaned
        BY <1>8 DEF FastStart, TaskFrame
    <2> QED BY <1>0, <1>8, <2>1, FastStartEffect, HolderKept
<1>9. ASSUME NEW t \in Tasks, NextBatch(t) \/ FastNext(t)
      PROVE  InProgressHasWorker'
    <2>1. orphaned' = orphaned /\ recs' = recs
        BY <1>9 DEF NextBatch, FastNext, TaskFrame
    <2> QED BY <1>0, <1>9, <2>1, NextBatchEffect, HolderKept
<1>10. ASSUME NEW t \in Tasks, WaveDone(t)
       PROVE  InProgressHasWorker'
    <2>1. orphaned' = orphaned /\ recs' = recs
        BY <1>10 DEF WaveDone, TaskFrame
    <2> QED BY <1>0, <1>10, <2>1, WaveDoneEffect, HolderKept
<1>11. ASSUME NEW t \in Tasks, AllWavesDone(t) \/ FastFindsNone(t) \/ FastDone(t)
       PROVE  InProgressHasWorker'
    <2>1. Leaves(t, "closing") /\ orphaned' = orphaned
        BY <1>11 DEF AllWavesDone, FastFindsNone, FastDone, TaskFrame
    <2>2. /\ recs'[tasks[t].deploy].status = "complete"
          /\ \A e \in Deploys \ {tasks[t].deploy} : recs'[e] = recs[e]
        BY <1>0, <1>11, SetWaveEffect DEF AllWavesDone, FastFindsNone, FastDone, Statuses
    <2>3. "complete" \notin InProgress
        BY DEF InProgress
    <2> QED BY <1>0, <2>1, <2>2, <2>3, LeavesEffect, HolderKept DEF TaskPcs
<1>12. ASSUME NEW t \in Tasks, NEW s \in {"failed", "paused"}, NEW pc \in {"closing", "done"},
              SetStatus(tasks[t].deploy, s), Leaves(t, pc), orphaned' = orphaned
       PROVE  InProgressHasWorker'
    <2>1. /\ recs'[tasks[t].deploy].status = s
          /\ \A e \in Deploys \ {tasks[t].deploy} : recs'[e] = recs[e]
        BY <1>0, <1>12, SetStatusEffect DEF Statuses, ActiveStatuses
    <2>2. s \notin InProgress
        BY DEF InProgress
    <2> QED BY <1>0, <1>12, <2>1, <2>2, LeavesEffect, HolderKept DEF TaskPcs
<1>13. ASSUME NEW t \in Tasks, GateFails(t) \/ TaskFault(t) \/ CancelHandled(t)
       PROVE  InProgressHasWorker'
    BY <1>12, <1>13 DEF GateFails, TaskFault, CancelHandled, TaskFrame
<1>14. ASSUME NEW t \in Tasks, StopSeen(t)
       PROVE  InProgressHasWorker'
    <2>1. Leaves(t, "done") /\ orphaned' = orphaned /\ recs' = recs
        BY <1>14 DEF StopSeen, TaskFrame
    <2>2. recs[tasks[t].deploy].status \notin InProgress
        BY <1>14 DEF StopSeen, InProgress
    <2> QED BY <1>0, <2>1, <2>2, LeavesEffect, HolderKept DEF TaskPcs
<1>15. ASSUME NEW t \in Tasks, TaskReturns(t)
       PROVE  InProgressHasWorker'
    <2>1. tasks[t].pc = "closing" /\ Leaves(t, "done") /\ orphaned' = orphaned /\ recs' = recs
        BY <1>15 DEF TaskReturns, TaskFrame
    <2> QED BY <1>0, <2>1, LeavesEffect, HolderKept DEF TaskPcs
<1>16. ASSUME \/ \E j \in Job : JobEnds(j)
              \/ \E d \in Deploys : AbortRead(d)
              \/ \E d \in Deploys, i \in Instances : RollbackOne(d, i)
              \/ \E i \in Instances, g \in Groups : Regroup(i, g)
              \/ \E order \in WaveOrders : EditRegistry(order)
              \/ UNCHANGED vars
       PROVE  InProgressHasWorker'
    <2>1. recs' = recs /\ tasks' = tasks /\ orphaned' = orphaned
        BY <1>16 DEF JobEnds, AbortRead, RollbackOne, Regroup, EditRegistry, vars
    <2> QED BY <2>1 DEF InProgressHasWorker, Working
<1>17. ASSUME Restart
       PROVE  InProgressHasWorker'
    BY <1>17 DEF Restart, InProgressHasWorker
<1> QED
    BY <1>1, <1>2, <1>4, <1>5, <1>6, <1>7, <1>8, <1>9, <1>10, <1>11, <1>13, <1>14, <1>15,
       <1>16, <1>17 DEF Next, TaskStep

\* A row that blocks the next deploy has a task that will end it, unless the
\* process restarted or a cancel reached a task that had not run.
THEOREM InProgressWorked == Spec => []InProgressHasWorker
<1>1. Init => InProgressHasWorker
    <2>1. NoRow.status = "none"
        BY DEF NoRow
    <2>2. Init => \A d \in Deploys : recs[d] = NoRow
        BY DEF Init
    <2> QED BY <2>1, <2>2 DEF InProgressHasWorker, InProgress
<1>2. IInv /\ InProgressHasWorker /\ [Next]_vars => InProgressHasWorker'
    BY NextInProgress
<1> QED BY <1>1, <1>2, SpecIInv, PTL DEF Spec

-----------------------------------------------------------------------------
(* What a step may do to a row that is at rest.                            *)

LEMMA WorkerSparesRows ==
    ASSUME IInv, NEW t \in Tasks, Working(t),
           \A e \in Deploys \ {tasks[t].deploy} : recs'[e] = recs[e]
    PROVE  StatusStep
BY DEF IInv, WorkerHoldsRow, StatusStep

LEMMA NextStatusStep == IInv /\ [Next]_vars => [StatusStep]_vars
<1> SUFFICES ASSUME IInv, [Next]_vars PROVE StatusStep
    OBVIOUS
<1>0. /\ TypeOK
      /\ \A t \in Tasks : tasks[t].deploy \in Deploys
    BY DEF IInv, TypeOK, Task
<1>1. ASSUME recs' = recs
      PROVE  StatusStep
    BY <1>1 DEF StatusStep
<1>2. ASSUME NEW d \in Deploys, NEW t \in Tasks, NEW tag \in Tags, NEW mode \in Modes,
             NEW force \in BOOLEAN, StartDeploy(d, t, tag, mode, force)
      PROVE  StatusStep
    <2>1. recs[d].status = "none" /\ \A e \in Deploys \ {d} : recs'[e] = recs[e]
        BY <1>0, <1>2 DEF StartDeploy, IsNextRow, Created, TypeOK
    <2> QED BY <2>1 DEF StatusStep
<1>3. ASSUME NEW d \in Deploys, NEW s \in {"failed", "rolled_back"}, SetStatus(d, s),
             s = "failed" \/ recs[d].status # "complete"
      PROVE  StatusStep
    <2>1. recs'[d].status = s /\ \A e \in Deploys \ {d} : recs'[e] = recs[e]
        BY <1>0, <1>3, SetStatusEffect DEF Statuses
    <2> QED BY <1>3, <2>1 DEF StatusStep
<1>4. ASSUME NEW d \in Deploys, NEW t \in Tasks, ContinueDeploy(d, t)
      PROVE  StatusStep
    <2>1. /\ recs[d].status = "paused" /\ recs'[d].status = "rolling"
          /\ \A e \in Deploys \ {d} : recs'[e] = recs[e]
        BY <1>0, <1>4, SetStatusEffect DEF ContinueDeploy, Statuses, ActiveStatuses, InProgress
    <2> QED BY <2>1 DEF StatusStep
<1>5. ASSUME NEW d \in Deploys, RollbackStart(d)
      PROVE  StatusStep
    <2>1. recs[d].status # "complete"
        BY <1>5 DEF RollbackStart, IsActiveDeploy, Active, ActiveStatuses, InProgress
    <2> QED BY <1>3, <1>5, <2>1 DEF RollbackStart
<1>6. ASSUME AbortMark
      PROVE  StatusStep
    <2>1. abortReq.deploy \in Deploys
        BY <1>0, <1>6 DEF AbortMark, TypeOK
    <2> QED BY <1>3, <1>6, <2>1 DEF AbortMark
<1>7. ASSUME NEW t \in Tasks, TaskFault(t) \/ CancelHandled(t)
      PROVE  StatusStep
    BY <1>0, <1>3, <1>7 DEF TaskFault, CancelHandled
<1>8. ASSUME NEW t \in Tasks, EnterWave(t) \/ FastStart(t)
      PROVE  StatusStep
    <2>1. Working(t)
        BY <1>8 DEF EnterWave, FastStart, Working
    <2> QED BY <1>0, <1>8, <2>1, EnterWaveEffect, FastStartEffect, WorkerSparesRows
<1>9. ASSUME NEW t \in Tasks, AllWavesDone(t) \/ FastFindsNone(t) \/ FastDone(t)
      PROVE  StatusStep
    <2>1. Working(t)
        BY <1>9 DEF AllWavesDone, FastFindsNone, FastDone, BatchPatched, Working
    <2>2. \A e \in Deploys \ {tasks[t].deploy} : recs'[e] = recs[e]
        BY <1>0, <1>9, SetWaveEffect DEF AllWavesDone, FastFindsNone, FastDone, Statuses
    <2> QED BY <2>1, <2>2, WorkerSparesRows
<1>10. ASSUME NEW t \in Tasks, GateFails(t)
       PROVE  StatusStep
    <2>1. Working(t)
        BY <1>10 DEF GateFails, HealthVerdict, BatchPatched, Working
    <2>2. \A e \in Deploys \ {tasks[t].deploy} : recs'[e] = recs[e]
        BY <1>0, <1>10, SetStatusEffect DEF GateFails, Statuses, ActiveStatuses
    <2> QED BY <2>1, <2>2, WorkerSparesRows
<1>11. ASSUME NEW t \in Tasks,
              NextBatch(t) \/ FastNext(t) \/ WaveDone(t) \/ StopSeen(t) \/ TaskReturns(t)
       PROVE  StatusStep
    BY <1>1, <1>11 DEF NextBatch, FastNext, WaveDone, StopSeen, TaskReturns
<1>12. ASSUME \/ \E j \in Job : JobEnds(j)
              \/ \E d \in Deploys : AbortRead(d)
              \/ \E d \in Deploys, i \in Instances : RollbackOne(d, i)
              \/ \E i \in Instances, g \in Groups : Regroup(i, g)
              \/ \E order \in WaveOrders : EditRegistry(order)
              \/ AbortCancel
              \/ Restart
              \/ UNCHANGED vars
       PROVE  StatusStep
    BY <1>1, <1>12 DEF JobEnds, AbortRead, RollbackOne, Regroup, EditRegistry, AbortCancel,
                       Restart, vars
<1> QED
    BY <1>2, <1>4, <1>5, <1>6, <1>7, <1>8, <1>9, <1>10, <1>11, <1>12 DEF Next, TaskStep

\* No step reopens a complete deploy or moves a paused one by itself.
THEOREM StatusGraphHolds == Spec => StatusGraph
<1>1. IInv /\ [Next]_vars => [StatusStep]_vars
    BY NextStatusStep
<1> QED BY <1>1, SpecIInv, PTL DEF Spec, StatusGraph

-----------------------------------------------------------------------------
(* The health gates.  While nobody edits the groups, a worker's list of    *)
(* waves is ordered as the registry is, and whoever comes before a wave of *)
(* the list has passed, is in the wave under way, or belongs to a wave     *)
(* before it in the list.  A paused row keeps what the next worker needs.  *)

\* Nobody edits the groups, and start-up finds its own groups in the registry.
GroupsStay ==
    /\ Controls \cap {"regroup", "registry"} = {}
    /\ \A order \in InitOrders : Seeds \subseteq {order[k] : k \in DOMAIN order}

\* Whom a deploy need not wait for: those that passed their last check, and those that
\* it overlooked.
Behind == [d \in Deploys |-> gated[d] \cup overlooked[d]]

\* The registered groups, and who comes before each.
Known == {waveOrder[k] : k \in DOMAIN waveOrder}

Front == [g \in Groups |-> {i \in Instances : Earlier(group[i], g)}]

\* The deploys that are gated: normal and canary-only.
Gating == {d \in Deploys : recs[d].mode \notin {"fast"} \cup Groups}

\* The list ws of waves, where R has passed or is under way, F is Front, G the
\* groups and K those that are known.
Ahead(ws, R, F, G, K) ==
    \A n \in DOMAIN ws :
        /\ ws[n] \in K
        /\ \A i \in F[ws[n]] : i \in R \/ \E m \in 1..(n - 1) : ws[m] = G[i]

\* Nobody is left out.
Everyone(ws, R, G, K) ==
    \A i \in Instances : G[i] \in K => i \in R \/ \E n \in DOMAIN ws : ws[n] = G[i]

UnderWay == [t \in Tasks |-> IF tasks[t].pc = "patching" THEN tasks[t].batch \cup tasks[t].todo ELSE {}]

SeedsAreKnown == Seeds \subseteq Known

PausedHasPassed ==
    \A d \in Gating :
        recs[d].status = "paused" => recs[d].wave \in Known /\ Front[recs[d].wave] \subseteq Behind[d]

ResumeHasPassed ==
    \A t \in Tasks :
        tasks[t].pc = "ready" /\ tasks[t].resume /\ tasks[t].deploy \in Gating =>
            tasks[t].first \in Known /\ Front[tasks[t].first] \subseteq Behind[tasks[t].deploy]

WaveHasPassed ==
    \A t \in Tasks :
        tasks[t].pc = "patching" /\ tasks[t].deploy \in Gating =>
            LET g == recs[tasks[t].deploy].wave
            IN  g \in Known /\ Front[g] \subseteq Behind[tasks[t].deploy] /\ UnderWay[t] \subseteq Members(g)

WavesAreAhead ==
    \A t \in Tasks :
        tasks[t].pc \in {"patching", "notify"} /\ tasks[t].deploy \in Gating =>
            LET R == Behind[tasks[t].deploy] \cup UnderWay[t]
            IN  /\ Ahead(tasks[t].waves, R, Front, group, Known)
                /\ recs[tasks[t].deploy].mode = "normal" => Everyone(tasks[t].waves, R, group, Known)

JobsHavePassed ==
    \A j \in jobs :
        tasks[j.by].deploy \in Gating => Front[group[j.inst]] \subseteq Behind[tasks[j.by].deploy]

CompleteHasPassed ==
    \A d \in Deploys :
        recs[d].status = "complete" /\ recs[d].mode = "normal" =>
            \A i \in Instances : group[i] \in Known => i \in Behind[d]

GInv ==
    /\ IInv
    /\ SeedsAreKnown /\ PausedHasPassed /\ ResumeHasPassed /\ WaveHasPassed /\ WavesAreAhead
    /\ JobsHavePassed /\ CompleteHasPassed

LEMMA OrderProperties ==
    ASSUME TypeOK
    PROVE  /\ waveOrder \in Seq(Groups) /\ waveOrder # <<>>
           /\ DOMAIN waveOrder = 1..Len(waveOrder) /\ Len(waveOrder) \in Nat \ {0}
           /\ \A m, n \in DOMAIN waveOrder : waveOrder[m] = waveOrder[n] => m = n
           /\ Known \subseteq Groups
<1>1. waveOrder \in WaveOrders
    BY DEF TypeOK
<1>2. /\ waveOrder \in Seq(Groups) /\ waveOrder # <<>>
      /\ \A m, n \in DOMAIN waveOrder : waveOrder[m] = waveOrder[n] => m = n
    BY <1>1, DeployAssumptions
<1>3. DOMAIN waveOrder = 1..Len(waveOrder) /\ Len(waveOrder) \in Nat \ {0}
    BY <1>2
<1>4. Known \subseteq Groups
    BY <1>2 DEF Known
<1>5. QED
    BY <1>2, <1>3, <1>4

\* Who is earlier than a wave stands before it in the registry, and only there.
LEMMA EarlierProperties ==
    ASSUME TypeOK, NEW n \in DOMAIN waveOrder, NEW g
    PROVE  Earlier(g, waveOrder[n]) <=> \E m \in 1..(n - 1) : waveOrder[m] = g
<1>1. /\ DOMAIN waveOrder = 1..Len(waveOrder) /\ Len(waveOrder) \in Nat
      /\ \A k, l \in DOMAIN waveOrder : waveOrder[k] = waveOrder[l] => k = l
    BY OrderProperties
<1>2. ASSUME Earlier(g, waveOrder[n])
      PROVE  \E m \in 1..(n - 1) : waveOrder[m] = g
    <2>1. PICK k, l \in DOMAIN waveOrder : k < l /\ waveOrder[k] = g /\ waveOrder[l] = waveOrder[n]
        BY <1>2 DEF Earlier
    <2>2. l = n
        BY <1>1, <2>1
    <2>3. k \in 1..(n - 1)
        BY <1>1, <2>1, <2>2
    <2>4. QED
        BY <2>1, <2>3
<1>3. ASSUME NEW m \in 1..(n - 1), waveOrder[m] = g
      PROVE  Earlier(g, waveOrder[n])
    <2>1. m \in DOMAIN waveOrder /\ m < n
        BY <1>1
    <2>2. QED
        BY <1>3, <2>1 DEF Earlier
<1>4. QED
    BY <1>2, <1>3

LEMMA FrontProperties ==
    ASSUME TypeOK
    PROVE  /\ Front \in [Groups -> SUBSET Instances]
           /\ \A g \in Groups : \A i \in Front[g] : Earlier(group[i], g) /\ group[i] # g
           /\ \A g \in Groups : \A i \in Instances : Earlier(group[i], g) => i \in Front[g]
<1>1. /\ Front \in [Groups -> SUBSET Instances]
      /\ \A g \in Groups : Front[g] = {i \in Instances : Earlier(group[i], g)}
    BY DEF Front
<1>2. ASSUME NEW g \in Groups, Earlier(g, g)
      PROVE  FALSE
    <2>1. PICK k, l \in DOMAIN waveOrder : k < l /\ waveOrder[k] = g /\ waveOrder[l] = g
        BY <1>2 DEF Earlier
    <2>2. k = l /\ k \in Nat
        BY <2>1, OrderProperties
    <2>3. QED
        BY <2>1, <2>2
<1>3. QED
    BY <1>1, <1>2

-----------------------------------------------------------------------------
(* The lists of waves.                                                     *)

LEMMA RegistryIsAhead ==
    ASSUME TypeOK, NEW R
    PROVE  /\ Ahead(waveOrder, R, Front, group, Known)
           /\ Everyone(waveOrder, R, group, Known)
           /\ Ahead(<<waveOrder[1]>>, R, Front, group, Known)
<1>1. /\ \A n \in DOMAIN waveOrder : waveOrder[n] \in Known /\ waveOrder[n] \in Groups
      /\ 1 \in DOMAIN waveOrder
    BY OrderProperties DEF Known
<1>2. ASSUME NEW n \in DOMAIN waveOrder, NEW i \in Front[waveOrder[n]]
      PROVE  \E m \in 1..(n - 1) : waveOrder[m] = group[i]
    <2>1. Earlier(group[i], waveOrder[n])
        BY <1>1, FrontProperties
    <2>2. QED
        BY <2>1, EarlierProperties
<1>3. Ahead(waveOrder, R, Front, group, Known)
    BY <1>1, <1>2 DEF Ahead
<1>4. Everyone(waveOrder, R, group, Known)
    BY DEF Everyone, Known
<1>5. Ahead(<<waveOrder[1]>>, R, Front, group, Known)
    <2>1. Front[waveOrder[1]] = {}
        <3>1. \A i \in Front[waveOrder[1]] : \E m \in 1..(1 - 1) : waveOrder[m] = group[i]
            BY <1>1, <1>2
        <3>2. QED
            BY <3>1
    <2>2. \A n \in DOMAIN <<waveOrder[1]>> : <<waveOrder[1]>>[n] = waveOrder[1]
        OBVIOUS
    <2>3. QED
        BY <1>1, <2>1, <2>2 DEF Ahead
<1>6. QED
    BY <1>3, <1>4, <1>5

\* A continue goes on from the wave that paused: what is before it has passed.
LEMMA SuffixOfRegistry ==
    ASSUME TypeOK, NEW g \in Known, NEW R, Front[g] \subseteq R
    PROVE  /\ Ahead(WavesFrom(g), R, Front, group, Known)
           /\ Everyone(WavesFrom(g), R, group, Known)
<1> DEFINE k == CHOOSE n \in DOMAIN waveOrder : waveOrder[n] = g
           ws == SubSeq(waveOrder, k, Len(waveOrder))
<1>1. \E n \in DOMAIN waveOrder : waveOrder[n] = g
    BY DEF Known
<1>2. k \in DOMAIN waveOrder /\ waveOrder[k] = g
    BY <1>1
<1>3. WavesFrom(g) = ws
    BY <1>1 DEF WavesFrom
<1> HIDE DEF k
<1>4. /\ waveOrder \in Seq(Groups)
      /\ DOMAIN waveOrder = 1..Len(waveOrder) /\ Len(waveOrder) \in Nat
      /\ \A n \in DOMAIN waveOrder : waveOrder[n] \in Known /\ waveOrder[n] \in Groups
    BY OrderProperties DEF Known
<1>5. k \in 1..(Len(waveOrder) + 1) /\ Len(waveOrder) \in k - 1 .. Len(waveOrder)
    BY <1>2, <1>4
<1>6. /\ ws \in Seq(Groups) /\ Len(ws) = Len(waveOrder) - k + 1
      /\ \A n \in 1..Len(ws) : ws[n] = waveOrder[k + n - 1]
    BY <1>4, <1>5, SubSeqProperties
<1>7. DOMAIN ws = 1..(Len(waveOrder) - k + 1)
    BY <1>6
<1> HIDE DEF ws
\* An instance of a registered group has passed, or its group is in the suffix.
<1>8. ASSUME NEW i \in Instances, NEW m \in DOMAIN waveOrder, waveOrder[m] = group[i]
      PROVE  i \in R \/ (m - k + 1 \in DOMAIN ws /\ ws[m - k + 1] = group[i])
    <2>1. CASE m < k
        <3>1. m \in 1..(k - 1)
            BY <1>2, <1>4, <2>1
        <3>2. Earlier(group[i], g)
            BY <1>2, <1>8, <3>1, EarlierProperties
        <3>3. QED
            BY <1>2, <1>4, <3>2, FrontProperties
    <2>2. CASE ~(m < k)
        <3>1. m - k + 1 \in 1..Len(ws) /\ k + (m - k + 1) - 1 = m
            BY <1>2, <1>4, <1>6, <2>2
        <3>2. QED
            BY <1>6, <1>7, <1>8, <3>1
    <2>3. QED
        BY <2>1, <2>2
<1>9. Everyone(ws, R, group, Known)
    BY <1>8 DEF Everyone, Known
<1>10. ASSUME NEW n \in DOMAIN ws
       PROVE  /\ ws[n] \in Known
              /\ \A i \in Front[ws[n]] : i \in R \/ \E m \in 1..(n - 1) : ws[m] = group[i]
    <2>1. ws[n] = waveOrder[k + n - 1] /\ k + n - 1 \in DOMAIN waveOrder
        BY <1>2, <1>4, <1>6, <1>7
    <2>2. ASSUME NEW i \in Front[ws[n]], i \notin R
          PROVE  \E m \in 1..(n - 1) : ws[m] = group[i]
        <3>1. i \in Instances /\ Earlier(group[i], waveOrder[k + n - 1])
            BY <1>4, <2>1, FrontProperties
        <3>2. PICK m \in 1..((k + n - 1) - 1) : waveOrder[m] = group[i]
            BY <2>1, <3>1, EarlierProperties
        <3>3. m \in DOMAIN waveOrder
            BY <1>2, <1>4, <1>7, <3>2
        <3>4. m - k + 1 \in DOMAIN ws /\ ws[m - k + 1] = group[i]
            BY <1>8, <2>2, <3>1, <3>2, <3>3
        <3>5. m - k + 1 \in 1..(n - 1)
            BY <1>2, <1>4, <1>7, <3>3, <3>4
        <3>6. QED
            BY <3>4, <3>5
    <2>3. QED
        BY <1>4, <2>1, <2>2
<1>11. QED
    BY <1>3, <1>9, <1>10 DEF Ahead

\* Entering wave k of the list: T are those that are behind by now, with everybody of
\* the waves before it.
LEMMA AheadOfRest ==
    ASSUME NEW ws \in Seq(Groups), NEW k \in DOMAIN ws, NEW R, NEW T, NEW S,
           Front \in [Groups -> SUBSET Instances], Ahead(ws, R, Front, group, Known),
           \A m \in 1..(k - 1) : \A i \in Instances : group[i] = ws[m] => i \in T,
           R \subseteq T, T \subseteq S, \A i \in Instances : group[i] = ws[k] => i \in S
    PROVE  /\ ws[k] \in Known /\ ws[k] \in Groups /\ Front[ws[k]] \subseteq T
           /\ Ahead(SubSeq(ws, k + 1, Len(ws)), S, Front, group, Known)
           /\ Everyone(ws, R, group, Known) => Everyone(SubSeq(ws, k + 1, Len(ws)), S, group, Known)
<1> DEFINE rest == SubSeq(ws, k + 1, Len(ws))
<1>1. DOMAIN ws = 1..Len(ws) /\ Len(ws) \in Nat /\ \A n \in DOMAIN ws : ws[n] \in Groups
    OBVIOUS
<1>2. k + 1 \in 1..(Len(ws) + 1) /\ Len(ws) \in (k + 1) - 1 .. Len(ws)
    BY <1>1
<1>3. /\ rest \in Seq(Groups) /\ Len(rest) = Len(ws) - (k + 1) + 1
      /\ \A n \in 1..Len(rest) : rest[n] = ws[(k + 1) + n - 1]
    BY <1>2, SubSeqProperties
<1>4. DOMAIN rest = 1..(Len(ws) - k) /\ \A n \in DOMAIN rest : rest[n] = ws[k + n]
    BY <1>1, <1>3
<1> HIDE DEF rest
<1>5. ws[k] \in Known /\ ws[k] \in Groups /\ Front[ws[k]] \subseteq T
    BY <1>1 DEF Ahead
\* A group of the list is behind, that of the wave, or in the rest.
<1>6. ASSUME NEW i \in Instances, NEW m \in DOMAIN ws, ws[m] = group[i]
      PROVE  i \in S \/ (m - k \in DOMAIN rest /\ rest[m - k] = group[i])
    <2>1. CASE m < k
        <3>1. m \in 1..(k - 1)
            BY <1>1, <2>1
        <3>2. QED
            BY <1>6, <3>1
    <2>2. CASE m = k
        BY <1>6, <2>2
    <2>3. CASE m > k
        <3>1. m - k \in DOMAIN rest /\ k + (m - k) = m
            BY <1>1, <1>4, <2>3
        <3>2. QED
            BY <1>4, <1>6, <3>1
    <2>4. QED
        BY <1>1, <2>1, <2>2, <2>3
<1>7. ASSUME Everyone(ws, R, group, Known)
      PROVE  Everyone(rest, S, group, Known)
    BY <1>6, <1>7 DEF Everyone
<1>8. ASSUME NEW n \in DOMAIN rest
      PROVE  rest[n] \in Known /\ \A i \in Front[rest[n]] : i \in S \/ \E m \in 1..(n - 1) : rest[m] = group[i]
    <2>1. rest[n] = ws[k + n] /\ k + n \in DOMAIN ws
        BY <1>1, <1>4
    <2>2. ASSUME NEW i \in Front[rest[n]], i \notin S
          PROVE  \E m \in 1..(n - 1) : rest[m] = group[i]
        <3>1. i \in Instances /\ i \in Front[ws[k + n]]
            BY <1>1, <2>1
        <3>2. PICK m \in 1..((k + n) - 1) : ws[m] = group[i]
            BY <2>1, <2>2, <3>1 DEF Ahead
        <3>3. m \in DOMAIN ws
            BY <1>1, <1>4, <2>1, <3>2
        <3>4. m - k \in DOMAIN rest /\ rest[m - k] = group[i]
            BY <1>6, <2>2, <3>1, <3>2, <3>3
        <3>5. m - k \in 1..(n - 1)
            BY <1>1, <1>4, <3>3, <3>4
        <3>6. QED
            BY <3>4, <3>5
    <2>3. QED
        BY <2>1, <2>2 DEF Ahead
<1>9. Ahead(rest, S, Front, group, Known)
    BY <1>8 DEF Ahead
<1>10. QED
    BY <1>5, <1>7, <1>9 DEF rest

\* Who has passed more is no worse off.
LEMMA AheadOfMore ==
    ASSUME NEW ws, NEW R, NEW S, NEW F, NEW G, NEW K, R \subseteq S
    PROVE  /\ Ahead(ws, R, F, G, K) => Ahead(ws, S, F, G, K)
           /\ Everyone(ws, R, G, K) => Everyone(ws, S, G, K)
    BY DEF Ahead, Everyone

\* What a worker finds at the top of its loop.
LEMMA UpcomingIsAhead ==
    ASSUME GInv, NEW t \in Tasks, tasks[t].pc \in {"ready", "notify"}, tasks[t].deploy \in Gating
    PROVE  LET R == Behind[tasks[t].deploy]
           IN  /\ Ahead(Upcoming(t), R, Front, group, Known)
               /\ recs[tasks[t].deploy].mode = "normal" => Everyone(Upcoming(t), R, group, Known)
<1> DEFINE R == Behind[tasks[t].deploy]
<1>1. TypeOK
    BY DEF GInv, IInv
<1>2. CASE tasks[t].pc = "notify"
    <2>1. UnderWay[t] = {} /\ R \cup {} = R
        BY <1>2 DEF UnderWay
    <2>2. Upcoming(t) = tasks[t].waves
        BY <1>2 DEF Upcoming
    <2>3. QED
        BY <1>2, <2>1, <2>2 DEF GInv, WavesAreAhead
<1>3. CASE tasks[t].pc = "ready" /\ tasks[t].resume
    <2>1. Upcoming(t) = WavesFrom(tasks[t].first)
        BY <1>3 DEF Upcoming, Plan
    <2>2. tasks[t].first \in Known /\ Front[tasks[t].first] \subseteq R
        BY <1>3 DEF GInv, ResumeHasPassed
    <2>3. QED
        BY <1>1, <2>1, <2>2, SuffixOfRegistry
<1>4. CASE tasks[t].pc = "ready" /\ ~tasks[t].resume
    <2>1. recs[tasks[t].deploy].mode \notin Groups
        BY DEF Gating
    <2>2. \/ Upcoming(t) = waveOrder
          \/ Upcoming(t) = <<waveOrder[1]>> /\ recs[tasks[t].deploy].mode = "canary-only"
        BY <1>4, <2>1 DEF Upcoming, Plan
    <2>3. QED
        BY <1>1, <2>2, RegistryIsAhead
<1>5. QED
    BY <1>2, <1>3, <1>4

-----------------------------------------------------------------------------
(* The gates: the steps.                                                   *)

\* Steps that start no thread, pause or complete nothing and fail no check.
LEMMA QuietGates ==
    ASSUME GInv, IInv', UNCHANGED group, Front' = Front, Known' = Known,
           \A e \in Deploys :
               /\ recs'[e].mode = recs[e].mode /\ recs'[e].wave = recs[e].wave
               /\ recs'[e].status \in {"paused", "complete"} => recs'[e].status = recs[e].status
               /\ Behind[e] \subseteq Behind'[e],
           \A u \in Tasks :
               /\ tasks'[u].deploy = tasks[u].deploy
               /\ tasks'[u] = tasks[u] \/ tasks'[u].pc \notin {"ready", "patching", "notify"},
           jobs' \subseteq jobs
    PROVE  GInv'
<1>1. TypeOK /\ \A u \in Tasks : tasks[u].deploy \in Deploys
    BY DEF GInv, IInv, TypeOK, Task
<1>2. Gating' = Gating
    BY DEF Gating
<1>3. \A d \in Gating : d \in Deploys
    BY DEF Gating
<1>4. SeedsAreKnown'
    BY DEF GInv, SeedsAreKnown
<1>5. PausedHasPassed'
    BY <1>2, <1>3 DEF GInv, PausedHasPassed
<1>6. ResumeHasPassed'
    BY <1>1, <1>2 DEF GInv, ResumeHasPassed
<1>7. \A u \in Tasks : tasks'[u] = tasks[u] => UnderWay'[u] = UnderWay[u]
    BY DEF UnderWay
<1>8. ASSUME NEW u \in Tasks, tasks'[u].pc \in {"ready", "patching", "notify"}
      PROVE  tasks'[u] = tasks[u] /\ UnderWay'[u] = UnderWay[u]
    BY <1>7, <1>8
<1>9. WaveHasPassed'
    <2> SUFFICES ASSUME NEW u \in Tasks, tasks'[u].pc = "patching", tasks'[u].deploy \in Gating
                 PROVE  LET g == recs'[tasks'[u].deploy].wave
                        IN  /\ g \in Known /\ Front[g] \subseteq Behind'[tasks'[u].deploy]
                            /\ UnderWay'[u] \subseteq {i \in Instances : group[i] = g}
        BY <1>2 DEF WaveHasPassed, Members
    <2>1. tasks'[u] = tasks[u] /\ UnderWay'[u] = UnderWay[u]
        BY <1>8
    <2>2. LET g == recs[tasks[u].deploy].wave
          IN  /\ g \in Known /\ Front[g] \subseteq Behind[tasks[u].deploy]
              /\ UnderWay[u] \subseteq {i \in Instances : group[i] = g}
        BY <2>1 DEF GInv, WaveHasPassed, Members
    <2>3. QED
        BY <1>1, <2>1, <2>2
<1>10. WavesAreAhead'
    <2> SUFFICES ASSUME NEW u \in Tasks, tasks'[u].pc \in {"patching", "notify"},
                        tasks'[u].deploy \in Gating
                 PROVE  LET R == Behind'[tasks'[u].deploy] \cup UnderWay'[u]
                        IN  /\ Ahead(tasks'[u].waves, R, Front, group, Known)
                            /\ recs'[tasks'[u].deploy].mode = "normal"
                                  => Everyone(tasks'[u].waves, R, group, Known)
        BY <1>2 DEF WavesAreAhead
    <2> DEFINE R == Behind[tasks[u].deploy] \cup UnderWay[u]
               S == Behind'[tasks'[u].deploy] \cup UnderWay'[u]
    <2>1. tasks'[u] = tasks[u] /\ UnderWay'[u] = UnderWay[u]
        BY <1>8
    <2>2. /\ Ahead(tasks[u].waves, R, Front, group, Known)
          /\ recs[tasks[u].deploy].mode = "normal" => Everyone(tasks[u].waves, R, group, Known)
        BY <2>1 DEF GInv, WavesAreAhead
    <2>3. R \subseteq S
        BY <1>1, <2>1
    <2> HIDE DEF R, S
    <2>4. /\ Ahead(tasks[u].waves, S, Front, group, Known)
          /\ recs[tasks[u].deploy].mode = "normal" => Everyone(tasks[u].waves, S, group, Known)
        BY <2>2, <2>3, AheadOfMore
    <2>5. QED
        BY <1>1, <2>1, <2>4 DEF S
<1>11. JobsHavePassed'
    <2>1. \A j \in jobs : j.by \in Tasks
        BY <1>1 DEF TypeOK, Job
    <2>2. QED
        BY <1>1, <1>2, <2>1 DEF GInv, JobsHavePassed
<1>12. CompleteHasPassed'
    BY DEF GInv, CompleteHasPassed
<1>13. QED
    BY <1>4, <1>5, <1>6, <1>9, <1>10, <1>11, <1>12 DEF GInv

\* A step of the one worker t of deploy d.
OneWorks(t, d) ==
    /\ UNCHANGED <<group, waveOrder>>
    /\ tasks'[t].deploy = d
    /\ \A u \in Tasks \ {t} : tasks'[u] = tasks[u] /\ (Working(u) => tasks[u].deploy # d)
    /\ \A e \in Deploys \ {d} : recs'[e] = recs[e] /\ Behind'[e] = Behind[e]
    /\ \A j \in jobs' : j \in jobs \/ j.by = t

\* What is to be shown of d after it.
DeployHasPassed(t, d) ==
    /\ d \in Gating =>
        /\ recs[d].status = "paused" => recs[d].wave \in Known /\ Front[recs[d].wave] \subseteq Behind[d]
        /\ tasks[t].pc = "ready" /\ tasks[t].resume =>
              tasks[t].first \in Known /\ Front[tasks[t].first] \subseteq Behind[d]
        /\ tasks[t].pc = "patching" =>
              /\ recs[d].wave \in Known /\ Front[recs[d].wave] \subseteq Behind[d]
              /\ UnderWay[t] \subseteq {i \in Instances : group[i] = recs[d].wave}
        /\ tasks[t].pc \in {"patching", "notify"} =>
              /\ Ahead(tasks[t].waves, Behind[d] \cup UnderWay[t], Front, group, Known)
              /\ recs[d].mode = "normal" =>
                    Everyone(tasks[t].waves, Behind[d] \cup UnderWay[t], group, Known)
        /\ \A j \in jobs : tasks[j.by].deploy = d => Front[group[j.inst]] \subseteq Behind[d]
    /\ recs[d].status = "complete" /\ recs[d].mode = "normal" =>
        \A i \in Instances : group[i] \in Known => i \in Behind[d]

LEMMA WorkerGates ==
    ASSUME GInv, IInv', NEW t \in Tasks, NEW d \in Deploys, OneWorks(t, d), DeployHasPassed(t, d)'
    PROVE  GInv'
<1> USE DEF OneWorks, DeployHasPassed
<1>1. TypeOK /\ \A u \in Tasks : tasks[u].deploy \in Deploys
    BY DEF GInv, IInv, TypeOK, Task
<1>2. Front' = Front /\ Known' = Known /\ SeedsAreKnown'
    BY DEF Front, Known, Earlier, GInv, SeedsAreKnown
<1>3. /\ \A e \in Deploys \ {d} : e \in Gating' <=> e \in Gating
      /\ \A e \in Gating' : e \in Deploys
    BY DEF Gating
<1>4. ASSUME NEW u \in Tasks \ {t}
      PROVE  /\ tasks'[u] = tasks[u] /\ UnderWay'[u] = UnderWay[u]
             /\ tasks'[u].pc \in {"ready", "patching", "notify"} => tasks[u].deploy \in Deploys \ {d}
    BY <1>1 DEF UnderWay, Working
<1>5. PausedHasPassed'
    BY <1>2, <1>3 DEF GInv, PausedHasPassed
<1>6. ResumeHasPassed'
    BY <1>2, <1>3, <1>4 DEF GInv, ResumeHasPassed
<1>7. WaveHasPassed'
    <2> SUFFICES ASSUME NEW u \in Tasks, tasks'[u].pc = "patching", tasks'[u].deploy \in Gating'
                 PROVE  LET g == recs'[tasks'[u].deploy].wave
                        IN  /\ g \in Known /\ Front[g] \subseteq Behind'[tasks'[u].deploy]
                            /\ UnderWay'[u] \subseteq {i \in Instances : group[i] = g}
        BY <1>2 DEF WaveHasPassed, Members
    <2>1. CASE u = t
        BY <1>2, <2>1
    <2>2. CASE u # t
        <3>1. /\ tasks'[u] = tasks[u] /\ UnderWay'[u] = UnderWay[u]
              /\ tasks[u].deploy \in Deploys \ {d}
            BY <1>4, <2>2
        <3>2. LET g == recs[tasks[u].deploy].wave
              IN  /\ g \in Known /\ Front[g] \subseteq Behind[tasks[u].deploy]
                  /\ UnderWay[u] \subseteq {i \in Instances : group[i] = g}
            BY <1>3, <3>1 DEF GInv, WaveHasPassed, Members
        <3>3. QED
            BY <3>1, <3>2
    <2>3. QED
        BY <2>1, <2>2
<1>8. WavesAreAhead'
    <2> SUFFICES ASSUME NEW u \in Tasks, tasks'[u].pc \in {"patching", "notify"},
                        tasks'[u].deploy \in Gating'
                 PROVE  LET R == Behind'[tasks'[u].deploy] \cup UnderWay'[u]
                        IN  /\ Ahead(tasks'[u].waves, R, Front, group, Known)
                            /\ recs'[tasks'[u].deploy].mode = "normal"
                                  => Everyone(tasks'[u].waves, R, group, Known)
        BY <1>2 DEF WavesAreAhead
    <2>1. CASE u = t
        BY <1>2, <2>1
    <2>2. CASE u # t
        <3>1. /\ tasks'[u] = tasks[u] /\ UnderWay'[u] = UnderWay[u]
              /\ tasks[u].deploy \in Deploys \ {d}
            BY <1>4, <2>2
        <3>2. LET R == Behind[tasks[u].deploy] \cup UnderWay[u]
              IN  /\ Ahead(tasks[u].waves, R, Front, group, Known)
                  /\ recs[tasks[u].deploy].mode = "normal"
                        => Everyone(tasks[u].waves, R, group, Known)
            BY <1>3, <3>1 DEF GInv, WavesAreAhead
        <3>3. QED
            BY <3>1, <3>2
    <2>3. QED
        BY <2>1, <2>2
<1>9. JobsHavePassed'
    <2> SUFFICES ASSUME NEW j \in jobs', tasks'[j.by].deploy \in Gating'
                 PROVE  Front[group[j.inst]] \subseteq Behind'[tasks'[j.by].deploy]
        BY <1>2 DEF JobsHavePassed
    <2>1. CASE tasks'[j.by].deploy = d
        BY <1>2, <2>1
    <2>2. CASE tasks'[j.by].deploy # d
        <3>1. j \in jobs /\ j.by # t
            BY <2>2
        <3>2. j.by \in Tasks \ {t}
            BY <1>1, <3>1 DEF TypeOK, Job
        <3>3. tasks'[j.by] = tasks[j.by] /\ tasks[j.by].deploy \in Deploys \ {d}
            BY <1>1, <2>2, <3>2
        <3>4. QED
            BY <1>3, <3>1, <3>3 DEF GInv, JobsHavePassed
    <2>3. QED
        BY <2>1, <2>2
<1>10. CompleteHasPassed'
    BY <1>2 DEF GInv, CompleteHasPassed
<1>11. QED
    BY <1>2, <1>5, <1>6, <1>7, <1>8, <1>9, <1>10 DEF GInv

LEMMA SetStatusRow ==
    ASSUME TypeOK, NEW d \in Deploys, NEW s, SetStatus(d, s)
    PROVE  /\ recs'[d].status = s /\ recs'[d].mode = recs[d].mode /\ recs'[d].wave = recs[d].wave
           /\ \A e \in Deploys \ {d} : recs'[e] = recs[e]
    BY DEF TypeOK, SetStatus, Rec

LEMMA SetWaveRow ==
    ASSUME TypeOK, NEW d \in Deploys, NEW s, NEW g,
           recs' = [recs EXCEPT ![d].status = s, ![d].wave = g]
    PROVE  /\ recs'[d].status = s /\ recs'[d].mode = recs[d].mode /\ recs'[d].wave = g
           /\ \A e \in Deploys \ {d} : recs'[e] = recs[e]
<1> DEFINE row == [recs[d] EXCEPT !.status = s, !.wave = g]
<1>1. recs \in [Deploys -> Rec] /\ recs[d] \in Rec
    BY DEF TypeOK
<1>2. row.status = s /\ row.mode = recs[d].mode /\ row.wave = g
    BY <1>1 DEF Rec
<1>3. recs' = [recs EXCEPT ![d] = row]
    BY <1>1
<1> HIDE DEF row
<1>4. QED
    BY <1>1, <1>2, <1>3

\* A worker is alone with its deploy: no other worker, no thread but its own.
LEMMA WorkerIsAlone ==
    ASSUME IInv, NEW t \in Tasks, Working(t)
    PROVE  /\ \A u \in Tasks \ {t} : Working(u) => tasks[u].deploy # tasks[t].deploy
           /\ \A j \in jobs : tasks[j.by].deploy = tasks[t].deploy => j.by = t
<1>1. \A u \in Tasks \ {t} : Working(u) => tasks[u].deploy # tasks[t].deploy
    BY DEF IInv, OneWorkerPerDeploy
<1>2. ASSUME NEW j \in jobs, tasks[j.by].deploy = tasks[t].deploy
      PROVE  j.by = t
    <2>1. j.by \in Tasks
        BY DEF IInv, TypeOK, Job
    <2>2. tasks[j.by].pc = "patching"
        BY <1>2 DEF IInv, LateJobsAreLoose
    <2>3. QED
        BY <1>1, <1>2, <2>1, <2>2 DEF Working
<1>3. QED
    BY <1>1, <1>2

LEMMA SubmitBatchTask ==
    ASSUME TypeOK, NEW t \in Tasks, NEW first, NEW waves, NEW todo \in SUBSET Instances,
           SubmitBatch(t, first, waves, todo)
    PROVE  /\ tasks'[t].pc = "patching" /\ tasks'[t].deploy = tasks[t].deploy
           /\ tasks'[t].waves = waves
           /\ \A u \in Tasks \ {t} : tasks'[u] = tasks[u]
           /\ UnderWay'[t] = todo
           /\ \A j \in jobs' : j \in jobs \/ (j.by = t /\ j.inst \in todo)
<1>1. PICK b \in SUBSET todo :
         /\ tasks' = [tasks EXCEPT ![t] = [@ EXCEPT !.pc = "patching", !.first = first,
                                                   !.waves = waves, !.todo = todo \ b,
                                                   !.batch = b]]
         /\ jobs' = jobs \cup [by: {t}, inst: b]
    BY DEF SubmitBatch
<1> DEFINE new == [tasks[t] EXCEPT !.pc = "patching", !.first = first, !.waves = waves,
                                   !.todo = todo \ b, !.batch = b]
<1>2. tasks \in [Tasks -> Task] /\ tasks[t] \in Task
    BY DEF TypeOK
<1>3. /\ new.pc = "patching" /\ new.deploy = tasks[t].deploy
      /\ new.waves = waves /\ new.batch = b /\ new.todo = todo \ b
    BY <1>2 DEF Task
<1>4. tasks' = [tasks EXCEPT ![t] = new]
    BY <1>1
<1> HIDE DEF new
<1>5. tasks'[t] = new /\ \A u \in Tasks \ {t} : tasks'[u] = tasks[u]
    BY <1>2, <1>4
<1>6. UnderWay'[t] = todo
    <2>1. UnderWay'[t] = tasks'[t].batch \cup tasks'[t].todo
        BY <1>3, <1>5 DEF UnderWay
    <2>2. QED
        BY <1>3, <1>5, <2>1
<1>7. \A j \in jobs' : j \in jobs \/ (j.by = t /\ j.inst \in todo)
    BY <1>1
<1>8. QED
    BY <1>3, <1>5, <1>6, <1>7

LEMMA StartDeployGates ==
    ASSUME GInv, IInv', NEW d \in Deploys, NEW t \in Tasks, NEW tag \in Tags, NEW mode \in Modes,
           NEW force \in BOOLEAN, StartDeploy(d, t, tag, mode, force)
    PROVE  GInv'
<1>1. IInv /\ TypeOK
    BY DEF GInv, IInv
<1>2. PICK prev \in Tags :
         recs' = [recs EXCEPT ![d] = [status |-> "pending", tag |-> tag, prev |-> prev,
                                      mode |-> mode, wave |-> ""]]
    BY DEF StartDeploy
<1>3. /\ recs[d].status = "none" /\ recs'[d].status = "pending"
      /\ \A e \in Deploys \ {d} : recs'[e] = recs[e]
      /\ UNCHANGED <<jobs, Behind, group, waveOrder>> /\ CreateTask(t, d, FALSE, "")
    BY <1>1, <1>2 DEF StartDeploy, IsNextRow, Created, TypeOK, Behind
<1>4. /\ tasks[t].pc = "unused" /\ tasks'[t].pc = "ready" /\ tasks'[t].deploy = d
      /\ tasks'[t].resume = FALSE
      /\ \A u \in Tasks \ {t} : tasks'[u] = tasks[u]
    BY <1>1, <1>3 DEF CreateTask, TypeOK
<1>5. \A u \in Tasks : tasks[u].pc # "unused" => tasks[u].deploy # d
    BY <1>1, <1>3 DEF IInv, TasksHaveRows
<1>6. OneWorks(t, d)
    BY <1>3, <1>4, <1>5 DEF OneWorks, Working
<1>7. \A j \in jobs' : tasks'[j.by].deploy # d
    <2>1. ASSUME NEW j \in jobs
          PROVE  j.by \in Tasks /\ tasks[j.by].pc # "unused"
        BY <1>1 DEF IInv, JobsAreSubmitted, TypeOK, Job
    <2>2. ASSUME NEW j \in jobs
          PROVE  tasks'[j.by].deploy # d
        <3>1. j.by \in Tasks \ {t}
            BY <1>4, <2>1
        <3>2. QED
            BY <1>4, <1>5, <2>1, <3>1
    <2>3. QED
        BY <1>3, <2>2
<1>8. DeployHasPassed(t, d)'
    BY <1>3, <1>4, <1>7 DEF DeployHasPassed
<1>9. QED
    BY <1>6, <1>8, WorkerGates

LEMMA ContinueDeployGates ==
    ASSUME GInv, IInv', NEW d \in Deploys, NEW t \in Tasks, ContinueDeploy(d, t)
    PROVE  GInv'
<1>1. IInv /\ TypeOK
    BY DEF GInv, IInv
<1>2. /\ recs[d].status = "paused" /\ SetStatus(d, "rolling") /\ CreateTask(t, d, TRUE, recs[d].wave)
      /\ UNCHANGED <<jobs, Behind, group, waveOrder>>
    BY DEF ContinueDeploy, Behind
<1>3. /\ recs'[d].status = "rolling" /\ recs'[d].mode = recs[d].mode
      /\ \A e \in Deploys \ {d} : recs'[e] = recs[e]
    BY <1>1, <1>2, SetStatusRow
<1>4. /\ tasks[t].pc = "unused" /\ tasks'[t].pc = "ready" /\ tasks'[t].deploy = d
      /\ tasks'[t].first = recs[d].wave
      /\ \A u \in Tasks \ {t} : tasks'[u] = tasks[u]
    BY <1>1, <1>2 DEF CreateTask, TypeOK
<1>5. OneWorks(t, d)
    BY <1>1, <1>2, <1>3, <1>4 DEF OneWorks, IInv, WorkerHoldsRow
<1>6. \A j \in jobs' : tasks'[j.by].deploy # d
    <2>1. ASSUME NEW j \in jobs
          PROVE  tasks'[j.by].deploy # d
        <3>1. /\ j.by \in Tasks /\ tasks[j.by].pc # "unused"
              /\ tasks[j.by].deploy # d
            BY <1>1, <1>2, AtRestFromIInv DEF IInv, JobsAreSubmitted, TypeOK, Job, AtRestIsQuiet
        <3>2. j.by \in Tasks \ {t}
            BY <1>4, <3>1
        <3>3. QED
            BY <1>4, <3>1, <3>2
    <2>2. QED
        BY <1>2, <2>1
<1>7. Front' = Front /\ Known' = Known
    BY <1>2 DEF Front, Known, Earlier
<1>8. ASSUME d \in Gating'
      PROVE  recs[d].wave \in Known /\ Front[recs[d].wave] \subseteq Behind'[d]
    <2>1. d \in Gating
        BY <1>3, <1>8 DEF Gating
    <2>2. QED
        BY <1>2, <2>1 DEF GInv, PausedHasPassed
<1>9. DeployHasPassed(t, d)'
    BY <1>3, <1>4, <1>6, <1>7, <1>8 DEF DeployHasPassed
<1>10. QED
    BY <1>5, <1>9, WorkerGates

\* Who is in a wave that is passed over is behind.
LEMMA PassedOver ==
    ASSUME TypeOK, NEW t \in Tasks, NEW d \in Deploys, d = tasks[t].deploy, NEW n,
           PassesOver(t, n), gated' = gated
    PROVE  /\ \A m \in 1..n : \A i \in Instances : group[i] = Upcoming(t)[m] => i \in Behind'[d]
           /\ Behind[d] \subseteq Behind'[d]
           /\ \A e \in Deploys \ {d} : Behind'[e] = Behind[e]
<1> DEFINE skipped == {Upcoming(t)[k] : k \in 1..n}
           hidden == {i \in Instances : group[i] \in skipped}
<1>1. overlooked' = [overlooked EXCEPT ![d] = @ \cup hidden]
    BY DEF PassesOver
<1>2. \A m \in 1..n : \A i \in Instances : group[i] = Upcoming(t)[m] => i \in hidden
    OBVIOUS
<1> HIDE DEF skipped, hidden
<1>3. /\ overlooked'[d] = overlooked[d] \cup hidden
      /\ \A e \in Deploys \ {d} : overlooked'[e] = overlooked[e]
    BY <1>1 DEF TypeOK
<1>4. QED
    BY <1>2, <1>3 DEF Behind

\* The wave that is entered comes after everyone who has passed, and the members of a
\* wave that is passed over are overlooked.
LEMMA EnterWaveGates ==
    ASSUME GInv, IInv', NEW t \in Tasks, EnterWave(t)
    PROVE  GInv'
<1>1. IInv /\ TypeOK /\ tasks[t].deploy \in Deploys /\ Working(t) /\ tasks[t].pc \in {"ready", "notify"}
    BY DEF GInv, IInv, TypeOK, Task, EnterWave, Working
<1> DEFINE ws == Upcoming(t)
           first == IF tasks[t].pc = "ready" THEN ws[1] ELSE tasks[t].first
<1>2. PICK k \in DOMAIN ws :
         /\ PassesOver(t, k - 1)
         /\ recs' = [recs EXCEPT ![tasks[t].deploy].status = IF ws[k] = first THEN "canary" ELSE "rolling",
                                 ![tasks[t].deploy].wave = ws[k]]
         /\ SubmitBatch(t, first, SubSeq(ws, k + 1, Len(ws)), Members(ws[k]))
    BY DEF EnterWave
<1>3. PICK d \in Deploys : d = tasks[t].deploy
    BY <1>1
<1> DEFINE s == IF ws[k] = first THEN "canary" ELSE "rolling"
           g == ws[k]
           rest == SubSeq(ws, k + 1, Len(ws))
           team == Members(g)
           R == Behind[d]
           T == Behind'[d]
           S == T \cup {i \in Instances : group[i] = g}
<1>4. /\ recs' = [recs EXCEPT ![d].status = s, ![d].wave = g]
      /\ SubmitBatch(t, first, rest, team)
    BY <1>2, <1>3
<1>5. /\ UNCHANGED <<group, waveOrder, gated>>
      /\ s \notin {"paused", "complete"} /\ team \in SUBSET Instances
    BY DEF EnterWave, TaskFrame, Members
<1>6. ws \in Seq(Groups) /\ k \in DOMAIN ws
    BY <1>1, <1>2, UpcomingType
<1>7. d \in Gating => /\ Ahead(ws, R, Front, group, Known)
                      /\ recs[d].mode = "normal" => Everyone(ws, R, group, Known)
    BY <1>1, <1>3, UpcomingIsAhead
<1>8. /\ \A m \in 1..(k - 1) : \A i \in Instances : group[i] = ws[m] => i \in T
      /\ R \subseteq T /\ \A e \in Deploys \ {d} : Behind'[e] = Behind[e]
      /\ team = {i \in Instances : group[i] = g}
    <2>1. /\ \A m \in 1..(k - 1) : \A i \in Instances : group[i] = ws[m] => i \in T
          /\ R \subseteq T /\ \A e \in Deploys \ {d} : Behind'[e] = Behind[e]
        <3>1. PassesOver(t, k - 1) /\ gated' = gated /\ TypeOK
            BY <1>1, <1>2, <1>5
        <3>2. QED
            BY ONLY <3>1, <1>3, PassedOver
    <2>2. QED
        BY <2>1 DEF Members
<1> HIDE DEF ws, first, s
<1>9. d \in Gating => /\ g \in Known /\ Front[g] \subseteq T
                      /\ Ahead(rest, S, Front, group, Known)
                      /\ recs[d].mode = "normal" => Everyone(rest, S, group, Known)
    <2>1. Front \in [Groups -> SUBSET Instances]
        BY <1>1, FrontProperties
    <2>2. R \subseteq T /\ T \subseteq S /\ \A i \in Instances : group[i] = ws[k] => i \in S
        <3>1. R \subseteq T
            BY <1>8
        <3> HIDE DEF R, T
        <3>2. QED
            BY <3>1, ZenonT(30)
    <2>3. rest = SubSeq(ws, k + 1, Len(ws)) /\ g = ws[k]
        OBVIOUS
    <2> HIDE DEF R, T, S, g, rest
    <2>4. ASSUME Ahead(ws, R, Front, group, Known)
          PROVE  /\ ws[k] \in Known /\ Front[ws[k]] \subseteq T
                 /\ Ahead(rest, S, Front, group, Known)
                 /\ Everyone(ws, R, group, Known) => Everyone(rest, S, group, Known)
        <3>1. \A m \in 1..(k - 1) : \A i \in Instances : group[i] = ws[m] => i \in T
            BY <1>8
        <3>2. ws \in Seq(Groups)
            BY <1>6
        <3>3. k \in DOMAIN ws
            BY <1>6
        <3>4. /\ ws[k] \in Known /\ Front[ws[k]] \subseteq T
              /\ Ahead(SubSeq(ws, k + 1, Len(ws)), S, Front, group, Known)
              /\ Everyone(ws, R, group, Known) => Everyone(SubSeq(ws, k + 1, Len(ws)), S, group, Known)
            BY ONLY <2>1, <2>2, <2>4, <3>1, <3>2, <3>3, AheadOfRest
        <3>5. QED
            BY ONLY <2>3, <3>4
    <2>5. QED
        BY <1>7, <2>3, <2>4
<1> HIDE DEF g, rest, team
<1>10. /\ recs'[d].status = s /\ recs'[d].mode = recs[d].mode /\ recs'[d].wave = g
       /\ \A e \in Deploys \ {d} : recs'[e] = recs[e]
    BY <1>1, <1>4, SetWaveRow
<1>11. /\ tasks'[t].pc = "patching" /\ tasks'[t].deploy = tasks[t].deploy
       /\ tasks'[t].waves = rest
       /\ \A u \in Tasks \ {t} : tasks'[u] = tasks[u]
       /\ UnderWay'[t] = team
       /\ \A j \in jobs' : j \in jobs \/ (j.by = t /\ j.inst \in team)
    BY <1>1, <1>4, <1>5, SubmitBatchTask
<1>12. OneWorks(t, d)
    BY <1>1, <1>3, <1>5, <1>8, <1>10, <1>11, WorkerIsAlone DEF OneWorks
<1>13. Front' = Front /\ Known' = Known
    BY <1>5 DEF Front, Known, Earlier
<1>14. ASSUME d \in Gating, NEW j \in jobs', tasks'[j.by].deploy = d
       PROVE  Front[group[j.inst]] \subseteq Behind'[d]
    <2>1. CASE j \in jobs
        <3>1. j.by \in Tasks
            BY <1>1, <2>1 DEF TypeOK, Job
        <3>2. tasks[j.by].deploy = d
            BY <1>3, <1>11, <1>14, <3>1
        <3>3. QED
            BY <1>8, <1>14, <2>1, <3>2 DEF GInv, JobsHavePassed
    <2>2. CASE j \notin jobs
        BY <1>5, <1>8, <1>9, <1>11, <1>14, <2>2
    <2>3. QED
        BY <2>1, <2>2
<1>15. d \in Gating' <=> d \in Gating
    BY <1>10 DEF Gating
<1>16. S = Behind'[d] \cup UnderWay'[t]
    BY <1>5, <1>8, <1>11
<1> HIDE DEF R, S
<1> HIDE DEF T
<1>17. DeployHasPassed(t, d)'
    BY <1>5, <1>8, <1>9, <1>10, <1>11, <1>13, <1>14, <1>15, <1>16 DEF DeployHasPassed, T
<1>18. QED
    BY <1>12, <1>17, WorkerGates

LEMMA NoThreadLeft ==
    ASSUME IInv, NEW t \in Tasks, Working(t), JobsOf(t) = {}
    PROVE  \A j \in jobs : tasks[j.by].deploy # tasks[t].deploy
    BY WorkerIsAlone DEF JobsOf

\* A worker leaves, its threads having ended.
LEMMA WorkerLeavesGates ==
    ASSUME GInv, IInv', NEW t \in Tasks, NEW d \in Deploys, d = tasks[t].deploy, Working(t),
           Leaves(t, "closing"), JobsOf(t) = {}, jobs' = jobs, UNCHANGED <<group, waveOrder>>,
           \A e \in Deploys \ {d} : recs'[e] = recs[e] /\ Behind'[e] = Behind[e],
           recs'[d].mode = recs[d].mode,
           d \in Gating /\ recs'[d].status = "paused" =>
               recs'[d].wave \in Known /\ Front[recs'[d].wave] \subseteq Behind'[d],
           recs'[d].status = "complete" /\ recs[d].mode = "normal" =>
               \A i \in Instances : group[i] \in Known => i \in Behind'[d]
    PROVE  GInv'
<1>1. IInv /\ TypeOK
    BY DEF GInv, IInv
<1>2. /\ tasks'[t].pc = "closing" /\ \A u \in Tasks : tasks'[u].deploy = tasks[u].deploy
      /\ \A u \in Tasks \ {t} : tasks'[u] = tasks[u]
    BY <1>1, LeavesEffect DEF TaskPcs
<1>3. OneWorks(t, d)
    BY <1>1, <1>2, WorkerIsAlone DEF OneWorks
<1>4. Front' = Front /\ Known' = Known
    BY DEF Front, Known, Earlier
<1>5. d \in Gating' <=> d \in Gating
    BY DEF Gating
<1>6. \A j \in jobs' : tasks'[j.by].deploy # d
    BY <1>1, <1>2, NoThreadLeft DEF TypeOK, Job
<1>7. DeployHasPassed(t, d)'
    BY <1>2, <1>4, <1>5, <1>6 DEF DeployHasPassed
<1>8. QED
    BY <1>3, <1>7, WorkerGates

LEMMA AllWavesDoneGates ==
    ASSUME GInv, IInv', NEW t \in Tasks, AllWavesDone(t)
    PROVE  GInv'
<1>1. IInv /\ TypeOK /\ tasks[t].deploy \in Deploys /\ Working(t) /\ tasks[t].pc \in {"ready", "notify"}
    BY DEF GInv, IInv, TypeOK, Task, AllWavesDone, Working
<1>2. PICK d \in Deploys : d = tasks[t].deploy
    BY <1>1
<1>3. /\ recs' = [recs EXCEPT ![d].status = "complete", ![d].wave = ""]
      /\ Leaves(t, "closing") /\ jobs' = jobs /\ UNCHANGED <<group, waveOrder, gated>>
      /\ PassesOver(t, Len(Upcoming(t)))
    BY <1>2 DEF AllWavesDone, TaskFrame
<1>8. /\ \A k \in DOMAIN Upcoming(t) : \A i \in Instances : group[i] = Upcoming(t)[k] => i \in Behind'[d]
      /\ Behind[d] \subseteq Behind'[d]
      /\ \A e \in Deploys \ {d} : Behind'[e] = Behind[e]
    <2>1. DOMAIN Upcoming(t) = 1..Len(Upcoming(t))
        BY <1>1, UpcomingType
    <2>2. QED
        <3>1. PassesOver(t, Len(Upcoming(t))) /\ gated' = gated /\ TypeOK
            BY <1>1, <1>3
        <3>2. QED
            BY ONLY <3>1, <1>2, <2>1, PassedOver
<1>4. /\ recs'[d].status = "complete" /\ recs'[d].mode = recs[d].mode
      /\ \A e \in Deploys \ {d} : recs'[e] = recs[e]
    BY <1>1, <1>3, SetWaveRow
<1>5. JobsOf(t) = {}
    BY <1>1 DEF IInv, JobsAreSubmitted, JobsOf
<1>6. ASSUME recs[d].mode = "normal"
      PROVE  \A i \in Instances : group[i] \in Known => i \in Behind'[d]
    <2>1. d \in Gating
        BY <1>6, DeployAssumptions DEF Gating, NamedModes
    <2>2. Everyone(Upcoming(t), Behind[d], group, Known)
        BY <1>1, <1>2, <1>6, <2>1, UpcomingIsAhead
    <2>3. QED
        BY <1>8, <2>2 DEF Everyone
<1>7. QED
    BY <1>1, <1>2, <1>3, <1>4, <1>5, <1>6, <1>8, WorkerLeavesGates

\* The deploy pauses in a wave: who was to pass before it has passed, and the
\* check that fails is about instances of the wave itself.
LEMMA GateFailsGates ==
    ASSUME GInv, IInv', NEW t \in Tasks, GateFails(t)
    PROVE  GInv'
<1>1. IInv /\ TypeOK /\ tasks[t].deploy \in Deploys
    BY DEF GInv, IInv, TypeOK, Task
<1>2. PICK d \in Deploys : d = tasks[t].deploy
    BY <1>1
<1>3. PICK bad \in (SUBSET tasks[t].batch) \ {{}} : HealthVerdict(t, bad)
    BY DEF GateFails
<1>4. /\ SetStatus(d, "paused") /\ Leaves(t, "closing")
      /\ UNCHANGED <<jobs, group, waveOrder>>
    BY <1>2 DEF GateFails, TaskFrame
<1>5. /\ tasks[t].pc = "patching" /\ Working(t) /\ JobsOf(t) = {}
      /\ gated' = [gated EXCEPT ![d] = (@ \ bad) \cup (tasks[t].batch \ bad)]
      /\ overlooked' = [overlooked EXCEPT ![d] = @ \ tasks[t].batch]
    BY <1>2, <1>3 DEF HealthVerdict, BatchPatched, Working
<1>6. /\ Behind[d] \ bad \subseteq Behind'[d]
      /\ \A e \in Deploys \ {d} : Behind'[e] = Behind[e]
    BY <1>1, <1>5 DEF TypeOK, Behind
<1>7. /\ recs'[d].status = "paused" /\ recs'[d].mode = recs[d].mode /\ recs'[d].wave = recs[d].wave
      /\ \A e \in Deploys \ {d} : recs'[e] = recs[e]
    BY <1>1, <1>4, SetStatusRow
<1>8. ASSUME d \in Gating
      PROVE  recs[d].wave \in Known /\ Front[recs[d].wave] \subseteq Behind'[d]
    <2>1. /\ recs[d].wave \in Known /\ Front[recs[d].wave] \subseteq Behind[d]
          /\ UnderWay[t] \subseteq {i \in Instances : group[i] = recs[d].wave}
        BY <1>2, <1>5, <1>8 DEF GInv, WaveHasPassed, Members
    <2>2. bad \subseteq UnderWay[t]
        BY <1>3, <1>5 DEF UnderWay
    <2>3. \A i \in Front[recs[d].wave] : group[i] # recs[d].wave
        BY <1>1, <2>1, FrontProperties, OrderProperties
    <2>4. QED
        BY <1>6, <2>1, <2>2, <2>3
<1>9. QED
    BY <1>1, <1>2, <1>4, <1>5, <1>6, <1>7, <1>8, WorkerLeavesGates

\* The check of a batch passes.
LEMMA CheckPasses ==
    ASSUME GInv, NEW t \in Tasks, NEW d \in Deploys, d = tasks[t].deploy, HealthVerdict(t, {})
    PROVE  /\ tasks[t].pc = "patching" /\ Working(t) /\ JobsOf(t) = {}
           /\ Behind'[d] = Behind[d] \cup tasks[t].batch
           /\ \A e \in Deploys \ {d} : Behind'[e] = Behind[e]
           /\ Behind'[d] \cup tasks[t].todo = Behind[d] \cup UnderWay[t]
           /\ tasks[t].todo \subseteq UnderWay[t]
<1>1. TypeOK
    BY DEF GInv, IInv
<1>2. /\ tasks[t].pc = "patching" /\ JobsOf(t) = {}
      /\ gated' = [gated EXCEPT ![d] = (@ \ {}) \cup (tasks[t].batch \ {})]
      /\ overlooked' = [overlooked EXCEPT ![d] = @ \ tasks[t].batch]
    BY DEF HealthVerdict, BatchPatched
<1>3. /\ Behind'[d] = Behind[d] \cup tasks[t].batch
      /\ \A e \in Deploys \ {d} : Behind'[e] = Behind[e]
    BY <1>1, <1>2 DEF TypeOK, Behind
<1>4. UnderWay[t] = tasks[t].batch \cup tasks[t].todo
    BY <1>2 DEF UnderWay
<1>5. QED
    BY <1>2, <1>3, <1>4 DEF Working

LEMMA WaveDoneGates ==
    ASSUME GInv, IInv', NEW t \in Tasks, WaveDone(t)
    PROVE  GInv'
<1>1. IInv /\ TypeOK /\ tasks[t].deploy \in Deploys
    BY DEF GInv, IInv, TypeOK, Task
<1>2. PICK d \in Deploys : d = tasks[t].deploy
    BY <1>1
<1>3. HealthVerdict(t, {}) /\ tasks[t].todo = {} /\ UNCHANGED <<recs, jobs, group, waveOrder>>
    BY DEF WaveDone, TaskFrame
<1>4. /\ tasks[t].pc = "patching" /\ Working(t) /\ JobsOf(t) = {}
      /\ Behind'[d] = Behind[d] \cup UnderWay[t]
      /\ \A e \in Deploys \ {d} : Behind'[e] = Behind[e]
    BY <1>2, <1>3, CheckPasses
<1>5. /\ tasks'[t].pc = "notify" /\ tasks'[t].deploy = d /\ tasks'[t].waves = tasks[t].waves
      /\ \A u \in Tasks \ {t} : tasks'[u] = tasks[u]
    BY <1>1, <1>2 DEF WaveDone, TypeOK, Task
<1>6. OneWorks(t, d)
    BY <1>1, <1>2, <1>3, <1>4, <1>5, WorkerIsAlone DEF OneWorks
<1>7. Front' = Front /\ Known' = Known
    BY <1>3 DEF Front, Known, Earlier
<1>8. d \in Gating' <=> d \in Gating
    BY <1>3 DEF Gating
<1>9. \A j \in jobs' : tasks'[j.by].deploy # d
    <2>1. \A j \in jobs : j.by \in Tasks /\ tasks[j.by].deploy # d
        BY <1>1, <1>2, <1>4, NoThreadLeft DEF TypeOK, Job
    <2>2. \A u \in Tasks : tasks'[u].deploy = tasks[u].deploy
        BY <1>2, <1>5
    <2>3. QED
        BY <1>3, <2>1, <2>2
<1>10. recs[d].status \notin {"paused", "complete"}
    BY <1>1, <1>2, <1>4 DEF IInv, WorkerHoldsRow
<1>11. Behind'[d] \cup UnderWay'[t] = Behind[d] \cup UnderWay[t]
    BY <1>4, <1>5 DEF UnderWay
<1>12. d \in Gating =>
          /\ Ahead(tasks[t].waves, Behind[d] \cup UnderWay[t], Front, group, Known)
          /\ recs[d].mode = "normal" =>
                Everyone(tasks[t].waves, Behind[d] \cup UnderWay[t], group, Known)
    BY <1>2, <1>4 DEF GInv, WavesAreAhead
<1>13. DeployHasPassed(t, d)'
    BY <1>3, <1>5, <1>7, <1>8, <1>9, <1>10, <1>11, <1>12 DEF DeployHasPassed
<1>14. QED
    BY <1>6, <1>13, WorkerGates

\* The next batch is of the same wave.
LEMMA NextBatchGates ==
    ASSUME GInv, IInv', NEW t \in Tasks, NextBatch(t)
    PROVE  GInv'
<1>1. IInv /\ TypeOK /\ tasks[t].deploy \in Deploys /\ tasks[t].todo \in SUBSET Instances
    BY DEF GInv, IInv, TypeOK, Task
<1>2. PICK d \in Deploys : d = tasks[t].deploy
    BY <1>1
<1>3. /\ HealthVerdict(t, {}) /\ UNCHANGED <<recs, group, waveOrder>>
      /\ SubmitBatch(t, tasks[t].first, tasks[t].waves, tasks[t].todo)
    BY DEF NextBatch, TaskFrame
<1>4. /\ tasks[t].pc = "patching" /\ Working(t) /\ JobsOf(t) = {}
      /\ Behind[d] \subseteq Behind'[d]
      /\ \A e \in Deploys \ {d} : Behind'[e] = Behind[e]
      /\ Behind'[d] \cup tasks[t].todo = Behind[d] \cup UnderWay[t]
      /\ tasks[t].todo \subseteq UnderWay[t]
    BY <1>2, <1>3, CheckPasses
<1>5. /\ tasks'[t].pc = "patching" /\ tasks'[t].deploy = d
      /\ tasks'[t].waves = tasks[t].waves
      /\ \A u \in Tasks \ {t} : tasks'[u] = tasks[u]
      /\ UnderWay'[t] = tasks[t].todo
      /\ \A j \in jobs' : j \in jobs \/ (j.by = t /\ j.inst \in tasks[t].todo)
    BY <1>1, <1>2, <1>3, SubmitBatchTask
<1>6. OneWorks(t, d)
    BY <1>1, <1>2, <1>3, <1>4, <1>5, WorkerIsAlone DEF OneWorks
<1>7. Front' = Front /\ Known' = Known
    BY <1>3 DEF Front, Known, Earlier
<1>8. d \in Gating' <=> d \in Gating
    BY <1>3 DEF Gating
<1>9. d \in Gating =>
         /\ recs[d].wave \in Known /\ Front[recs[d].wave] \subseteq Behind[d]
         /\ UnderWay[t] \subseteq {i \in Instances : group[i] = recs[d].wave}
    BY <1>2, <1>4 DEF GInv, WaveHasPassed, Members
<1>10. ASSUME d \in Gating, NEW j \in jobs', tasks'[j.by].deploy = d
       PROVE  Front[group[j.inst]] \subseteq Behind'[d]
    <2>1. CASE j \in jobs
        <3>1. j.by \in Tasks /\ tasks[j.by].deploy # d
            BY <1>1, <1>2, <1>4, <2>1, NoThreadLeft DEF TypeOK, Job
        <3>2. tasks'[j.by].deploy # d
            BY <1>2, <1>5, <3>1
        <3>3. QED
            BY <1>10, <3>2
    <2>2. CASE j \notin jobs
        BY <1>4, <1>5, <1>9, <1>10, <2>2
    <2>3. QED
        BY <2>1, <2>2
<1>11. recs[d].status \notin {"paused", "complete"}
    BY <1>1, <1>2, <1>4 DEF IInv, WorkerHoldsRow
<1>12. Behind'[d] \cup UnderWay'[t] = Behind[d] \cup UnderWay[t]
    BY <1>4, <1>5
<1>13. d \in Gating =>
          /\ Ahead(tasks[t].waves, Behind[d] \cup UnderWay[t], Front, group, Known)
          /\ recs[d].mode = "normal" =>
                Everyone(tasks[t].waves, Behind[d] \cup UnderWay[t], group, Known)
    BY <1>2, <1>4 DEF GInv, WavesAreAhead
<1>14. d \in Gating =>
          /\ recs[d].wave \in Known /\ Front[recs[d].wave] \subseteq Behind'[d]
          /\ UnderWay'[t] \subseteq {i \in Instances : group[i] = recs[d].wave}
    BY <1>4, <1>5, <1>9
<1>15. DeployHasPassed(t, d)'
    BY <1>3, <1>5, <1>7, <1>8, <1>10, <1>11, <1>12, <1>13, <1>14 DEF DeployHasPassed
<1>16. QED
    BY <1>6, <1>15, WorkerGates

\* A fast deploy is not gated and not in normal mode; nobody else is touched.
LEMMA FastGates ==
    ASSUME GInv, IInv', NEW t \in Tasks, FastStart(t) \/ FastNext(t) \/ FastFindsNone(t) \/ FastDone(t)
    PROVE  GInv'
<1>1. /\ IInv /\ TypeOK /\ tasks[t].deploy \in Deploys
      /\ tasks[t].todo \in SUBSET Instances
    BY DEF GInv, IInv, TypeOK, Task
<1>2. PICK d \in Deploys : d = tasks[t].deploy
    BY <1>1
<1>3. recs[d].mode = "fast" /\ Working(t) /\ UNCHANGED <<group, waveOrder, Behind>>
    BY <1>2 DEF FastStart, FastNext, FastFindsNone, FastDone, IsFast, TaskFrame, BatchPatched,
                Working, Behind
<1>4. recs'[d].mode = recs[d].mode /\ \A e \in Deploys \ {d} : recs'[e] = recs[e]
    <2>1. CASE FastStart(t)
        <3>1. recs' = [recs EXCEPT ![d].status = "rolling", ![d].wave = "all"]
            BY <1>2, <2>1 DEF FastStart
        <3>2. QED
            BY <1>1, <3>1, SetWaveRow
    <2>2. CASE FastNext(t)
        BY <2>2 DEF FastNext
    <2>3. CASE FastFindsNone(t) \/ FastDone(t)
        <3>1. recs' = [recs EXCEPT ![d].status = "complete", ![d].wave = ""]
            BY <1>2, <2>3 DEF FastFindsNone, FastDone
        <3>2. QED
            BY <1>1, <3>1, SetWaveRow
    <2>4. QED
        BY <2>1, <2>2, <2>3
<1>5. /\ tasks'[t].deploy = d
      /\ \A u \in Tasks \ {t} : tasks'[u] = tasks[u]
      /\ \A j \in jobs' : j \in jobs \/ j.by = t
    <2>1. CASE FastStart(t) \/ FastNext(t)
        BY <1>1, <1>2, <2>1, FastStartEffect, NextBatchEffect
    <2>2. CASE FastFindsNone(t) \/ FastDone(t)
        <3>1. Leaves(t, "closing") /\ jobs' = jobs
            BY <2>2 DEF FastFindsNone, FastDone
        <3>2. QED
            BY <1>1, <1>2, <3>1, LeavesEffect DEF TaskPcs
    <2>3. QED
        BY <2>1, <2>2
<1>6. OneWorks(t, d)
    BY <1>1, <1>2, <1>3, <1>4, <1>5, WorkerIsAlone DEF OneWorks
<1>7. DeployHasPassed(t, d)'
    BY <1>3, <1>4 DEF DeployHasPassed, Gating
<1>8. QED
    BY <1>6, <1>7, WorkerGates

-----------------------------------------------------------------------------
(* A restart: the seeds being there, the registry keeps its order.         *)

LEMMA RestartKeepsOrder ==
    ASSUME TypeOK, TypeOK', SeedsAreKnown, Restart
    PROVE  Front' = Front /\ Known' = Known
<1>1. Reseeds(waveOrder') /\ UNCHANGED group
    BY DEF Restart
<1>2. Known' = Known
    BY <1>1 DEF Reseeds, Known, SeedsAreKnown
<1>3. \A m, n \in DOMAIN waveOrder :
         m < n => \E k, l \in DOMAIN waveOrder' :
                     k < l /\ waveOrder'[k] = waveOrder[m] /\ waveOrder'[l] = waveOrder[n]
    BY <1>1 DEF Reseeds
<1>4. /\ \A m, n \in DOMAIN waveOrder : waveOrder[m] = waveOrder[n] => m = n
      /\ DOMAIN waveOrder = 1..Len(waveOrder) /\ Len(waveOrder) \in Nat
    BY OrderProperties
<1>5. waveOrder' \in WaveOrders
    BY DEF TypeOK
<1>6. /\ \A m, n \in DOMAIN waveOrder' : waveOrder'[m] = waveOrder'[n] => m = n
      /\ DOMAIN waveOrder' = 1..Len(waveOrder') /\ Len(waveOrder') \in Nat
    <2>1. /\ waveOrder' \in Seq(Groups)
          /\ \A m, n \in DOMAIN waveOrder' : waveOrder'[m] = waveOrder'[n] => m = n
        BY <1>5, DeployAssumptions
    <2>2. DOMAIN waveOrder' = 1..Len(waveOrder') /\ Len(waveOrder') \in Nat
        BY <2>1
    <2>3. QED
        BY <2>1, <2>2
<1>7. ASSUME NEW g, NEW h, Earlier(g, h)
      PROVE  \E k, l \in DOMAIN waveOrder' : k < l /\ waveOrder'[k] = g /\ waveOrder'[l] = h
    BY <1>3, <1>7 DEF Earlier
<1>8. ASSUME NEW g, NEW h, NEW k \in DOMAIN waveOrder', NEW l \in DOMAIN waveOrder',
             k < l, waveOrder'[k] = g, waveOrder'[l] = h
      PROVE  Earlier(g, h)
    <2>1. g \in Known /\ h \in Known
        <3>1. g \in Known' /\ h \in Known'
            BY <1>8 DEF Known
        <3>2. QED
            BY <1>2, <3>1
    <2>2. PICK m, n \in DOMAIN waveOrder : waveOrder[m] = g /\ waveOrder[n] = h
        BY <2>1 DEF Known
    <2>3. CASE m < n
        BY <2>2, <2>3 DEF Earlier
    <2>4. CASE m = n
        <3>1. g = h
            BY <2>2, <2>4
        <3>2. k = l
            BY <1>6, <1>8, <3>1
        <3>3. QED
            BY <1>6, <1>8, <3>2
    <2>5. CASE n < m
        <3>1. PICK p, q \in DOMAIN waveOrder' : p < q /\ waveOrder'[p] = h /\ waveOrder'[q] = g
            BY <1>3, <2>2, <2>5
        <3>2. p = l /\ q = k
            BY <1>6, <1>8, <3>1
        <3>3. QED
            BY <1>6, <1>8, <3>1, <3>2
    <2>6. QED
        BY <1>4, <2>2, <2>3, <2>4, <2>5
<1> DEFINE Later(g, h) ==
               \E k, l \in DOMAIN waveOrder' : k < l /\ waveOrder'[k] = g /\ waveOrder'[l] = h
<1>9. \A g, h : Later(g, h) <=> Earlier(g, h)
    BY <1>7, <1>8
<1>10. Front' = [g \in Groups |-> {i \in Instances : Later(group[i], g)}]
    BY <1>1 DEF Front, Earlier
<1> HIDE DEF Later
<1>11. QED
    BY <1>2, <1>9, <1>10 DEF Front

LEMMA RestartGates ==
    ASSUME GInv, IInv', Restart
    PROVE  GInv'
<1>1. TypeOK /\ TypeOK' /\ SeedsAreKnown
    BY DEF GInv, IInv
<1>2. Front' = Front /\ Known' = Known
    BY <1>1, RestartKeepsOrder
<1>3. /\ recs' = recs /\ jobs' = {} /\ UNCHANGED <<group, Behind>>
      /\ \A u \in Tasks : tasks'[u] = IF tasks[u].pc = "unused" THEN tasks[u]
                                      ELSE [tasks[u] EXCEPT !.pc = "done", !.first = "", !.waves = <<>>,
                                                            !.todo = {}, !.batch = {}]
    BY DEF Restart, Behind
<1>4. ASSUME NEW u \in Tasks
      PROVE  /\ tasks'[u].deploy = tasks[u].deploy
             /\ tasks'[u] = tasks[u] \/ tasks'[u].pc \notin {"ready", "patching", "notify"}
    <2>1. tasks[u] \in Task
        BY <1>1 DEF TypeOK
    <2>2. CASE tasks[u].pc = "unused"
        BY <1>3, <2>2
    <2>3. CASE tasks[u].pc # "unused"
        <3>1. tasks'[u] = [tasks[u] EXCEPT !.pc = "done", !.first = "", !.waves = <<>>,
                                           !.todo = {}, !.batch = {}]
            BY <1>3, <2>3
        <3>2. QED
            BY <2>1, <3>1 DEF Task
    <2>4. QED
        BY <2>2, <2>3
<1>5. \A e \in Deploys :
         /\ recs'[e].mode = recs[e].mode /\ recs'[e].wave = recs[e].wave
         /\ recs'[e].status \in {"paused", "complete"} => recs'[e].status = recs[e].status
         /\ Behind[e] \subseteq Behind'[e]
    BY <1>3
<1>6. UNCHANGED group /\ jobs' \subseteq jobs
    BY <1>3
<1>7. QED
    BY <1>2, <1>4, <1>5, <1>6, QuietGates

\* A task leaves without having been a worker to the end: it fails, is cancelled,
\* sees its row stopped, or returns.
LEMMA QuietLeaveGates ==
    ASSUME GInv, IInv', NEW t \in Tasks, NEW pc \in {"closing", "cancelled", "done"}, Leaves(t, pc),
           UNCHANGED <<group, waveOrder>>, jobs' \subseteq jobs,
           \A e \in Deploys : Behind[e] \subseteq Behind'[e],
           recs' = recs \/ \E d \in Deploys : SetStatus(d, "failed")
    PROVE  GInv'
<1>1. TypeOK
    BY DEF GInv, IInv
<1>2. Front' = Front /\ Known' = Known
    BY DEF Front, Known, Earlier
<1>3. /\ tasks'[t].pc = pc /\ \A u \in Tasks : tasks'[u].deploy = tasks[u].deploy
      /\ \A u \in Tasks \ {t} : tasks'[u] = tasks[u]
    BY <1>1, LeavesEffect DEF TaskPcs
<1>4. ASSUME NEW e \in Deploys
      PROVE  /\ recs'[e].mode = recs[e].mode /\ recs'[e].wave = recs[e].wave
             /\ recs'[e].status \in {"paused", "complete"} => recs'[e].status = recs[e].status
    <2>1. CASE recs' = recs
        BY <2>1
    <2>2. ASSUME NEW d \in Deploys, SetStatus(d, "failed")
          PROVE  /\ recs'[e].mode = recs[e].mode /\ recs'[e].wave = recs[e].wave
                 /\ recs'[e].status \in {"paused", "complete"} => recs'[e].status = recs[e].status
        <3>1. /\ recs'[d].status = "failed" /\ recs'[d].mode = recs[d].mode
              /\ recs'[d].wave = recs[d].wave
              /\ \A f \in Deploys \ {d} : recs'[f] = recs[f]
            BY <1>1, <2>2, SetStatusRow
        <3>2. QED
            BY <3>1
    <2>3. QED
        BY <2>1, <2>2
<1>5. \A u \in Tasks :
         /\ tasks'[u].deploy = tasks[u].deploy
         /\ tasks'[u] = tasks[u] \/ tasks'[u].pc \notin {"ready", "patching", "notify"}
    BY <1>3
<1>6. QED
    BY <1>2, <1>4, <1>5, QuietGates

\* Steps that leave the tasks alone.
LEMMA QuietRowGates ==
    ASSUME GInv, IInv', UNCHANGED <<tasks, group, waveOrder, Behind>>, jobs' \subseteq jobs,
           \/ recs' = recs
           \/ \E d \in Deploys, s \in {"failed", "rolled_back"} : SetStatus(d, s)
    PROVE  GInv'
<1>1. TypeOK
    BY DEF GInv, IInv
<1>2. Front' = Front /\ Known' = Known
    BY DEF Front, Known, Earlier
<1>3. ASSUME NEW e \in Deploys
      PROVE  /\ recs'[e].mode = recs[e].mode /\ recs'[e].wave = recs[e].wave
             /\ recs'[e].status \in {"paused", "complete"} => recs'[e].status = recs[e].status
             /\ Behind[e] \subseteq Behind'[e]
    <2>1. CASE recs' = recs
        BY <2>1
    <2>2. ASSUME NEW d \in Deploys, NEW s \in {"failed", "rolled_back"}, SetStatus(d, s)
          PROVE  /\ recs'[e].mode = recs[e].mode /\ recs'[e].wave = recs[e].wave
                 /\ recs'[e].status \in {"paused", "complete"} => recs'[e].status = recs[e].status
                 /\ Behind[e] \subseteq Behind'[e]
        <3>1. /\ recs'[d].status = s /\ recs'[d].mode = recs[d].mode
              /\ recs'[d].wave = recs[d].wave
              /\ \A f \in Deploys \ {d} : recs'[f] = recs[f]
            BY <1>1, <2>2, SetStatusRow
        <3>2. QED
            BY <3>1
    <2>3. QED
        BY <2>1, <2>2
<1>4. \A u \in Tasks :
         /\ tasks'[u].deploy = tasks[u].deploy
         /\ tasks'[u] = tasks[u] \/ tasks'[u].pc \notin {"ready", "patching", "notify"}
    OBVIOUS
<1>5. QED
    BY <1>2, <1>3, <1>4, QuietGates

-----------------------------------------------------------------------------
(* The gates: the invariant.                                               *)

LEMMA InitGInv ==
    ASSUME GroupsStay
    PROVE  Init => GInv
<1> SUFFICES ASSUME Init
             PROVE  GInv
    OBVIOUS
<1>1. IInv
    BY InitIInv
<1>2. SeedsAreKnown
    BY DEF Init, GroupsStay, SeedsAreKnown, Known
<1>3. /\ \A d \in Deploys : recs[d].status = "none"
      /\ \A t \in Tasks : tasks[t].pc = "unused"
      /\ jobs = {}
    BY DEF Init, NoRow
<1>4. QED
    BY <1>1, <1>2, <1>3 DEF GInv, PausedHasPassed, ResumeHasPassed, WaveHasPassed, WavesAreAhead,
                            JobsHavePassed, CompleteHasPassed, Gating

LEMMA NextGInv ==
    ASSUME GroupsStay
    PROVE  GInv /\ [Next]_vars => GInv'
<1> SUFFICES ASSUME GInv, [Next]_vars
             PROVE  GInv'
    OBVIOUS
<1>1. IInv /\ IInv' /\ TypeOK
    BY NextIInv DEF GInv, IInv
<1>2. \A t \in Tasks : tasks[t].deploy \in Deploys
    BY <1>1 DEF TypeOK, Task
<1>3. ASSUME NEW t \in Tasks, TaskStep(t) \/ TaskFault(t)
      PROVE  GInv'
    <2>1. CASE EnterWave(t) \/ AllWavesDone(t) \/ GateFails(t) \/ WaveDone(t) \/ NextBatch(t)
        BY <1>1, <2>1, EnterWaveGates, AllWavesDoneGates, GateFailsGates, WaveDoneGates, NextBatchGates
    <2>2. CASE FastStart(t) \/ FastNext(t) \/ FastFindsNone(t) \/ FastDone(t)
        BY <1>1, <2>2, FastGates
    <2>3. CASE StopSeen(t)
        <3>1. \A e \in Deploys : Behind[e] \subseteq Behind'[e]
            <4>1. PICK d \in Deploys : d = tasks[t].deploy
                BY <1>2
            <4>2. HealthVerdict(t, {})
                BY <2>3 DEF StopSeen
            <4>3. QED
                BY <4>1, <4>2, CheckPasses
        <3>2. /\ Leaves(t, "done") /\ recs' = recs /\ jobs' \subseteq jobs
              /\ UNCHANGED <<group, waveOrder>>
            BY <2>3 DEF StopSeen, TaskFrame
        <3>3. QED
            BY <1>1, <3>1, <3>2, QuietLeaveGates
    <2>4. CASE CancelHandled(t) \/ TaskReturns(t) \/ TaskFault(t)
        <3>1. /\ \E pc \in {"closing", "cancelled", "done"} : Leaves(t, pc)
              /\ recs' = recs \/ SetStatus(tasks[t].deploy, "failed")
              /\ jobs' \subseteq jobs /\ UNCHANGED <<group, waveOrder, Behind>>
            BY <2>4 DEF CancelHandled, TaskReturns, TaskFault, TaskFrame, Behind
        <3>2. \A e \in Deploys : Behind[e] \subseteq Behind'[e]
            BY <3>1
        <3>3. recs' = recs \/ \E d \in Deploys : SetStatus(d, "failed")
            BY <1>2, <3>1
        <3>4. QED
            BY <1>1, <3>1, <3>2, <3>3, QuietLeaveGates
    <2>5. QED
        BY <1>3, <2>1, <2>2, <2>3, <2>4 DEF TaskStep
<1>4. ASSUME AbortCancel
      PROVE  GInv'
    <2>1. /\ recs' = recs /\ jobs' \subseteq jobs
          /\ UNCHANGED <<group, waveOrder, Behind>>
          /\ tasks' = tasks \/ \E t \in Tasks, pc \in {"closing", "cancelled", "done"} : Leaves(t, pc)
        BY <1>1, <1>4 DEF AbortCancel, JobsOf, TypeOK, Behind
    <2>2. \A e \in Deploys : Behind[e] \subseteq Behind'[e]
        BY <2>1
    <2>3. QED
        BY <1>1, <2>1, <2>2, QuietLeaveGates, QuietRowGates
<1>5. ASSUME AbortMark
      PROVE  GInv'
    <2>1. abortReq.deploy \in Deploys
        BY <1>1, <1>5 DEF AbortMark, TypeOK
    <2>2. /\ SetStatus(abortReq.deploy, "failed") /\ jobs' \subseteq jobs
          /\ UNCHANGED <<tasks, group, waveOrder, Behind>>
        BY <1>5 DEF AbortMark, Behind
    <2>3. QED
        BY <1>1, <2>1, <2>2, QuietRowGates
<1>6. ASSUME NEW d \in Deploys, RollbackStart(d)
      PROVE  GInv'
    <2>1. /\ SetStatus(d, "rolled_back") /\ jobs' \subseteq jobs
          /\ UNCHANGED <<tasks, group, waveOrder, Behind>>
        BY <1>6 DEF RollbackStart, Behind
    <2>2. QED
        BY <1>1, <2>1, QuietRowGates
<1>7. ASSUME \/ \E j \in Job : JobEnds(j)
             \/ \E d \in Deploys : AbortRead(d)
             \/ \E d \in Deploys, i \in Instances : RollbackOne(d, i)
             \/ UNCHANGED vars
      PROVE  GInv'
    <2>1. /\ recs' = recs /\ jobs' \subseteq jobs
          /\ UNCHANGED <<tasks, group, waveOrder, Behind>>
        BY <1>7 DEF JobEnds, AbortRead, RollbackOne, vars, Behind
    <2>2. QED
        BY <1>1, <2>1, QuietRowGates
<1>8. /\ \A i \in Instances, g \in Groups : ~Regroup(i, g)
      /\ \A order \in WaveOrders : ~EditRegistry(order)
    BY DEF GroupsStay, Regroup, EditRegistry
<1>9. ASSUME NEW d \in Deploys, NEW t \in Tasks, NEW tag \in Tags, NEW mode \in Modes,
             NEW force \in BOOLEAN, StartDeploy(d, t, tag, mode, force)
      PROVE  GInv'
    BY <1>1, <1>9, StartDeployGates
<1>10. ASSUME NEW d \in Deploys, NEW t \in Tasks, ContinueDeploy(d, t)
       PROVE  GInv'
    BY <1>1, <1>10, ContinueDeployGates
<1>11. QED
    BY <1>1, <1>3, <1>4, <1>5, <1>6, <1>7, <1>8, <1>9, <1>10, RestartGates DEF Next

LEMMA SpecGInv ==
    ASSUME GroupsStay
    PROVE  Spec => []GInv
<1>1. Init => GInv
    BY InitGInv
<1>2. GInv /\ [Next]_vars => GInv'
    BY NextGInv
<1>3. QED
    BY <1>1, <1>2, PTL DEF Spec

LEMMA GatesFromGInv == GInv => GateBeforeNextWave /\ CompleteMeansGated
<1> SUFFICES ASSUME GInv
             PROVE  GateBeforeNextWave /\ CompleteMeansGated
    OBVIOUS
<1>1. TypeOK
    BY DEF GInv, IInv
<1>2. ASSUME NEW j \in jobs, recs[tasks[j.by].deploy].mode \notin {"fast"} \cup Groups,
             NEW i \in Instances, Earlier(group[i], group[j.inst])
      PROVE  i \in gated[tasks[j.by].deploy] \cup overlooked[tasks[j.by].deploy]
    <2>1. tasks[j.by].deploy \in Deploys /\ group[j.inst] \in Groups
        BY <1>1 DEF TypeOK, Job, Task
    <2>2. Front[group[j.inst]] \subseteq Behind[tasks[j.by].deploy]
        BY <1>2, <2>1 DEF GInv, JobsHavePassed, Gating
    <2>3. i \in Front[group[j.inst]]
        BY <1>1, <1>2, <2>1, FrontProperties
    <2>4. QED
        BY <2>1, <2>2, <2>3 DEF Behind
<1>3. GateBeforeNextWave
    BY <1>2 DEF GateBeforeNextWave
<1>4. CompleteMeansGated
    BY DEF GInv, CompleteHasPassed, CompleteMeansGated, Known, Behind
<1>5. QED
    BY <1>3, <1>4

\* The health gate, for any fleet and registry that nobody edits: whatever pauses,
\* continues, aborts, rollbacks, faults and restarts happen, no thread patches an
\* instance before every instance of the earlier waves passed its last check, but for
\* those of a wave that a failing list hid and that was not checked since.
THEOREM GatesHold ==
    ASSUME GroupsStay
    PROVE  Spec => []GateBeforeNextWave
<1>1. GInv => GateBeforeNextWave
    BY GatesFromGInv
<1>2. QED
    BY <1>1, SpecGInv, PTL

\* While nobody edits the groups, a normal deploy that shows "complete" had every
\* instance of every registered group pass a check, in whichever of its tasks, but for
\* those that a failing list hid from it.
THEOREM CompleteHolds ==
    ASSUME GroupsStay
    PROVE  Spec => []CompleteMeansGated
<1>1. GInv => CompleteMeansGated
    BY GatesFromGInv
<1>2. QED
    BY <1>1, SpecGInv, PTL

\* Where the resources can always be listed, nobody is overlooked.
NobodyOverlooked == \A d \in Deploys : overlooked[d] = {}

LEMMA NextOverlooksNobody ==
    ASSUME "list" \notin Controls
    PROVE  TypeOK /\ NobodyOverlooked /\ [Next]_vars => NobodyOverlooked'
<1> SUFFICES ASSUME TypeOK, NobodyOverlooked, [Next]_vars
             PROVE  NobodyOverlooked'
    OBVIOUS
<1>1. ASSUME NEW t \in Tasks, NEW n, PassesOver(t, n)
      PROVE  NobodyOverlooked'
    <2> DEFINE skipped == {Upcoming(t)[k] : k \in 1..n}
               hidden == {i \in Instances : group[i] \in skipped}
    <2>1. /\ \A g \in skipped : MayLookEmpty(Members(g))
          /\ overlooked' = [overlooked EXCEPT ![tasks[t].deploy] = @ \cup hidden]
        BY <1>1 DEF PassesOver
    <2> HIDE DEF skipped
    <2>2. hidden = {}
        BY <2>1 DEF MayLookEmpty, Members
    <2> HIDE DEF hidden
    <2>3. QED
        BY <2>1, <2>2 DEF NobodyOverlooked, TypeOK
<1>2. ASSUME NEW t \in Tasks, NEW bad, HealthVerdict(t, bad)
      PROVE  NobodyOverlooked'
    BY <1>2 DEF HealthVerdict, NobodyOverlooked, TypeOK
<1>3. ASSUME overlooked' = overlooked
      PROVE  NobodyOverlooked'
    BY <1>3 DEF NobodyOverlooked
<1>4. ASSUME NEW t \in Tasks, TaskStep(t) \/ TaskFault(t)
      PROVE  NobodyOverlooked'
    <2>1. \/ \E n : PassesOver(t, n)
          \/ \E bad : HealthVerdict(t, bad)
          \/ overlooked' = overlooked
        BY <1>4 DEF TaskStep, EnterWave, AllWavesDone, GateFails, WaveDone, StopSeen, NextBatch, FastStart,
                    FastFindsNone, FastNext, FastDone, CancelHandled, TaskReturns, TaskFault
    <2>2. QED
        BY <1>1, <1>2, <1>3, <2>1
<1>5. QED
    BY <1>3, <1>4 DEF Next, StartDeploy, ContinueDeploy, RollbackStart, RollbackOne, AbortRead, AbortMark,
                      AbortCancel, JobEnds, Regroup, EditRegistry, Restart, vars

\* The gate without exception: where the resources can always be listed, no thread
\* patches an instance before every instance of the earlier waves passed a check.
THEOREM GatesHoldWhenListed ==
    ASSUME GroupsStay, "list" \notin Controls
    PROVE  Spec => [](\A j \in jobs :
                        LET d == tasks[j.by].deploy
                        IN  recs[d].mode \notin {"fast"} \cup Groups =>
                                \A i \in Instances :
                                    Earlier(group[i], group[j.inst]) => i \in gated[d])
<1> DEFINE Strict == \A j \in jobs :
                        LET d == tasks[j.by].deploy
                        IN  recs[d].mode \notin {"fast"} \cup Groups =>
                                \A i \in Instances :
                                    Earlier(group[i], group[j.inst]) => i \in gated[d]
<1>1. Init => NobodyOverlooked
    BY DEF Init, NobodyOverlooked
<1>2. TypeOK /\ NobodyOverlooked /\ [Next]_vars => NobodyOverlooked'
    BY NextOverlooksNobody
<1>3. TypeOK /\ NobodyOverlooked /\ GateBeforeNextWave => Strict
    BY DEF TypeOK, Job, Task, NobodyOverlooked, GateBeforeNextWave
<1> HIDE DEF Strict
<1>4. Spec => []Strict
    BY <1>1, <1>2, <1>3, TypeCorrect, GatesHold, PTL DEF Spec
<1>5. QED
    BY <1>4 DEF Strict

-----------------------------------------------------------------------------
(* The orchestrator implements FleetRelease.  Every step is mapped by way  *)
(* of what it does to the rows, the images and the checks; a thread that   *)
(* patches an instance and a task that writes a row are those of a release *)
(* that may change the fleet.                                              *)

\* What an abort or a rollback is about has a row.
RequestsHaveRows ==
    /\ abortReq.pc # "idle" => recs[abortReq.deploy].status # "none"
    /\ \A d \in Deploys : rollback[d] # {} => recs[d].status # "none"

FleetSame == UNCHANGED <<image, rollback, group, waveOrder>>

LEMMA RowMarked ==
    ASSUME TypeOK, NEW d \in Deploys, NEW s, SetStatus(d, s)
    PROVE  Release!Marks(d, s) /\ recs'[d].status = s /\ recs'[d].mode = recs[d].mode
<1> DEFINE row == [recs[d] EXCEPT !.status = s]
<1>1. recs \in [Deploys -> Rec] /\ recs[d] \in Rec
    BY DEF TypeOK
<1>2. /\ row.status = s /\ row.tag = recs[d].tag /\ row.prev = recs[d].prev
      /\ row.mode = recs[d].mode
    BY <1>1 DEF Rec
<1>3. recs' = [recs EXCEPT ![d] = row]
    BY <1>1 DEF SetStatus
<1> HIDE DEF row
<1>4. recs'[d] = row /\ \A e \in Deploys \ {d} : recs'[e] = recs[e]
    BY <1>1, <1>3
<1>5. QED
    BY <1>2, <1>4 DEF Release!Marks, ReleaseRows

LEMMA RowWithWaveMarked ==
    ASSUME TypeOK, NEW d \in Deploys, NEW s, NEW g,
           recs' = [recs EXCEPT ![d].status = s, ![d].wave = g]
    PROVE  Release!Marks(d, s) /\ recs'[d].status = s /\ recs'[d].mode = recs[d].mode
<1> DEFINE row == [recs[d] EXCEPT !.status = s, !.wave = g]
<1>1. recs \in [Deploys -> Rec] /\ recs[d] \in Rec
    BY DEF TypeOK
<1>2. /\ row.status = s /\ row.tag = recs[d].tag /\ row.prev = recs[d].prev
      /\ row.mode = recs[d].mode
    BY <1>1 DEF Rec
<1>3. recs' = [recs EXCEPT ![d] = row]
    BY <1>1
<1> HIDE DEF row
<1>4. recs'[d] = row /\ \A e \in Deploys \ {d} : recs'[e] = recs[e]
    BY <1>1, <1>3
<1>5. QED
    BY <1>2, <1>4 DEF Release!Marks, ReleaseRows

\* Who comes before whom, and who is listed, is the registry's and the groups'.
LEMMA FleetIsSame ==
    ASSUME FleetSame
    PROVE  UNCHANGED Release!Fleet /\ Before' = Before /\ Listed' = Listed
<1>1. Before' = Before /\ Listed' = Listed
    BY DEF FleetSame, Before, Listed, Earlier
<1>2. QED
    BY <1>1 DEF FleetSame, Release!Fleet

LEMMA BeforeAndListed ==
    ASSUME TypeOK
    PROVE  /\ \A i \in Instances : Before[i] = Front[group[i]]
           /\ Before = [i \in Instances |-> Front[group[i]]]
           /\ Listed = {i \in Instances : group[i] \in Known}
BY DEF TypeOK, Before, Front, Listed, Known

\* The waves that a task passes over are what its release misses.
LEMMA PassesOverMisses ==
    ASSUME TypeOK, NEW t \in Tasks, NEW d \in Deploys, d = tasks[t].deploy, NEW n,
           PassesOver(t, n) \/ overlooked' = overlooked
    PROVE  Release!Misses(d)
<1>1. CASE PassesOver(t, n)
    <2> DEFINE skipped == {Upcoming(t)[k] : k \in 1..n}
               S == {i \in Instances : group[i] \in skipped}
    <2>1. /\ \A g \in skipped : MayLookEmpty(Members(g))
          /\ overlooked' = [overlooked EXCEPT ![d] = @ \cup S]
        BY <1>1 DEF PassesOver
    <2> HIDE DEF skipped
    <2>2. ASSUME NEW i \in S
          PROVE  "list" \in Controls
        <3>1. i \in Members(group[i])
            BY <2>2 DEF Members
        <3>2. QED
            BY <2>1, <2>2, <3>1 DEF MayLookEmpty
    <2>3. S \in SUBSET Instances
        OBVIOUS
    <2> HIDE DEF S
    <2>4. QED
        BY <2>1, <2>2, <2>3 DEF Release!Misses
<1>2. CASE overlooked' = overlooked
    <2>1. overlooked' = [overlooked EXCEPT ![d] = @ \cup {}]
        BY <1>2 DEF TypeOK
    <2>2. QED
        BY <2>1 DEF Release!Misses
<1>3. QED
    BY <1>1, <1>2

\* A task that works, and a thread, are of a release that may change the fleet.
LEMMA WorkerMoves ==
    ASSUME IInv, NEW t \in Tasks, Working(t)
    PROVE  tasks[t].deploy \in Deploys /\ Release!Moving(tasks[t].deploy)
<1>1. tasks[t].deploy \in Deploys
    BY DEF IInv, TypeOK, Task
<1>2. recs[tasks[t].deploy].status \notin {"none", "paused", "complete"}
    BY DEF IInv, WorkerHoldsRow, TasksHaveRows, Working
<1>3. QED
    BY <1>1, <1>2 DEF Release!Moving, Release!Exists, ReleaseRows

LEMMA ThreadMoves ==
    ASSUME GInv, NEW j \in jobs
    PROVE  /\ j.by \in Tasks /\ j.inst \in Instances
           /\ tasks[j.by].deploy \in Deploys
           /\ Release!Moving(tasks[j.by].deploy)
           /\ recs[tasks[j.by].deploy].tag \in Tags
           /\ ReleaseRows[tasks[j.by].deploy].tag = recs[tasks[j.by].deploy].tag
           /\ Release!Gated(tasks[j.by].deploy) => Before[j.inst] \subseteq Behind[tasks[j.by].deploy]
<1>1. IInv /\ TypeOK
    BY DEF GInv, IInv
<1>2. j.by \in Tasks /\ j.inst \in Instances
    BY <1>1 DEF TypeOK, Job
<1>3. PICK d \in Deploys : d = tasks[j.by].deploy
    BY <1>1, <1>2 DEF TypeOK, Task
<1>4. recs[d].status # "none"
    BY <1>1, <1>2, <1>3 DEF IInv, TasksHaveRows, JobsAreSubmitted
<1>5. recs[d].status \notin {"paused", "complete"}
    BY <1>1, <1>3, AtRestFromIInv DEF AtRestIsQuiet
<1>6. recs[d].tag \in Tags /\ ReleaseRows[d].tag = recs[d].tag
    BY <1>1 DEF TypeOK, Rec, ReleaseRows
<1>7. ASSUME Release!Gated(d)
      PROVE  Before[j.inst] \subseteq Behind[d]
    <2>1. recs[d].mode \notin {"fast"} \cup Groups
        BY <1>7, DeployAssumptions DEF Release!Gated, ReleaseRows, NamedModes
    <2>2. \A i \in Instances : Earlier(group[i], group[j.inst]) => i \in Behind[d]
        BY <1>3, <2>1, GatesFromGInv DEF GateBeforeNextWave, Behind
    <2>3. QED
        BY <1>2, <2>2 DEF Before
<1>8. QED
    BY <1>2, <1>3, <1>4, <1>5, <1>6, <1>7 DEF Release!Moving, Release!Exists, ReleaseRows

-----------------------------------------------------------------------------
(* FleetRelease: the steps.                                                *)

\* A tag that is the most common one is somebody's.
LEMMA MostCommonIsThere ==
    ASSUME TypeOK, NEW S \in SUBSET Instances, S # {}, NEW tag, IsMostCommonTag(tag, S)
    PROVE  tag \in {image[i] : i \in Instances}
<1> DEFINE Of(v) == {i \in S : image[i] = v}
<1>1. \A v : IsFiniteSet(Of(v))
    <2>1. IsFiniteSet(Instances)
        BY DeployAssumptions
    <2>2. \A v : Of(v) \in SUBSET Instances
        OBVIOUS
    <2>3. QED
        BY <2>1, <2>2, FS_Subset
<1>2. PICK i \in S : image[i] \in Tags
    BY DEF TypeOK
<1>3. Cardinality(Of(image[i])) <= Cardinality(Of(tag))
    BY <1>2 DEF IsMostCommonTag
<1>4. Of(image[i]) # {}
    BY <1>2
<1> HIDE DEF Of
<1>5. Cardinality(Of(image[i])) # 0 /\ Cardinality(Of(image[i])) \in Nat /\ Cardinality(Of(tag)) \in Nat
    BY <1>1, <1>4, FS_EmptySet, FS_CardinalityType
<1>6. Of(tag) # {}
    <2>1. Cardinality(Of(tag)) # 0
        BY <1>3, <1>5
    <2>2. QED
        BY <1>1, <2>1, FS_EmptySet
<1>7. QED
    BY <1>6 DEF Of

LEMMA StartsRelease ==
    ASSUME TypeOK, NEW d \in Deploys, NEW t \in Tasks, NEW tag \in Tags, NEW mode \in Modes,
           NEW force \in BOOLEAN, StartDeploy(d, t, tag, mode, force)
    PROVE  Release!Start(d)
<1>1. \A e \in Deploys : ~Release!Active(e)
    BY DEF StartDeploy, Active, ActiveStatuses, InProgress, Release!Active, ReleaseRows
<1>2. ~Release!Exists(d)
    BY DEF StartDeploy, IsNextRow, Created, Release!Exists, ReleaseRows
<1>3. PICK prev \in Tags :
         /\ IsMostCommonTag(prev, Targets(mode))
         /\ recs' = [recs EXCEPT ![d] = [status |-> "pending", tag |-> tag,
                                         prev |-> prev, mode |-> mode, wave |-> ""]]
    BY DEF StartDeploy
<1>4. prev \in {image[i] : i \in Instances}
    <2>1. Targets(mode) \in SUBSET Instances /\ Targets(mode) # {}
        BY DEF StartDeploy, Targets, Members
    <2>2. QED
        BY <1>3, <2>1, MostCommonIsThere
<1>5. ReleaseRows' = [ReleaseRows EXCEPT ![d] = [status |-> "pending", tag |-> tag, prev |-> prev,
                                                 mode |-> mode]]
    BY <1>3 DEF TypeOK, ReleaseRows
<1>6. FleetSame /\ UNCHANGED <<gated, overlooked>>
    BY DEF StartDeploy, FleetSame
<1>7. UNCHANGED <<Release!Fleet, gated, overlooked>>
    BY <1>6, FleetIsSame
<1>8. QED
    BY <1>1, <1>2, <1>4, <1>5, <1>7 DEF Release!Start

LEMMA RequestsImplement ==
    ASSUME GInv, RequestsHaveRows,
           \/ \E d \in Deploys, t \in Tasks : ContinueDeploy(d, t)
           \/ \E d \in Deploys : RollbackStart(d)
           \/ \E d \in Deploys, i \in Instances : RollbackOne(d, i)
           \/ AbortMark
    PROVE  Release!Next
<1>1. TypeOK
    BY DEF GInv, IInv
<1>2. ASSUME NEW d \in Deploys, NEW t \in Tasks, ContinueDeploy(d, t)
      PROVE  Release!Continue(d)
    <2>1. SetStatus(d, "rolling") /\ FleetSame /\ UNCHANGED <<gated, overlooked>> /\ recs[d].status = "paused"
        BY <1>2 DEF ContinueDeploy, FleetSame
    <2>2. Release!Marks(d, "rolling") /\ UNCHANGED <<Release!Fleet, gated, overlooked>>
        BY <1>1, <2>1, RowMarked, FleetIsSame
    <2>3. QED
        BY <2>1, <2>2 DEF Release!Continue, ReleaseRows
<1>3. ASSUME NEW d \in Deploys, RollbackStart(d)
      PROVE  Release!RollBack(d)
    <2>1. /\ SetStatus(d, "rolled_back") /\ d \in Active
          /\ UNCHANGED <<image, group, waveOrder, gated, overlooked>>
          /\ \/ rollback' = [rollback EXCEPT ![d] = @ \cup {i \in Instances : image[i] = recs[d].tag}]
             \/ "list" \in Controls /\ UNCHANGED rollback
        BY <1>3 DEF RollbackStart, IsActiveDeploy
    <2>2. Release!Marks(d, "rolled_back")
        BY <1>1, <2>1, RowMarked
    <2>3. Release!Active(d) /\ ReleaseRows[d].tag = recs[d].tag
        BY <2>1 DEF Active, ActiveStatuses, InProgress, Release!Active, ReleaseRows
    <2>4. Before' = Before /\ Listed' = Listed
        BY <2>1 DEF Before, Listed, Earlier
    <2>5. QED
        BY <2>1, <2>2, <2>3, <2>4 DEF Release!RollBack
<1>4. ASSUME NEW d \in Deploys, NEW i \in Instances, RollbackOne(d, i)
      PROVE  Release!TakeBack(d, i)
    <2>1. /\ i \in rollback[d] /\ UNCHANGED <<recs, group, waveOrder, gated, overlooked>>
          /\ rollback' = [rollback EXCEPT ![d] = @ \ {i}]
          /\ image' \in {image, [image EXCEPT ![i] = recs[d].prev]}
        BY <1>4 DEF RollbackOne
    <2>2. recs[d].status # "none"
        BY <2>1 DEF RequestsHaveRows
    <2>3. /\ Release!Exists(d) /\ ReleaseRows[d].prev = recs[d].prev /\ ReleaseRows' = ReleaseRows
          /\ Before' = Before /\ Listed' = Listed
        BY <2>1, <2>2 DEF Release!Exists, ReleaseRows, Before, Listed, Earlier
    <2>4. QED
        BY <2>1, <2>3 DEF Release!TakeBack
<1>5. ASSUME AbortMark
      PROVE  \E d \in Deploys : Release!Fail(d)
    <2>1. PICK d \in Deploys : d = abortReq.deploy
        BY <1>1, <1>5 DEF AbortMark, TypeOK
    <2>2. SetStatus(d, "failed") /\ FleetSame /\ UNCHANGED <<gated, overlooked>>
        BY <1>5, <2>1 DEF AbortMark, FleetSame
    <2>3. Release!Exists(d)
        BY <1>5, <2>1 DEF AbortMark, RequestsHaveRows, Release!Exists, ReleaseRows
    <2>4. QED
        BY <1>1, <2>2, <2>3, RowMarked, FleetIsSame DEF Release!Fail
<1>6. QED
    BY <1>2, <1>3, <1>4, <1>5 DEF Release!Next

LEMMA MarkingTasksImplement ==
    ASSUME GInv, NEW t \in Tasks,
           EnterWave(t) \/ FastStart(t) \/ TaskFault(t) \/ CancelHandled(t)
    PROVE  Release!Next
<1>1. IInv /\ TypeOK
    BY DEF GInv, IInv
<1>2. PICK d \in Deploys : d = tasks[t].deploy
    BY <1>1 DEF TypeOK, Task
<1>3. /\ FleetSame /\ gated' = gated
      /\ ~EnterWave(t) => overlooked' = overlooked
    BY DEF EnterWave, FastStart, TaskFault, CancelHandled, TaskFrame, FleetSame
<1>4. UNCHANGED <<Release!Fleet, gated>>
    BY <1>3, FleetIsSame
<1>9. Release!Misses(d)
    <2>1. overlooked' = overlooked \/ \E n : PassesOver(t, n)
        BY <1>3 DEF EnterWave
    <2>2. QED
        BY <1>1, <1>2, <2>1, PassesOverMisses
<1>5. ASSUME EnterWave(t)
      PROVE  Release!Advance(d)
    <2>1. Working(t)
        BY <1>5 DEF EnterWave, Working
    <2>2. PICK k \in DOMAIN Upcoming(t) :
             LET ws    == Upcoming(t)
                 g     == ws[k]
                 first == IF tasks[t].pc = "ready" THEN ws[1] ELSE tasks[t].first
             IN  recs' = [recs EXCEPT
                            ![tasks[t].deploy].status = IF g = first THEN "canary"
                                                                     ELSE "rolling",
                            ![tasks[t].deploy].wave = g]
        BY <1>5 DEF EnterWave
    <2> DEFINE g     == Upcoming(t)[k]
               first == IF tasks[t].pc = "ready" THEN Upcoming(t)[1] ELSE tasks[t].first
               s     == IF g = first THEN "canary" ELSE "rolling"
    <2>3. recs' = [recs EXCEPT ![d].status = s, ![d].wave = g] /\ s \in {"canary", "rolling"}
        BY <1>2, <2>2
    <2> HIDE DEF g, first, s
    <2>4. Release!Marks(d, "canary") \/ Release!Marks(d, "rolling")
        BY <1>1, <2>3, RowWithWaveMarked
    <2>5. QED
        BY <1>1, <1>2, <1>4, <1>9, <2>1, <2>4, WorkerMoves DEF Release!Advance
<1>6. ASSUME FastStart(t)
      PROVE  Release!Advance(d)
    <2>1. Working(t) /\ recs' = [recs EXCEPT ![d].status = "rolling", ![d].wave = "all"]
        BY <1>2, <1>6 DEF FastStart, Working
    <2>2. Release!Marks(d, "rolling")
        BY <1>1, <2>1, RowWithWaveMarked
    <2>3. QED
        BY <1>1, <1>2, <1>4, <1>9, <2>1, <2>2, WorkerMoves DEF Release!Advance
<1>7. ASSUME TaskFault(t) \/ CancelHandled(t)
      PROVE  Release!Fail(d)
    <2>1. tasks[t].pc # "unused" /\ SetStatus(d, "failed")
        BY <1>2, <1>7 DEF TaskFault, CancelHandled, Working
    <2>2. Release!Exists(d)
        BY <1>1, <1>2, <2>1 DEF IInv, TasksHaveRows, Release!Exists, ReleaseRows
    <2>3. overlooked' = overlooked
        BY <1>7 DEF TaskFault, CancelHandled, TaskFrame
    <2>4. QED
        BY <1>1, <1>4, <2>1, <2>2, <2>3, RowMarked DEF Release!Fail
<1>8. QED
    BY <1>5, <1>6, <1>7 DEF Release!Next

LEMMA EndingTasksImplement ==
    ASSUME GInv, IInv', NEW t \in Tasks, AllWavesDone(t) \/ FastFindsNone(t) \/ FastDone(t)
    PROVE  Release!Next
<1>1. IInv /\ TypeOK
    BY DEF GInv, IInv
<1>2. PICK d \in Deploys : d = tasks[t].deploy
    BY <1>1 DEF TypeOK, Task
<1>3. /\ FleetSame /\ gated' = gated /\ Working(t)
      /\ recs' = [recs EXCEPT ![d].status = "complete", ![d].wave = ""]
    BY <1>2 DEF AllWavesDone, FastFindsNone, FastDone, BatchPatched, TaskFrame, FleetSame, Working
<1>8. Release!Misses(d)
    <2>1. PassesOver(t, Len(Upcoming(t))) \/ overlooked' = overlooked
        BY DEF AllWavesDone, FastFindsNone, FastDone
    <2>2. QED
        BY <1>1, <1>2, <2>1, PassesOverMisses
<1>4. UNCHANGED <<Release!Fleet, gated>> /\ Release!Marks(d, "complete") /\ Release!Moving(d)
    BY <1>1, <1>2, <1>3, FleetIsSame, RowWithWaveMarked, WorkerMoves
<1>5. ASSUME ReleaseRows[d].mode = "normal"
      PROVE  Listed \subseteq gated[d] \cup overlooked'[d]
    <2>1. recs[d].mode = "normal"
        BY <1>5 DEF ReleaseRows
    <2>2. AllWavesDone(t)
        BY <1>2, <2>1 DEF FastFindsNone, FastDone, IsFast
    <2>3. d \in Gating
        BY <2>1, DeployAssumptions DEF Gating, NamedModes
    <2>4. CompleteHasPassed'
        BY <2>2, AllWavesDoneGates DEF GInv
    <2>5. recs'[d].status = "complete" /\ recs'[d].mode = "normal"
        BY <1>1, <1>3, <2>1, RowWithWaveMarked
    <2>6. \A i \in Instances : group'[i] \in Known' => i \in Behind'[d]
        BY <2>4, <2>5 DEF CompleteHasPassed
    <2>7. group' = group /\ Known' = Known
        BY <1>3 DEF FleetSame, Known
    <2>8. Behind'[d] = gated[d] \cup overlooked'[d]
        BY <1>3 DEF Behind
    <2>9. QED
        BY <1>1, <2>6, <2>7, <2>8, BeforeAndListed
<1>6. Release!Complete(d)
    BY <1>4, <1>5, <1>8 DEF Release!Complete
<1>7. QED
    BY <1>6 DEF Release!Next

LEMMA ChecksImplement ==
    ASSUME GInv, NEW t \in Tasks,
           GateFails(t) \/ WaveDone(t) \/ StopSeen(t) \/ NextBatch(t)
    PROVE  Release!Next
<1>1. IInv /\ TypeOK
    BY DEF GInv, IInv
<1>2. PICK d \in Deploys : d = tasks[t].deploy
    BY <1>1 DEF TypeOK, Task
<1>3. FleetSame /\ tasks[t].batch \in SUBSET Instances
    BY <1>1 DEF GateFails, WaveDone, StopSeen, NextBatch, TaskFrame, FleetSame, TypeOK, Task
<1>4. UNCHANGED Release!Fleet
    BY <1>3, FleetIsSame
<1>5. PICK bad \in SUBSET tasks[t].batch : HealthVerdict(t, bad) /\ (~GateFails(t) => bad = {})
    BY DEF GateFails, WaveDone, StopSeen, NextBatch
<1>6. /\ gated' = [gated EXCEPT ![d] = (@ \ bad) \cup (tasks[t].batch \ bad)] /\ Working(t)
      /\ overlooked' = [overlooked EXCEPT ![d] = @ \ tasks[t].batch]
    BY <1>2, <1>5 DEF HealthVerdict, BatchPatched, Working
<1>7. Release!Moving(d) /\ gated[d] \in SUBSET Instances
    BY <1>1, <1>2, <1>6, WorkerMoves DEF TypeOK
<1>8. ASSUME GateFails(t)
      PROVE  Release!Pause(d)
    <2>1. Release!Marks(d, "paused")
        BY <1>1, <1>2, <1>8, RowMarked DEF GateFails
    <2>2. \E S \in SUBSET Instances : gated' = [gated EXCEPT ![d] = S]
        BY <1>3, <1>6, <1>7
    <2>3. QED
        BY <1>3, <1>4, <1>6, <1>7, <2>1, <2>2 DEF Release!Pause
<1>9. ASSUME ~GateFails(t)
      PROVE  Release!Check(d)
    <2>1. gated' = [gated EXCEPT ![d] = @ \cup tasks[t].batch]
        <3>1. (gated[d] \ bad) \cup (tasks[t].batch \ bad) = gated[d] \cup tasks[t].batch
            BY <1>5, <1>9
        <3>2. QED
            BY <1>6, <3>1
    <2>2. ReleaseRows' = ReleaseRows
        BY <1>9 DEF WaveDone, StopSeen, NextBatch, ReleaseRows
    <2>3. QED
        BY <1>3, <1>4, <1>6, <1>7, <2>1, <2>2 DEF Release!Check
<1>10. QED
    BY <1>8, <1>9 DEF Release!Next

\* A thread that ends rolls out the image of its instance, or nothing.
LEMMA ThreadsImplement ==
    ASSUME GInv, NEW j \in Job, JobEnds(j)
    PROVE  [Release!Next]_(Release!vars)
<1>1. TypeOK
    BY DEF GInv, IInv
<1>2. /\ j \in jobs /\ UNCHANGED <<recs, rollback, group, waveOrder, gated, overlooked>>
      /\ image' \in {image, [image EXCEPT ![j.inst] = recs[tasks[j.by].deploy].tag]}
    BY DEF JobEnds
<1>3. PICK d \in Deploys, i \in Instances : d = tasks[j.by].deploy /\ i = j.inst
    BY <1>2, ThreadMoves
<1>4. /\ Release!Moving(d) /\ recs[d].tag \in Tags /\ ReleaseRows[d].tag = recs[d].tag
      /\ Release!Gated(d) => Before[i] \subseteq gated[d] \cup overlooked[d]
    BY <1>2, <1>3, ThreadMoves DEF Behind
<1>5. ReleaseRows' = ReleaseRows /\ Before' = Before /\ Listed' = Listed
    BY <1>2 DEF ReleaseRows, Before, Listed, Earlier
<1>6. CASE image' = image
    BY <1>2, <1>5, <1>6 DEF Release!vars
<1>7. CASE image' = [image EXCEPT ![i] = recs[d].tag]
    <2>1. /\ image' \in [Instances -> Tags] /\ image'[i] = ReleaseRows[d].tag
          /\ \A k \in Instances \ {i} : image'[k] = image[k]
        BY <1>1, <1>4, <1>7 DEF TypeOK
    <2>2. Release!RollOut(i)
        BY <1>2, <1>4, <1>5, <2>1 DEF Release!RollOut, Release!RollsOut
    <2>3. QED
        BY <2>2 DEF Release!Next
<1>8. QED
    BY <1>2, <1>3, <1>6, <1>7

\* A restart rolls out what its lost threads had already asked for.
LEMMA RestartImplements ==
    ASSUME GInv, IInv', Restart
    PROVE  Release!Next
<1>1. TypeOK /\ TypeOK' /\ SeedsAreKnown
    BY DEF GInv, IInv
<1>2. /\ UNCHANGED <<recs, group, gated, overlooked>>
      /\ rollback' = Release!Nothing
    BY DEF Restart, Release!Nothing
<1>3. ReleaseRows' = ReleaseRows
    BY <1>2 DEF ReleaseRows
<1>4. Before' = Before /\ Listed' = Listed
    <2>1. Front' = Front /\ Known' = Known
        BY <1>1, RestartKeepsOrder
    <2>2. /\ Before = [i \in Instances |-> Front[group[i]]]
          /\ Listed = {i \in Instances : group[i] \in Known}
        BY <1>1, BeforeAndListed
    <2>3. /\ Before' = [i \in Instances |-> Front'[group'[i]]]
          /\ Listed' = {i \in Instances : group'[i] \in Known'}
        <3>1. (TypeOK => /\ Before = [i \in Instances |-> Front[group[i]]]
                         /\ Listed = {i \in Instances : group[i] \in Known})'
            BY BeforeAndListed, PTL
        <3>2. QED
            BY <1>1, <3>1
    <2>4. QED
        BY <1>2, <2>1, <2>2, <2>3
<1>5. PICK applied \in SUBSET jobs :
         /\ \A j, k \in applied : j.inst = k.inst => j = k
         /\ image' = [i \in Instances |->
                        IF \E j \in applied : j.inst = i
                        THEN recs[tasks[(CHOOSE j \in applied : j.inst = i).by].deploy].tag
                        ELSE image[i]]
    BY DEF Restart
<1> DEFINE S == {i \in Instances : \E j \in applied : j.inst = i}
<1>6. image' \in [Instances -> Tags] /\ \A i \in Instances \ S : image'[i] = image[i]
    BY <1>1, <1>5 DEF TypeOK
<1>7. ASSUME NEW i \in S
      PROVE  \E d \in Deploys :
                 /\ Release!Moving(d) /\ image'[i] = ReleaseRows[d].tag
                 /\ Release!Gated(d) => Before[i] \subseteq gated[d] \cup overlooked[d]
    <2>1. PICK j \in applied : j.inst = i /\ j = CHOOSE k \in applied : k.inst = i
        OBVIOUS
    <2>2. image'[i] = recs[tasks[j.by].deploy].tag
        BY <1>5, <2>1
    <2>3. QED
        BY <2>1, <2>2, ThreadMoves DEF Behind
<1> HIDE DEF S
<1>8. Release!RollsOut(S)
    BY <1>2, <1>3, <1>4, <1>6, <1>7 DEF Release!RollsOut
<1>9. S \in SUBSET Instances
    BY DEF S
<1>10. Release!Crash
    BY <1>2, <1>8, <1>9 DEF Release!Crash
<1>11. QED
    BY <1>10 DEF Release!Next

-----------------------------------------------------------------------------
(* What requests are about keeps its row.                                  *)

LEMMA RowsStay ==
    ASSUME TypeOK, [Next]_vars, NEW e \in Deploys, recs[e].status # "none"
    PROVE  recs'[e].status # "none"
<1>1. \A t \in Tasks : tasks[t].deploy \in Deploys
    BY DEF TypeOK, Task
<1>2. ASSUME NEW d \in Deploys, NEW s \in Statuses \ {"none"}, SetStatus(d, s)
      PROVE  recs'[e].status # "none"
    BY <1>2, SetStatusRow
<1>3. ASSUME NEW d \in Deploys, NEW t \in Tasks, NEW tag \in Tags, NEW mode \in Modes,
             NEW force \in BOOLEAN, StartDeploy(d, t, tag, mode, force)
      PROVE  recs'[e].status # "none"
    BY <1>3 DEF StartDeploy, IsNextRow, Created, TypeOK
<1>4. ASSUME NEW t \in Tasks, TaskStep(t) \/ TaskFault(t)
      PROVE  recs'[e].status # "none"
    <2>1. CASE EnterWave(t) \/ FastStart(t)
        <3>1. /\ recs'[tasks[t].deploy].status \in InProgress
              /\ \A f \in Deploys \ {tasks[t].deploy} : recs'[f] = recs[f]
            BY <2>1, EnterWaveEffect, FastStartEffect DEF InProgress
        <3>2. QED
            BY <3>1 DEF InProgress
    <2>2. CASE AllWavesDone(t) \/ FastFindsNone(t) \/ FastDone(t)
        <3>1. PICK d \in Deploys : d = tasks[t].deploy
            BY <1>1
        <3>2. recs' = [recs EXCEPT ![d].status = "complete", ![d].wave = ""]
            BY <2>2, <3>1 DEF AllWavesDone, FastFindsNone, FastDone
        <3>3. recs'[d].status = "complete" /\ \A f \in Deploys \ {d} : recs'[f] = recs[f]
            BY <3>2, SetWaveRow
        <3>4. QED
            BY <3>3
    <2>3. CASE GateFails(t) \/ CancelHandled(t) \/ TaskFault(t)
        <3>1. SetStatus(tasks[t].deploy, "paused") \/ SetStatus(tasks[t].deploy, "failed")
            BY <2>3 DEF GateFails, CancelHandled, TaskFault
        <3>2. QED
            BY <1>1, <1>2, <3>1 DEF Statuses, ActiveStatuses
    <2>4. CASE WaveDone(t) \/ StopSeen(t) \/ NextBatch(t) \/ FastNext(t) \/ TaskReturns(t)
        BY <2>4 DEF WaveDone, StopSeen, NextBatch, FastNext, TaskReturns
    <2>5. QED
        BY <1>4, <2>1, <2>2, <2>3, <2>4 DEF TaskStep
<1>5. ASSUME NEW d \in Deploys, RollbackStart(d) \/ \E t \in Tasks : ContinueDeploy(d, t)
      PROVE  recs'[e].status # "none"
    <2>1. SetStatus(d, "rolled_back") \/ SetStatus(d, "rolling")
        BY <1>5 DEF RollbackStart, ContinueDeploy
    <2>2. QED
        BY <1>2, <2>1 DEF Statuses, ActiveStatuses, InProgress
<1>6. ASSUME AbortMark
      PROVE  recs'[e].status # "none"
    <2>1. abortReq.deploy \in Deploys /\ SetStatus(abortReq.deploy, "failed")
        BY <1>6 DEF AbortMark, TypeOK
    <2>2. QED
        BY <1>2, <2>1 DEF Statuses
<1>7. ASSUME \/ \E d \in Deploys : AbortRead(d)
             \/ \E d \in Deploys, i \in Instances : RollbackOne(d, i)
             \/ AbortCancel
             \/ \E j \in Job : JobEnds(j)
             \/ \E i \in Instances, g \in Groups : Regroup(i, g)
             \/ \E order \in WaveOrders : EditRegistry(order)
             \/ Restart \/ UNCHANGED vars
      PROVE  recs'[e].status # "none"
    BY <1>7 DEF AbortRead, RollbackOne, AbortCancel, JobEnds, Regroup, EditRegistry, Restart, vars
<1>8. QED
    BY <1>3, <1>4, <1>5, <1>6, <1>7 DEF Next

LEMMA NextRequestsHaveRows ==
    IInv /\ RequestsHaveRows /\ [Next]_vars => RequestsHaveRows'
<1> SUFFICES ASSUME IInv, RequestsHaveRows, [Next]_vars
             PROVE  RequestsHaveRows'
    OBVIOUS
<1>1. TypeOK
    BY DEF IInv
<1>2. \A e \in Deploys : recs[e].status # "none" => recs'[e].status # "none"
    BY <1>1, RowsStay
<1>3. abortReq.pc # "idle" => abortReq.deploy \in Deploys
    BY <1>1 DEF TypeOK
<1>4. \A d \in Deploys : IsActiveDeploy(d) => recs[d].status # "none"
    BY DEF IsActiveDeploy, Active, ActiveStatuses, InProgress
<1>5. abortReq'.pc # "idle" => recs'[abortReq'.deploy].status # "none"
    <2>1. CASE UNCHANGED abortReq
        BY <1>2, <1>3, <2>1 DEF RequestsHaveRows
    <2>2. ASSUME NEW d \in Deploys, AbortRead(d)
          PROVE  abortReq'.deploy = d /\ recs[d].status # "none"
        BY <1>4, <2>2 DEF AbortRead
    <2>3. ASSUME AbortMark
          PROVE  abortReq'.deploy = abortReq.deploy /\ abortReq.pc # "idle"
        BY <1>1, <2>3 DEF AbortMark, TypeOK
    <2>4. ASSUME AbortCancel \/ Restart
          PROVE  abortReq'.pc = "idle"
        <3>1. abortReq' = [pc |-> "idle", deploy |-> 0]
            BY <2>4, Zenon DEF AbortCancel, Restart
        <3>2. QED
            BY <3>1
    <2>5. \/ UNCHANGED abortReq \/ AbortMark \/ AbortCancel \/ Restart
          \/ \E d \in Deploys : AbortRead(d)
        BY DEF Next, StartDeploy, ContinueDeploy, RollbackStart, RollbackOne, TaskStep, EnterWave,
               AllWavesDone, GateFails, WaveDone, StopSeen, NextBatch, FastStart, FastFindsNone, FastNext,
               FastDone, CancelHandled, TaskReturns, TaskFault, TaskFrame, JobEnds, Regroup, EditRegistry, vars
    <2>6. QED
        BY <1>2, <1>3, <2>1, <2>2, <2>3, <2>4, <2>5 DEF RequestsHaveRows
<1>6. ASSUME NEW e \in Deploys, rollback'[e] # {}
      PROVE  recs'[e].status # "none"
    <2>1. CASE rollback[e] # {}
        BY <1>2, <2>1 DEF RequestsHaveRows
    <2>2. CASE rollback[e] = {}
        <3>1. ~UNCHANGED rollback /\ ~Restart
            BY <1>6, <2>2 DEF Restart
        <3>2. \/ \E d \in Deploys : RollbackStart(d)
              \/ \E d \in Deploys, i \in Instances : RollbackOne(d, i)
            BY <3>1 DEF Next, StartDeploy, ContinueDeploy, AbortRead, AbortMark, AbortCancel, TaskStep,
                   EnterWave, AllWavesDone, GateFails, WaveDone, StopSeen, NextBatch, FastStart, FastFindsNone,
                   FastNext, FastDone, CancelHandled, TaskReturns, TaskFault, TaskFrame, JobEnds, Regroup,
                   EditRegistry, vars
        <3>3. RollbackStart(e)
            BY <1>1, <1>6, <2>2, <3>2 DEF RollbackStart, RollbackOne, TypeOK
        <3>4. QED
            BY <1>2, <1>4, <3>3 DEF RollbackStart
    <2>3. QED
        BY <2>1, <2>2
<1>7. QED
    BY <1>5, <1>6 DEF RequestsHaveRows

-----------------------------------------------------------------------------
(* FleetRelease: the refinement.                                           *)

LEMMA InitImplements == Init => Release!Init /\ RequestsHaveRows
<1> SUFFICES ASSUME Init
             PROVE  Release!Init /\ RequestsHaveRows
    OBVIOUS
<1>1. image \in [Instances -> Tags]
    BY DeployAssumptions DEF Init
<1>2. \A d \in Deploys : ReleaseRows[d].status = "none"
    BY DEF Init, NoRow, ReleaseRows
<1>3. gated = Release!Nothing /\ overlooked = Release!Nothing /\ rollback = Release!Nothing
    BY DEF Init, Release!Nothing
<1>4. Before \in [Instances -> SUBSET Instances] /\ Listed \in SUBSET Instances
    BY DEF Before, Listed
<1>5. RequestsHaveRows
    BY DEF Init, RequestsHaveRows
<1>6. QED
    BY <1>1, <1>2, <1>3, <1>4, <1>5 DEF Release!Init

LEMMA NextImplements ==
    ASSUME GroupsStay
    PROVE  GInv /\ GInv' /\ RequestsHaveRows /\ [Next]_vars => [Release!Next]_(Release!vars)
<1> SUFFICES ASSUME GInv, GInv', RequestsHaveRows, [Next]_vars
             PROVE  [Release!Next]_(Release!vars)
    OBVIOUS
<1>1. TypeOK /\ IInv'
    BY DEF GInv, IInv
<1>2. ASSUME NEW t \in Tasks, TaskStep(t) \/ TaskFault(t)
      PROVE  [Release!Next]_(Release!vars)
    <2>1. CASE EnterWave(t) \/ FastStart(t) \/ TaskFault(t) \/ CancelHandled(t)
        BY <2>1, MarkingTasksImplement
    <2>2. CASE AllWavesDone(t) \/ FastFindsNone(t) \/ FastDone(t)
        BY <1>1, <2>2, EndingTasksImplement
    <2>3. CASE GateFails(t) \/ WaveDone(t) \/ StopSeen(t) \/ NextBatch(t)
        BY <2>3, ChecksImplement
    <2>4. CASE FastNext(t) \/ TaskReturns(t)
        <3>1. FleetSame /\ recs' = recs /\ UNCHANGED <<gated, overlooked>>
            BY <2>4 DEF FastNext, TaskReturns, TaskFrame, FleetSame
        <3>2. UNCHANGED Release!Fleet /\ ReleaseRows' = ReleaseRows
            BY <3>1, FleetIsSame DEF ReleaseRows
        <3>3. QED
            BY <3>1, <3>2 DEF Release!Fleet, Release!vars
    <2>5. QED
        BY <1>2, <2>1, <2>2, <2>3, <2>4 DEF TaskStep
<1>3. ASSUME AbortCancel \/ UNCHANGED vars \/ \E d \in Deploys : AbortRead(d)
      PROVE  [Release!Next]_(Release!vars)
    <2>1. FleetSame /\ recs' = recs /\ UNCHANGED <<gated, overlooked>>
        BY <1>3 DEF AbortCancel, AbortRead, vars, FleetSame
    <2>2. UNCHANGED Release!Fleet /\ ReleaseRows' = ReleaseRows
        BY <2>1, FleetIsSame DEF ReleaseRows
    <2>3. QED
        BY <2>1, <2>2 DEF Release!Fleet, Release!vars
<1>4. /\ \A i \in Instances, g \in Groups : ~Regroup(i, g)
      /\ \A order \in WaveOrders : ~EditRegistry(order)
    BY DEF GroupsStay, Regroup, EditRegistry
<1>5. ASSUME NEW d \in Deploys, NEW t \in Tasks, NEW tag \in Tags, NEW mode \in Modes,
             NEW force \in BOOLEAN, StartDeploy(d, t, tag, mode, force)
      PROVE  Release!Next
    <2>1. Release!Start(d)
        BY <1>1, <1>5, StartsRelease
    <2>2. QED
        BY <2>1 DEF Release!Next
<1>6. CASE Restart
    BY <1>1, <1>6, RestartImplements
<1>7. ASSUME NEW j \in Job, JobEnds(j)
      PROVE  [Release!Next]_(Release!vars)
    BY <1>7, ThreadsImplement
<1>8. CASE \/ \E d \in Deploys, t \in Tasks : ContinueDeploy(d, t)
           \/ \E d \in Deploys : RollbackStart(d)
           \/ \E d \in Deploys, i \in Instances : RollbackOne(d, i)
           \/ AbortMark
    BY <1>8, RequestsImplement
<1>9. QED
    BY <1>2, <1>3, <1>4, <1>5, <1>6, <1>7, <1>8 DEF Next

\* While nobody edits the groups, the orchestrator, whatever its tasks, threads,
\* aborts, rollbacks and restarts do to each other, implements FleetRelease: an image
\* changes only for a release whose row admits it and after the checks of whoever
\* comes before, and a normal release is complete only when all have passed; what a
\* failing list hid from it is all it may miss.
THEOREM PipelineImplementsRelease ==
    ASSUME GroupsStay
    PROVE  Spec => ImplementsRelease
<1>1. Init => GInv /\ RequestsHaveRows /\ Release!Init
    BY InitGInv, InitImplements
<1>2. GInv /\ RequestsHaveRows /\ [Next]_vars => GInv' /\ RequestsHaveRows'
    BY NextGInv, NextRequestsHaveRows DEF GInv
<1>3. GInv /\ GInv' /\ RequestsHaveRows /\ [Next]_vars => [Release!Next]_(Release!vars)
    BY NextImplements
<1>4. QED
    BY <1>1, <1>2, <1>3, PTL DEF Spec, ImplementsRelease, Release!Spec

=============================================================================
