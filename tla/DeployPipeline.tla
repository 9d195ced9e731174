-------------------------- MODULE DeployPipeline --------------------------
(***************************************************************************)
(* The deploy orchestrator of the admin service (backend/deployer.py) and  *)
(* the deploy rows it keeps (backend/database.py).                         *)
(*                                                                         *)
(* One deploy row per release, one asyncio task per start or continue, the *)
(* executor threads that patch spec.image of the HerInstance resources,    *)
(* the rollback request (a coroutine that awaits between instances), the   *)
(* abort request (a thread of the server's pool, whose statements fall     *)
(* between the actions of the event loop), edits of the groups, and a      *)
(* restart of the admin process, which keeps the rows and loses the rest.  *)
(*                                                                         *)
(* Everything a task does between two awaits is one action: no coroutine   *)
(* runs in between.  A health verdict is a nondeterministic choice: it     *)
(* comes from the resource's status, which the operator writes on its own  *)
(* schedule, so it may still speak of the image before the patch.          *)
(*                                                                         *)
(* _list_all_deployable logs a failing list of the resources and goes on   *)
(* with the rows of the database.  The fleet here has none that is         *)
(* "running", so a list that fails is an empty list: of a wave, of a fast  *)
(* deploy, of a rollback.  `overlooked` keeps what it hid.                 *)
(***************************************************************************)
EXTENDS Naturals, Sequences, FiniteSets

CONSTANTS
    Instances,    \* deployable instances (HerInstance resources, not paused)
    Groups,       \* names of deploy groups, registered or not
    Tags,         \* image tags
    InitImages,   \* set of possible initial spec.image functions
    InitGroups,   \* set of possible initial spec.deployGroup functions
    WaveOrders,   \* orders the deploy_groups table can hold; see EditRegistry
    InitOrders,   \* those it may hold at first
    Seeds,        \* groups that start-up inserts when they are missing
    BatchSize,    \* DEPLOY_BATCH_SIZE
    Modes,        \* modes requested: "normal", "fast", "canary-only" or, for
                  \* group:<name>, the group itself
    Controls,     \* which outside events happen: a subset of AllControls
    MaxDeploys,   \* bound: deploy rows
    MaxTasks      \* bound: tasks (one per start, one per continue)

\* "fault": a call for the database or for one instance fails; "list": so does the
\* list of the resources.
AllControls ==
    {"continue", "rollback", "abort", "restart", "regroup", "registry", "fault", "list"}

NamedModes == {"normal", "fast", "canary-only"}

ASSUME DeployAssumptions ==
    /\ IsFiniteSet(Instances)
    /\ InitImages \subseteq [Instances -> Tags]
    /\ InitGroups \subseteq [Instances -> Groups]
    /\ WaveOrders \subseteq (Seq(Groups) \ {<<>>})
    \* The name is the table's primary key.
    /\ \A order \in WaveOrders : \A m, n \in DOMAIN order : order[m] = order[n] => m = n
    /\ InitOrders \subseteq WaveOrders
    /\ Seeds \subseteq Groups
    /\ Modes \subseteq (NamedModes \cup Groups)
    /\ NamedModes \cap Groups = {}
    /\ "all" \notin Groups /\ "" \notin Groups
    /\ Controls \subseteq AllControls
    /\ BatchSize \in Nat \ {0}
    /\ Tags # {}
    /\ MaxDeploys \in Nat \ {0}
    /\ MaxTasks \in Nat

Deploys == 1..MaxDeploys
Tasks == 1..MaxTasks

VARIABLES
    recs,        \* the deploys table: a row per id, status "none" before INSERT
    tasks,       \* the asyncio tasks, in order of creation
    activeTask,  \* _active_task: the last task created, 0 for None
    jobs,        \* set_image calls running in executor threads
    rollback,    \* per deploy, the instances its rollback request still reverts
    abortReq,    \* the abort request in its thread
    image,       \* spec.image of each instance
    group,       \* spec.deployGroup of each instance
    waveOrder,   \* names in deploy_groups, ordered by priority
    gated,       \* history: per deploy, instances its last health check passed
    overlooked,  \* history: per deploy, instances in a wave that it skipped because
                 \* their list failed, and that it has not checked since
    orphaned     \* history: deploys whose task was lost without a status write

vars == <<recs, tasks, activeTask, jobs, rollback, abortReq, image, group,
          waveOrder, gated, overlooked, orphaned>>

-----------------------------------------------------------------------------
(* Types.                                                                  *)

InProgress == {"pending", "canary", "rolling"}
ActiveStatuses == InProgress \cup {"paused"}
Statuses == ActiveStatuses \cup {"none", "complete", "failed", "rolled_back"}

Rec == [status: Statuses, tag: Tags, prev: Tags, mode: NamedModes \cup Groups,
        wave: Groups \cup {"all", ""}]

\* Where a task is suspended.  "patching": in _deploy_batch, the sleep and the
\* health check after it; "notify": the wave_<name>_done notification;
\* "closing": the last notification, its status already written;
\* "cancelled": CancelledError is on its way.
TaskPcs == {"unused", "ready", "patching", "notify", "closing", "cancelled", "done"}

\* first: the wave a continue resumes from, then waves[0] of the list in use.
Task == [pc: TaskPcs, deploy: Deploys, resume: BOOLEAN,
         first: Groups \cup {"all", ""}, waves: Seq(Groups),
         todo: SUBSET Instances, batch: SUBSET Instances]

Job == [by: Tasks, inst: Instances]

TypeOK ==
    /\ recs \in [Deploys -> Rec]
    /\ tasks \in [Tasks -> Task]
    /\ activeTask \in Tasks \cup {0}
    /\ jobs \subseteq Job
    /\ rollback \in [Deploys -> SUBSET Instances]
    /\ abortReq \in [pc: {"idle"}, deploy: {0}] \cup [pc: {"mark", "cancel"}, deploy: Deploys]
    /\ image \in [Instances -> Tags]
    /\ group \in [Instances -> Groups]
    /\ waveOrder \in WaveOrders
    /\ gated \in [Deploys -> SUBSET Instances]
    /\ overlooked \in [Deploys -> SUBSET Instances]
    /\ orphaned \subseteq Deploys

-----------------------------------------------------------------------------
(* Reading the tables.                                                     *)

Members(g) == {i \in Instances : group[i] = g}

\* A listing that comes back without any of S.
MayLookEmpty(S) == S = {} \/ "list" \in Controls

Active == {d \in Deploys : recs[d].status \in ActiveStatuses}

\* get_active_deploy: the newest row whose status is active.
IsActiveDeploy(d) == d \in Active /\ \A e \in Active : e <= d

Created == {d \in Deploys : recs[d].status # "none"}

\* The row INSERT creates next.
IsNextRow(d) == d \notin Created /\ \A e \in Deploys : e < d => e \in Created

\* The last deploy of all completed with this very tag.
AlreadyDeployed(tag) ==
    \E d \in Created : /\ \A e \in Created : e <= d
                       /\ recs[d].tag = tag
                       /\ recs[d].status = "complete"

\* Instances a deploy in this mode counts in its total.
Targets(mode) ==
    IF mode \in Groups THEN Members(mode) ELSE Instances

\* The most common tag among some instances; ties are broken by list order.
IsMostCommonTag(tag, S) ==
    LET Count(v) == Cardinality({i \in S : image[i] = v})
    IN  tag \in Tags /\ \A v \in Tags : Count(v) <= Count(tag)

\* The jobs a task waits for, and those of a task that no longer waits.
JobsOf(t) == {j \in jobs : j.by = t}

IsBatch(b, S) ==
    /\ b \subseteq S
    /\ Cardinality(b) = IF Cardinality(S) < BatchSize THEN Cardinality(S)
                                                      ELSE BatchSize

SetStatus(d, s) == recs' = [recs EXCEPT ![d].status = s]

-----------------------------------------------------------------------------
(* The waves a task goes through.                                          *)

\* Mutant: a continue resumes after the wave that paused.
WavesFromNext(g) ==
    IF \E k \in DOMAIN waveOrder : waveOrder[k] = g
    THEN LET k == CHOOSE n \in DOMAIN waveOrder : waveOrder[n] = g
         IN  SubSeq(waveOrder, k + 1, Len(waveOrder))
    ELSE waveOrder

\* wave_order[start_idx:], or all of it when the wave is no longer registered.
WavesFrom(g) ==
    IF \E k \in DOMAIN waveOrder : waveOrder[k] = g
    THEN LET k == CHOOSE n \in DOMAIN waveOrder : waveOrder[n] = g
         IN  SubSeq(waveOrder, k, Len(waveOrder))
    ELSE waveOrder

\* The list a task computes from deploy_groups when it starts to run.
Plan(t) ==
    LET d == tasks[t].deploy
    IN  IF tasks[t].resume THEN WavesFrom(tasks[t].first)
        ELSE IF recs[d].mode = "canary-only" THEN <<waveOrder[1]>>
        ELSE IF recs[d].mode \in Groups THEN <<recs[d].mode>>
        ELSE waveOrder

Upcoming(t) == IF tasks[t].pc = "ready" THEN Plan(t) ELSE tasks[t].waves

IsFast(t) == recs[tasks[t].deploy].mode = "fast" /\ ~tasks[t].resume

\* The coroutine leaves its loop: its locals are gone.
Leaves(t, pc) ==
    tasks' = [tasks EXCEPT ![t] = [@ EXCEPT !.pc = pc, !.first = "", !.waves = <<>>,
                                            !.todo = {}, !.batch = {}]]

\* A task that may still change rows or images of its deploy.
Working(t) == tasks[t].pc \in {"ready", "patching", "notify"}

-----------------------------------------------------------------------------
NoRow == [status |-> "none", tag |-> CHOOSE v \in Tags : TRUE,
          prev |-> CHOOSE v \in Tags : TRUE, mode |-> "normal", wave |-> ""]

Init ==
    /\ recs = [d \in Deploys |-> NoRow]
    /\ tasks = [t \in Tasks |-> [pc |-> "unused", deploy |-> 1, resume |-> FALSE,
                                 first |-> "", waves |-> <<>>, todo |-> {},
                                 batch |-> {}]]
    /\ activeTask = 0
    /\ jobs = {}
    /\ rollback = [d \in Deploys |-> {}]
    /\ abortReq = [pc |-> "idle", deploy |-> 0]
    /\ image \in InitImages
    /\ group \in InitGroups
    /\ waveOrder \in InitOrders
    /\ gated = [d \in Deploys |-> {}]
    /\ overlooked = [d \in Deploys |-> {}]
    /\ orphaned = {}

-----------------------------------------------------------------------------
(* Requests served on the event loop.                                      *)

CreateTask(t, d, resume, from) ==
    /\ tasks[t].pc = "unused"
    /\ \A u \in Tasks : u < t => tasks[u].pc # "unused"
    /\ tasks' = [tasks EXCEPT ![t] = [pc |-> "ready", deploy |-> d, resume |-> resume,
                                      first |-> from, waves |-> <<>>, todo |-> {},
                                      batch |-> {}]]
    /\ activeTask' = t

\* start_deploy: POST /api/deploy and the CI webhook.  There is no await between
\* the test for an active deploy and the INSERT.
StartDeploy(d, t, tag, mode, force) ==
    /\ Active = {}
    /\ force \/ ~AlreadyDeployed(tag)
    /\ Targets(mode) # {}
    /\ IsNextRow(d)
    /\ \E prev \in Tags :
          /\ IsMostCommonTag(prev, Targets(mode))
          /\ recs' = [recs EXCEPT ![d] = [status |-> "pending", tag |-> tag,
                                          prev |-> prev, mode |-> mode, wave |-> ""]]
    /\ CreateTask(t, d, FALSE, "")
    /\ UNCHANGED <<jobs, rollback, abortReq, image, group, waveOrder, gated, overlooked,
                   orphaned>>

\* Mutant: any active deploy can be continued.
ContinueAnyDeploy(d, t) ==
    /\ "continue" \in Controls
    /\ IsActiveDeploy(d)
    /\ SetStatus(d, "rolling")
    /\ CreateTask(t, d, TRUE, recs[d].wave)
    /\ UNCHANGED <<jobs, rollback, abortReq, image, group, waveOrder, gated, overlooked,
                   orphaned>>

\* continue_deploy: a new task from the wave that paused, through every later
\* group of the registry.
ContinueDeploy(d, t) ==
    /\ "continue" \in Controls
    /\ IsActiveDeploy(d)
    /\ recs[d].status = "paused"
    /\ SetStatus(d, "rolling")
    /\ CreateTask(t, d, TRUE, recs[d].wave)
    /\ UNCHANGED <<jobs, rollback, abortReq, image, group, waveOrder, gated, overlooked,
                   orphaned>>

\* rollback_deploy up to its first await: the status, then the instances that
\* carry the tag at this moment, or none when they cannot be listed.  _active_task
\* is left running.
RollbackStart(d) ==
    /\ "rollback" \in Controls
    /\ IsActiveDeploy(d)
    /\ SetStatus(d, "rolled_back")
    /\ \/ rollback' = [rollback EXCEPT
                         ![d] = @ \cup {i \in Instances : image[i] = recs[d].tag}]
       \/ "list" \in Controls /\ UNCHANGED rollback
    /\ UNCHANGED <<tasks, activeTask, jobs, abortReq, image, group, waveOrder,
                   gated, overlooked, orphaned>>

\* One turn of the rollback loop: set_image succeeds or raises (logged).
RollbackOne(d, i) ==
    /\ i \in rollback[d]
    /\ rollback' = [rollback EXCEPT ![d] = @ \ {i}]
    /\ \/ image' = [image EXCEPT ![i] = recs[d].prev]
       \/ "fault" \in Controls /\ UNCHANGED image
    /\ UNCHANGED <<recs, tasks, activeTask, jobs, abortReq, group, waveOrder,
                   gated, overlooked, orphaned>>

-----------------------------------------------------------------------------
(* abort_deploy: three statements of a thread.                             *)

AbortRead(d) ==
    /\ "abort" \in Controls
    /\ abortReq.pc = "idle"
    /\ IsActiveDeploy(d)
    /\ abortReq' = [pc |-> "mark", deploy |-> d]
    /\ UNCHANGED <<recs, tasks, activeTask, jobs, rollback, image, group, waveOrder,
                   gated, overlooked, orphaned>>

AbortMark ==
    /\ abortReq.pc = "mark"
    /\ SetStatus(abortReq.deploy, "failed")
    /\ abortReq' = [abortReq EXCEPT !.pc = "cancel"]
    /\ UNCHANGED <<tasks, activeTask, jobs, rollback, image, group, waveOrder,
                   gated, overlooked, orphaned>>

\* _active_task.cancel(): whatever task is the last one created by now.  A task
\* that has not run yet ends without reaching its own handler.  Calls already in
\* a thread go on; the executor drops those still queued.
AbortCancel ==
    /\ abortReq.pc = "cancel"
    /\ abortReq' = [pc |-> "idle", deploy |-> 0]
    /\ IF activeTask = 0 \/ tasks[activeTask].pc \in {"cancelled", "done"}
       THEN UNCHANGED <<tasks, jobs, orphaned>>
       ELSE LET t == activeTask
                unrun == tasks[t].pc = "ready"
            IN  /\ Leaves(t, IF unrun THEN "done" ELSE "cancelled")
                /\ \E dropped \in SUBSET JobsOf(t) : jobs' = jobs \ dropped
                /\ orphaned' = IF unrun THEN orphaned \cup {tasks[t].deploy}
                                        ELSE orphaned
    /\ UNCHANGED <<recs, activeTask, rollback, image, group, waveOrder, gated, overlooked>>

-----------------------------------------------------------------------------
(* A task: _run_deploy or _resume_deploy.                                  *)

\* The next batch of `todo` goes to the executor, and the task waits for it.
SubmitBatch(t, first, waves, todo) ==
    \E b \in SUBSET todo :
        /\ IsBatch(b, todo)
        /\ tasks' = [tasks EXCEPT ![t] = [@ EXCEPT !.pc = "patching", !.first = first,
                                                  !.waves = waves, !.todo = todo \ b,
                                                  !.batch = b]]
        /\ jobs' = jobs \cup [by: {t}, inst: b]

\* The first n waves the task was to go through come back empty from their listing.
PassesOver(t, n) ==
    LET skipped == {Upcoming(t)[k] : k \in 1..n}
    IN  /\ \A g \in skipped : MayLookEmpty(Members(g))
        /\ overlooked' = [overlooked EXCEPT
                            ![tasks[t].deploy] = @ \cup {i \in Instances : group[i] \in skipped}]

TaskFrame == UNCHANGED <<activeTask, rollback, abortReq, image, group, waveOrder, orphaned>>

\* Top of the wave loop: skip the waves that are listed empty, write the status and
\* the wave, start the first batch.  The status is not read first.
EnterWave(t) ==
    /\ tasks[t].pc \in {"ready", "notify"}
    /\ ~IsFast(t)
    /\ \E k \in DOMAIN Upcoming(t) :
          LET ws    == Upcoming(t)
              g     == ws[k]
              first == IF tasks[t].pc = "ready" THEN ws[1] ELSE tasks[t].first
          IN  /\ Members(g) # {}
              /\ PassesOver(t, k - 1)
              /\ recs' = [recs EXCEPT
                            ![tasks[t].deploy].status = IF g = first THEN "canary"
                                                                     ELSE "rolling",
                            ![tasks[t].deploy].wave = g]
              /\ SubmitBatch(t, first, SubSeq(ws, k + 1, Len(ws)), Members(g))
    /\ TaskFrame /\ UNCHANGED gated

\* Mutant: the final status is never written.
AllWavesDoneSilently(t) ==
    /\ tasks[t].pc \in {"ready", "notify"}
    /\ ~IsFast(t)
    /\ PassesOver(t, Len(Upcoming(t)))
    /\ Leaves(t, "closing")
    /\ TaskFrame /\ UNCHANGED <<recs, jobs, gated>>

\* No wave is left that is listed with members: complete, whatever the row says by
\* now.
AllWavesDone(t) ==
    /\ tasks[t].pc \in {"ready", "notify"}
    /\ ~IsFast(t)
    /\ PassesOver(t, Len(Upcoming(t)))
    /\ recs' = [recs EXCEPT ![tasks[t].deploy].status = "complete",
                            ![tasks[t].deploy].wave = ""]
    /\ Leaves(t, "closing")
    /\ TaskFrame /\ UNCHANGED <<jobs, gated>>

\* An executor thread ends: the patch is made, or it raises; a request that timed
\* out may have been applied all the same.  gather waits for every one.
JobEnds(j) ==
    /\ j \in jobs
    /\ jobs' = jobs \ {j}
    /\ \/ image' = [image EXCEPT ![j.inst] = recs[tasks[j.by].deploy].tag]
       \/ "fault" \in Controls /\ UNCHANGED image
    /\ UNCHANGED <<recs, tasks, activeTask, rollback, abortReq, group, waveOrder,
                   gated, overlooked, orphaned>>

\* Mutant: the health check starts while threads still patch.
BatchSubmitted(t) == tasks[t].pc = "patching"

BatchPatched(t) == tasks[t].pc = "patching" /\ JobsOf(t) = {}

\* The health check after a batch: `bad` are the unhealthy instances.
HealthVerdict(t, bad) ==
    /\ BatchPatched(t)
    /\ ~IsFast(t)
    /\ gated' = [gated EXCEPT ![tasks[t].deploy] = (@ \ bad) \cup (tasks[t].batch \ bad)]
    /\ overlooked' = [overlooked EXCEPT ![tasks[t].deploy] = @ \ tasks[t].batch]

GateFails(t) ==
    /\ \E bad \in (SUBSET tasks[t].batch) \ {{}} : HealthVerdict(t, bad)
    /\ SetStatus(tasks[t].deploy, "paused")
    /\ Leaves(t, "closing")
    /\ TaskFrame /\ UNCHANGED jobs

\* Mutant: unhealthy instances are only logged.
WaveDoneUnhealthy(t) ==
    /\ \E bad \in SUBSET tasks[t].batch : HealthVerdict(t, bad)
    /\ tasks[t].todo = {}
    /\ tasks' = [tasks EXCEPT ![t] = [@ EXCEPT !.pc = "notify"]]
    /\ TaskFrame /\ UNCHANGED <<recs, jobs>>

WaveDone(t) ==
    /\ HealthVerdict(t, {})
    /\ tasks[t].todo = {}
    /\ tasks' = [tasks EXCEPT ![t] = [@ EXCEPT !.pc = "notify"]]
    /\ TaskFrame /\ UNCHANGED <<recs, jobs>>

\* The one place where a task looks at its row: before a batch that is not the
\* first of its wave.
StopSeen(t) ==
    /\ HealthVerdict(t, {})
    /\ tasks[t].todo # {}
    /\ recs[tasks[t].deploy].status \in {"paused", "failed", "rolled_back"}
    /\ Leaves(t, "done")
    /\ TaskFrame /\ UNCHANGED <<recs, jobs>>

NextBatch(t) ==
    /\ HealthVerdict(t, {})
    /\ tasks[t].todo # {}
    /\ recs[tasks[t].deploy].status \notin {"paused", "failed", "rolled_back"}
    /\ SubmitBatch(t, tasks[t].first, tasks[t].waves, tasks[t].todo)
    /\ TaskFrame /\ UNCHANGED recs

\* _deploy_fast: every instance, batch after batch, no check of any kind.
FastStart(t) ==
    /\ tasks[t].pc = "ready"
    /\ IsFast(t)
    /\ recs' = [recs EXCEPT ![tasks[t].deploy].status = "rolling",
                            ![tasks[t].deploy].wave = "all"]
    /\ SubmitBatch(t, "", <<>>, Instances)
    /\ TaskFrame /\ UNCHANGED <<gated, overlooked>>

\* Its instances cannot be listed: there is nothing to patch, and it is complete.
FastFindsNone(t) ==
    /\ tasks[t].pc = "ready"
    /\ IsFast(t)
    /\ MayLookEmpty(Instances)
    /\ recs' = [recs EXCEPT ![tasks[t].deploy].status = "complete",
                            ![tasks[t].deploy].wave = ""]
    /\ Leaves(t, "closing")
    /\ TaskFrame /\ UNCHANGED <<jobs, gated, overlooked>>

FastNext(t) ==
    /\ BatchPatched(t)
    /\ IsFast(t)
    /\ tasks[t].todo # {}
    /\ SubmitBatch(t, tasks[t].first, tasks[t].waves, tasks[t].todo)
    /\ TaskFrame /\ UNCHANGED <<recs, gated, overlooked>>

FastDone(t) ==
    /\ BatchPatched(t)
    /\ IsFast(t)
    /\ tasks[t].todo = {}
    /\ recs' = [recs EXCEPT ![tasks[t].deploy].status = "complete",
                            ![tasks[t].deploy].wave = ""]
    /\ Leaves(t, "closing")
    /\ TaskFrame /\ UNCHANGED <<jobs, gated, overlooked>>

\* except Exception: a failing database call.  One that fails in _deploy_one leaves
\* the other threads of the batch running.
TaskFault(t) ==
    /\ "fault" \in Controls
    /\ Working(t)
    /\ SetStatus(tasks[t].deploy, "failed")
    /\ Leaves(t, "closing")
    /\ TaskFrame /\ UNCHANGED <<jobs, gated, overlooked>>

\* Mutant: a cancelled task leaves its row alone.
CancelIgnored(t) ==
    /\ tasks[t].pc = "cancelled"
    /\ Leaves(t, "done")
    /\ TaskFrame /\ UNCHANGED <<recs, jobs, gated, overlooked>>

\* Mutant: a cancelled task writes a status nobody else knows.
CancelRenamed(t) ==
    /\ tasks[t].pc = "cancelled"
    /\ SetStatus(tasks[t].deploy, "cancelled")
    /\ Leaves(t, "done")
    /\ TaskFrame /\ UNCHANGED <<jobs, gated, overlooked>>

\* except CancelledError.
CancelHandled(t) ==
    /\ tasks[t].pc = "cancelled"
    /\ SetStatus(tasks[t].deploy, "failed")
    /\ Leaves(t, "done")
    /\ TaskFrame /\ UNCHANGED <<jobs, gated, overlooked>>

\* The last notification is sent, or failed and was logged.
TaskReturns(t) ==
    /\ tasks[t].pc = "closing"
    /\ Leaves(t, "done")
    /\ TaskFrame /\ UNCHANGED <<recs, jobs, gated, overlooked>>

TaskStep(t) ==
    \/ EnterWave(t) \/ AllWavesDone(t)
    \/ GateFails(t) \/ WaveDone(t) \/ StopSeen(t) \/ NextBatch(t)
    \/ FastStart(t) \/ FastFindsNone(t) \/ FastNext(t) \/ FastDone(t)
    \/ CancelHandled(t) \/ TaskReturns(t)

-----------------------------------------------------------------------------
(* Around the deploys.                                                     *)

\* PUT /api/instances/{uid}/deploy-group, for an instance with a resource.
Regroup(i, g) ==
    /\ "regroup" \in Controls
    /\ group[i] # g
    /\ group' = [group EXCEPT ![i] = g]
    /\ UNCHANGED <<recs, tasks, activeTask, jobs, rollback, abortReq, image, waveOrder,
                   gated, overlooked, orphaned>>

\* POST, PUT and DELETE /api/deploy-groups change the registry; none of them
\* touches spec.deployGroup.
EditRegistry(order) ==
    /\ "registry" \in Controls
    /\ waveOrder # order
    /\ waveOrder' = order
    /\ UNCHANGED <<recs, tasks, activeTask, jobs, rollback, abortReq, image, group,
                   gated, overlooked, orphaned>>

\* _ensure_seed_data: deleted default groups come back, the others keep their order.
Reseeds(order) ==
    /\ {order[k] : k \in DOMAIN order} = {waveOrder[k] : k \in DOMAIN waveOrder} \cup Seeds
    /\ \A m, n \in DOMAIN waveOrder :
          m < n => \E k, l \in DOMAIN order :
                      k < l /\ order[k] = waveOrder[m] /\ order[l] = waveOrder[n]

\* The admin process restarts.  A patch under way is applied or lost.  Nothing at
\* start-up looks at the deploy rows.
Restart ==
    /\ "restart" \in Controls
    /\ \E applied \in SUBSET jobs :
          /\ \A j, k \in applied : j.inst = k.inst => j = k
          /\ image' = [i \in Instances |->
                         IF \E j \in applied : j.inst = i
                         THEN recs[tasks[(CHOOSE j \in applied : j.inst = i).by].deploy].tag
                         ELSE image[i]]
    /\ tasks' = [t \in Tasks |-> IF tasks[t].pc = "unused" THEN tasks[t]
                                 ELSE [tasks[t] EXCEPT !.pc = "done", !.first = "", !.waves = <<>>,
                                             !.todo = {}, !.batch = {}]]
    /\ activeTask' = 0
    /\ jobs' = {}
    /\ rollback' = [d \in Deploys |-> {}]
    /\ abortReq' = [pc |-> "idle", deploy |-> 0]
    /\ orphaned' = orphaned \cup {d \in Deploys : recs[d].status \in InProgress}
    /\ \E order \in WaveOrders : Reseeds(order) /\ waveOrder' = order
    /\ UNCHANGED <<recs, group, gated, overlooked>>

-----------------------------------------------------------------------------
Next ==
    \/ \E d \in Deploys, t \in Tasks, tag \in Tags, mode \in Modes, force \in BOOLEAN :
          StartDeploy(d, t, tag, mode, force)
    \/ \E d \in Deploys, t \in Tasks : ContinueDeploy(d, t)
    \/ \E d \in Deploys : RollbackStart(d) \/ AbortRead(d)
    \/ \E d \in Deploys, i \in Instances : RollbackOne(d, i)
    \/ AbortMark
    \/ AbortCancel
    \/ \E t \in Tasks : TaskStep(t) \/ TaskFault(t)
    \/ \E j \in Job : JobEnds(j)
    \/ \E i \in Instances, g \in Groups : Regroup(i, g)
    \/ \E order \in WaveOrders : EditRegistry(order)
    \/ Restart

Spec == Init /\ [][Next]_vars

\* The event loop runs every ready task; a thread that was started ends; a
\* request under way is answered.
Fairness ==
    /\ \A t \in Tasks : WF_vars(TaskStep(t))
    /\ \A j \in Job : WF_vars(JobEnds(j))
    /\ \A d \in Deploys, i \in Instances : WF_vars(RollbackOne(d, i))
    /\ WF_vars(AbortMark) /\ WF_vars(AbortCancel)

FairSpec == Spec /\ Fairness

-----------------------------------------------------------------------------
(* Properties.                                                             *)

\* At most one task that may still write belongs to a deploy: continue_deploy
\* starts a second one only when the first has written "paused" and is on its
\* way out, whatever rollbacks, aborts and restarts did to the row in between.
OneWorkerPerDeploy ==
    \A t, u \in Tasks :
        Working(t) /\ Working(u) /\ tasks[t].deploy = tasks[u].deploy => t = u

\* A deploy that shows "paused" or "complete" is at rest: none of its tasks works
\* and no executor thread still writes its tag, so continue and rollback start
\* from a fleet that does not move (gather in _deploy_batch before every gate).
AtRestIsQuiet ==
    \A d \in Deploys :
        recs[d].status \in {"paused", "complete"} =>
            /\ \A t \in Tasks : Working(t) => tasks[t].deploy # d
            /\ \A j \in jobs : tasks[j.by].deploy # d

\* A deploy that shows progress has a task that will end it, unless the process
\* restarted or a cancel hit a task that had not started.  These rows block every
\* later start_deploy until somebody aborts them.
InProgressHasWorker ==
    \A d \in Deploys :
        recs[d].status \in InProgress =>
            \/ \E t \in Tasks : tasks[t].deploy = d /\ (Working(t) \/ tasks[t].pc = "cancelled")
            \/ d \in orphaned

\* Earlier(g, h): the registry deploys g before h.
Earlier(g, h) ==
    \E m, n \in DOMAIN waveOrder : m < n /\ waveOrder[m] = g /\ waveOrder[n] = h

\* The health gate: outside fast deploys no thread patches an instance while the
\* deploy has an instance of an earlier wave that its last check did not pass,
\* across pauses, continues and interrupted tasks.  The one way past the gate is
\* the one the code has: a list that failed hid the whole earlier wave, and the
\* deploy has not been there since.  Without failing lists nothing is overlooked.
GateBeforeNextWave ==
    \A j \in jobs :
        LET d == tasks[j.by].deploy
        IN  recs[d].mode \notin {"fast"} \cup Groups =>
                \A i \in Instances :
                    Earlier(group[i], group[j.inst]) => i \in gated[d] \cup overlooked[d]

\* A deploy in normal mode that shows "complete" had every instance of every
\* registered wave pass a health check of its own, but for those of waves that a
\* failing list hid from it: of these the row says nothing.
CompleteMeansGated ==
    \A d \in Deploys :
        recs[d].status = "complete" /\ recs[d].mode = "normal" =>
            \A i \in Instances :
                (\E k \in DOMAIN waveOrder : waveOrder[k] = group[i])
                    => i \in gated[d] \cup overlooked[d]

StatusStep ==
    \A d \in Deploys :
        /\ recs[d].status = "paused" =>
              recs'[d].status \in {"paused", "rolling", "rolled_back", "failed"}
        /\ recs[d].status = "complete" => recs'[d].status \in {"complete", "failed"}

\* A paused deploy moves on only by continue, rollback, abort or a late handler,
\* and a complete one can only be spoiled into "failed" by an abort that read it
\* before it completed: no task brings a paused row back or reopens a complete one.
StatusGraph == [][StatusStep]_vars

\* Under a restart-free service every deploy leaves the states that block the
\* next one, or is paused for the operator: no row stays in progress for ever.
DeploySettles ==
    \A d \in Deploys :
        recs[d].status \in InProgress ~>
            (recs[d].status \notin InProgress \/ d \in orphaned)

-----------------------------------------------------------------------------
(* What all this is for: FleetRelease.                                     *)

ReleaseRows ==
    [d \in Deploys |-> [status |-> recs[d].status, tag |-> recs[d].tag,
                        prev |-> recs[d].prev, mode |-> recs[d].mode]]

Before == [i \in Instances |-> {k \in Instances : Earlier(group[k], group[i])}]

Listed == {i \in Instances : \E k \in DOMAIN waveOrder : waveOrder[k] = group[i]}

Release == INSTANCE FleetRelease
           WITH Releases <- Deploys, release <- ReleaseRows, passed <- gated,
                missed <- overlooked, undo <- rollback, before <- Before,
                listed <- Listed, MayMiss <- "list" \in Controls

\* Seen from the fleet, tasks, threads and requests together are releases one after
\* the other that change an image only while their row admits it, after the
\* checks of whoever comes before, and that are complete only when all have passed;
\* what a release missed, because its list failed, is the only exception.
ImplementsRelease == Release!Spec

=============================================================================
