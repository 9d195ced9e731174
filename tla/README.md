# Verification of carher-admin

TLA+ models of the parts of carher-admin whose correctness depends on the order
in which several actors take their steps: the deploy orchestrator, the instance
requests, the config sync with its backup and the Cloudflare routes of the admin
service; the Kubernetes operator that turns each `HerInstance` resource into a running
pod; the account registry of the ChatGPT pool gateway; the cron job that rebalances
the accounts of that pool; and the streaming bridge of the LiteLLM proxy.  The models
are checked with TLC on small instances; the invariants that matter most are proved
with TLAPS for every value of the constants.  All paths below are relative to `src/`.

## The system

    admin service (backend/*.py)                operator (operator-go/)
    ---------------------------                 -----------------------
    API threads --+                             Reconcile (one worker)
    deploy task --+--> HerInstance resources -> health checker (30 s)
    sync worker --+    (spec by the admin,      knownBots manager (10 s)
      |    |    |       status by the operator)       |
      |    |  SQLite, NAS copy                  Deployment, ConfigMaps, pods
      |  LiteLLM keys                                 |
    Cloudflare tunnel ingress  <---- users ---->   pods
                                                      |
    accounts <- pool of pods <------ LiteLLM (router, callbacks in k8s/litellm-callbacks)
                  ^                     ^
                  +---- quota-rebalance.py (cron): probes, pods, router entries

    a second pool: LiteLLM -> chatgpt-pool-gateway -> accounts

The admin edits `spec`, the operator writes `status`; the admin's health gate
reads `status` back.  Instances of before the operator have a row, a ConfigMap and a
pod that the admin service looks after by itself.  Nothing in the system has a transaction
around two stores: database and cluster, resource and LiteLLM key, list of
instances and tunnel document, router and Deployment.  That is where most of the hazards lie.

| Component | State | Operations | What is hard | What makes it correct |
|---|---|---|---|---|
| Deploy orchestrator, `backend/deployer.py` | the row of each deploy; one asyncio task per start or continue; `_active_task`; executor threads | start, continue, rollback, abort, webhook; the wave and fast loops; batch and health gate | coroutines, executor threads and request threads interleave; a restart keeps the rows and loses the tasks; nothing ties a row to its task | one worker per deploy; a row at rest means a fleet at rest; no wave before the gate of the earlier one; no row in progress for ever |
| Deploy tables, `backend/database.py` | `deploys`, `deploy_groups` | create, update, query; group edits; start-up seeds | group edits while a deploy runs; group names live both here and in the resources | as above |
| HerInstance operator, `operator-go/internal/controller` | the resource, its Deployment, ConfigMap and status; the knownBots cache and ConfigMap | Reconcile; health cycle; gates; knownBots rebuild | two writers of one status, one with optimistic locking and one without; decisions taken from that status; failed calls between two writes; restarts | a rolling update never leaves an instance without a connected pod; Deployment, ConfigMap, status and knownBots converge on the spec |
| Instance requests, `backend/main.py`, `crd_ops.py`, `litellm_ops.py` | resources and rows, LiteLLM keys and their route policy | create, import, update, generate key, delete | no lock over uids and keys; two stores and LiteLLM in one request, each call of which may fail, half-way or after having worked | an instance's key is live and its own; no key without an instance; the key's policy is the instance's |
| Legacy instances and sync worker, `backend/main.py`, `sync_worker.py` | row, ConfigMap and pod of each instance, the pending mark | create, update, start, stop, restart, redeploy, delete, forced sync; the worker's round | the worker and the requests write copies they read earlier; crashes and failed calls between row, ConfigMap and pod | a change is never forgotten; the deleted stay deleted |
| Backup, `backend/database.py` | database file, NAS copy, `_backup_dirty` | mark, flush, restore at start | a flag cleared before the copy, writers in other threads, loss of the file | the backup is current or due |
| Cloudflare routes, `backend/cloudflare_ops.py` | the tunnel's remote ingress, one document | upsert by a creation, full sync by a deletion or an operator | read, wait, write whole, with no version; Services not ready; lists that fail | reported routes stay, deleted ones stay away, others' survive |
| Streaming bridge, `k8s/litellm-callbacks/streaming_bridge.py` | per response: queue, egress buffer, clocks | prefetch, forward, heartbeat, watchdog, collapse | chunks cut anywhere, silence anywhere, slow clients, every way an upstream may end | heartbeats between events, nothing lost, the client hears something, every response ends |
| Quota rebalancer, `scripts/quota-rebalance.py` | a row per account in a JSON file; replicas; router entries | probe, pause, resume, revive, bank reset, repair, drift and ghost cleaning | overlapping runs that each write the whole file; runs that die; wrong answers; calls to two systems | a healthy account stays in; no entries without a pod; a closed account comes back |
| ChatGPT pool gateway, `chatgpt-pool-gateway/gateway/app` | per account: state, quota, 401 count; sticky sessions; token files; an SQLite mirror | probe, pick, admin add/remove/enable/disable/probe | status objects and tokens held across an await; answers applied out of order; two copies of the state; a token cache nobody invalidates | a healthy account has quota; the mirror agrees; the routing follows the upstream |
| Weighted affinity, `k8s/litellm-callbacks/weighted_affinity.py` | session to deployment map, Redis or per worker | filter, record | fallback cache per worker; expiry | a session stays where its context is |
| Everything else | | metrics, config text, agent, onboarding and one-shot scripts, front end, manifests | per-request text processing or external calls | not modelled, see below |

## Modules

| Module | What it is |
|---|---|
| `DeployPipeline` | the deploy orchestrator with the deploy tables |
| `FleetRelease` | what the orchestrator promises of a fleet: when an image may change and what the rows say meanwhile; abstract, implemented by `DeployPipeline` |
| `HerOperator` | one `HerInstance`, the three loops of the operator, the cluster |
| `InstanceService` | what the operator promises of an instance; abstract, implemented by `HerOperator` |
| `PoolAccounts` | the gateway's accounts: registry, mirror, probes, admin requests |
| `InstanceRegistry` | instances in both stores, with their LiteLLM keys |
| `LegacyInstances` | rows, ConfigMaps and pods without the operator; sync worker; backup |
| `StreamBridge` | the bridge, for one response |
| `QuotaRebalance` | the rebalancer's runs, for one account |
| `TunnelRoutes` | the tunnel's document and the requests that write it |

Each has a module `MC...` that gives TLC its instances, with the `.cfg` files of the
same name, and a module `...Proof` with its theorems (`FleetRelease` and `InstanceService`,
being abstract, have neither: the theorems are in `DeployPipelineProof` and `HerOperatorProof`).  `InstanceRegistry` and
`LegacyInstances` share the requests of `main.py`, each seen from one side: the first keeps
what concerns keys, the second what concerns ConfigMap, pod and backup; `TunnelRoutes` keeps
what concerns routes.

### DeployPipeline and the code

State: `recs` are the rows of `deploys` (status, mode, tag, previous tag, the
wave reached), `tasks` the asyncio tasks with their place in `_run_deploy`,
`activeTask` the module's `_active_task`, `jobs` the executor threads inside
`set_image`, `image` and `group` the spec fields of the resources, `waveOrder`
the registered groups by priority, `rollback` what each rollback request has
still to do, the abort request's local variables.  `gated`, `overlooked` and `orphaned` are
history: which instances the deploy has seen healthy, which belong to a wave that a failing list
hid from it, and which rows have lost their task by a restart or by a cancel before its first step.

`_list_all_deployable` answers a failed list of the resources with a warning and an empty
list (deployer.py:86-87).  In the model every listing (of a wave, of a fast deploy, of a rollback)
may come back empty (`MayLookEmpty`, control "list"): the wave loop then passes over the wave
with its gate, a fast deploy completes, a rollback takes back nothing.

Atomicity follows the code's own scheduling.  What a coroutine does between two
awaits is one action; the abort endpoint runs in a thread of the server's pool,
so its read, its write and its cancel are three actions (`AbortRead`,
`AbortMark`, `AbortCancel`); an executor thread ends whenever it likes
(`JobEnds`), also after the task that started it has been cancelled.  The abort's
actions fall between actions of the event loop, not between two statements of one.
`EnterWave`, `SubmitBatch`, `BatchPatched`, `WaveDone`, `GateFails`,
`NextBatch`, `StopSeen` and `AllWavesDone` are the wave loop, `FastStart`, `FastNext`
and `FastDone` the fast one, `TaskFault` and `CancelHandled` its handlers.

`ImplementsRelease` is the refinement: `release` is a row without its wave, `passed` and `missed` the
histories `gated` and `overlooked`, `undo` the rollback requests, `before` and `listed` who comes before an instance and
who is in a wave at all.  `FleetRelease` has no tasks, threads, waves or requests.  It says that an
image is rolled out only for a release whose row is neither paused nor complete, to
its tag, after everybody before has passed or been missed; that a rollback takes back at most once
each instance that had the tag when it was asked for, and nobody else; that no release starts while one is
active; and that a normal release completes when everybody listed has passed or been missed.
Somebody is missed only where lists can fail (`MayMiss`).  It also shows what the code does not promise: a failed or rolled back release may still roll out
(threads go on), be paused, advance or complete (the row is written without being read).

### HerOperator and the code

State: `her` is the resource (`image` stands for the pod-spec key; `config` for
the generated text, and so for its hash), `queued` the work queue, `rec` a
running `Reconcile` with the fields of its copy that it still goes by, `fresh`
whether the resource still has the version that was read, `cm` the ConfigMap,
`dep` the Deployment (`live` is the live-config-hash annotation), `pods` the
pods, oldest first, `health` a running health cycle with its copy, `bots` the
knownBots manager.  `served` and `reverted` are history.  `served`: whether a connected pod has had its
readiness gate set since the last scale to 0 ("yes"), until a connected pod fails by itself or a
wrong answer about a pod moves its gate ("excused").  `reverted`: whether the spec has gone back
to a config whose hash the status still has while the ConfigMap ("cm") or the knownBots entry
("bots") has, or is being given, another one.

`Reconcile` is split at its API calls: `ReadHer`, then `ScaleDown` (paused) or
`ApplyConfig`, `DecideRollout` and `Ensure`, or `DecideKeep` (hot reload, scale up),
and `UpdateStatus`.  The status `Update` carries the version that was read, so it
succeeds only while `fresh`; a refusal is logged and nothing else, as in the
code.  The health checker's `Patch` carries no version: it writes the fields that
differ from its copy, over whatever is there.  `HealthList`, `HealthCheck` and
`HealthPatch` are its three moments; `RebuildList` and `RebuildWrite` those of
knownBots.

`checkFeishuWS` guesses.  When `/healthz` cannot be reached, a container that has been ready for
15 s counts as connected; so does a 200 whose body cannot be decoded or has no `feishuWS`, by its
`ok`; any other status, and an unreachable container that is younger, counts as not connected
(health.go:245-278).  `CheckFeishuWS` is therefore wrong about any set of
running pods that `HealthCheck` picks, as a fault "probe"; `Judge` sets the gates by it, one by one, and
each of those patches may fail.  Other faults are a failing call ("api"), in the middle of
`Reconcile`, and a read of the Deployment that fails ("get"), which `Reconcile` takes for a
Deployment to be rolled out (reconciler.go:255).

The Deployment controller and the pods are the cluster's.  `CreatePod`, `MayGo`,
`RemovePod` say what the operator asks for: one replica, `maxSurge: 1`,
`maxUnavailable: 0`, a readiness gate (reconciler.go 1083-1088).  They are marked
external.

`ImplementsService` is the refinement: `online` is "a connected pod exists", `stopping`
"paused, or a scaling to 0 that a pause led to", `service` the history `served`.  A gate moved
by a wrong answer is `Misjudge`, after which the abstract service promises nothing.

### PoolAccounts and the code

State: `mem` is the registry's dict with its status objects (state, whether a window
is used up, the 401s in a row), `row` the SQLite table, `file` and `bundle` the
token on disk and in the cache, `usage` what the upstream would answer, `probe` the
probe of the loop and one that an operator asked for, `round` the names the loop has
still to visit.  `unsaved` is history: the accounts whose row a failed write missed or
a late probe spoiled.

The gateway is one event loop, and a probe awaits once.  `Send` is what comes before
(look up the object, load the bundle), `Answer` the moment at which the upstream decides,
`Apply` or `Fail` what comes after.  In between the account may be removed: the
probe then works on an object that is no longer in the registry (`gone`, `obj`; two
probes may share it) but still writes the row by name.  The admin's handlers have no
await before their change, so each is one action; whether its write to SQLite succeeds is a
free choice.
A restart forgets everything but rows and files.

### InstanceRegistry and the code

State: `inst` is what each store, resources and rows, has of each uid (provider, key,
policy, tombstone), `keys` what LiteLLM has of each key, `req` the request threads.  A
request's `pc` names the call it makes next: choose the uid (`dbmax`, `list`), `check` that it
is free, `read`, `generate` or `rekey`, then `post`, `patch`, `insert`, `write` or `drop`,
and what is taken back or revoked (`undo`, `revoke`, `forget`).  Each call is one action with
its failures; a write may also be made and report a failure ("lost"), and a creation may be
answered 404, upon which the code falls back to a row.  A row's write may be made and fail, too:
`insert` and `update` read the row again after the commit (database.py:437, 456).  `Crash` ends all
requests under way.  Four variables are history.
`fresh`: the requests whose instance nobody has written since they read it.  `torn`: uids with
such a lost write.  `excused`: uids where a request went by a copy out of date, wrote over an
instance it had not read, could not take a step back, or died with a key in hand.  `migrated`: the keys that
were in a row and in the resource of the same uid at the start.

The initial states are every one of 10 choices of resources, rows, tombstones and keys, among them
what `operator/migrate.py` leaves: it makes the resource from a row's ConfigMap, key included (line 237), route
policy not included, and does not touch the row, which stays in use with the same key.

### LegacyInstances and the code

State: `row`, `cm`, `pod` of each instance, `backup`, `dirty` (`_backup_dirty`), `req` the
requests with the copies they still have to write, `worker` the sync worker's round,
`flush` those who have cleared the flag and not copied yet.  Requests are threads, so
any of them may come between two calls of another; the worker and the backup loop run in the
event loop and do not come between each other.  `Crash` ends everything in memory, and in one of
its outcomes loses the database file, which is then restored from the backup.  Calls to the
cluster ("k8s") and to the database ("db") fail.  `crossed`, `late` and `missed` are history.
`crossed`: instances written, marked or woken from an older copy.  `late`: things of an instance, ConfigMap or
pod, that came back after a deletion removed them, by somebody who had read the row before the deletion was
recorded.  `missed`: whether a copy has failed or been cut off since the last one.

### StreamBridge and the code

State: `upstream`, `queue` (between `_prefetch` and the generator), `bridge` (the
generator's locals: the three clocks, what its buffer holds), `client` (what it
has got, and where it is in an event), `ended` (which way out was taken).  A chunk is kept as the
event that begins, the one that ends and the one left open in it, which is all that the
boundary search looks at.  `Tick` advances all clocks at once, only while the generator waits or,
with a slow client, in a yield: the event loop runs what is ready at once.  `quiet`
is what the watchdog is about, counted at the upstream; `slow` is history.

### QuotaRebalance and the code

State: `disk` is the account's row of `state.json`, `run` what each run under way holds (its
copy of the row, its snapshot of replicas and router), `replicas`, `router`,
and upstream `full` (windows used up), `token`, `credits`, `sub` (two days or more left, fewer, over);
`copy` is the copy of `auth.json` on the cron host; `vip` says whether the account has a vip entry, which nothing in
the script changes.  A run's `pc` is the place in the account's turn:
repair, retry, fast path, revival, ghosts, quiet hours, probe, bank reset, confirmation,
drift, resume, pause, and the end, where the row is saved.  Times are flags ("the 5h reset is
still to come", "in cooldown") that `Expire`, `Elapse` and `Age` clear, those of half an hour and
more only while no run is under way.  The rest is history: `spent` and `made` count the faults and
the changes from outside by kind, and the properties say which of them they bear; `events`
counts them all, for the bound; `marked` says whether entries were ever made for an account
that still had the mark of a failed scaling (`pending_scale_down`), in its row or on disk.

### TunnelRoutes and the code

State: `crds`, `rows`, `svc` are the instances with a resource, with a row, and with a Service
that has an address; `remote` the document; `req` the requests.  An update is `ListActive`
(full sync only), `GetRemoteIngress`, one `Look` per Service, `ResolveInfra`,
`PutRemoteIngress`, after `SyncTunnelConfig` (the ConfigMap of cloudflared, which matters
only by failing).  The three host names of an instance go together; the infrastructure
route and the routes of other people are one value each.  `routed`, `cleared` and `suspect`
are history: what was reported, what was deleted, and whether updates have overlapped or a list has failed
since the last sync that was alone.

## What is checked

Passing runs:

| Run | Instance | Shows |
|---|---|---|
| `deploy_one` | 3 instances in 2 waves, batches of 1, one deploy, 2 tasks; normal, fast and canary-only; continue, rollback, abort, restart, faults and failing lists everywhere | `OneWorkerPerDeploy`; `GateBeforeNextWave`, `CompleteMeansGated`, each up to the waves that a failing list hid; `InProgressHasWorker`: a row in progress has a task that will end it, unless a restart took it or a cancel hit it before its first step; `ImplementsRelease`: seen from the fleet it is a `FleetRelease` |
| `deploy_groups` | 2 instances, 3 groups, one of which is deleted and created again; instances moved, failing lists, restarts, continue | `DeploySettles`: every deploy ends, pauses, or has lost its task to a restart |
| `operator_rollout` | one instance, two images, two edits (image changed, taken back, paused, resumed), one failed call, unreadable Deployment, wrong answer about a pod, crash or operator restart | `Serving`: once connected and ready, the instance keeps a connected pod until it is scaled to 0, a connected pod fails by itself or a wrong answer moves a gate; `RolloutConverges`, `StatusConverges`; `ImplementsService`: seen from outside it is an `InstanceService`, liveness included |
| `operator_config` | one instance, three configs, each edit to a neighbour of the last one and so back as well, pauses, two edits, one failed call or lost websocket | `ConfigConverges`, `BotsCurrent`, both up to `reverted` |
| `pool_probes` | one account, threshold 2, five events out of requests, quota changes, revoked and renewed tokens, failed answers, restarts; any write may fail | `HealthyHasQuota`; `MirrorAgrees`; `RoutingConverges`: an account that stays usable leaves cooling and offline, one that stays unusable leaves healthy |
| `instances_requests` | 2 uids, 5 keys, 2 policies, 2 requests of any kind, 2 faults or crashes, from 10 states of resources, rows and tombstones, those of `migrate.py` included | `KeyIsLive` up to `torn` and the migrated rows, `NoKeyLost` up to `excused` and `torn`, `PolicyAgrees` up to all three |
| `legacy_sync` | one instance, 2 configs, 2 requests of any kind, 2 faults (of the cluster or of the database) or crashes, loss of the database | `NothingForgotten`; `DeletedIsGone`: what a deletion removes comes back only by a request for that instance or by somebody who had read the row before; `BackupCurrent`; `SyncConverges`: when failures end, every ConfigMap comes to be its row's |
| `stream_bridge` | one response in either mode; heartbeat 2, thresholds 4 and 3, 3 pieces of events in any cut, any number of pings, 2 chunks per tick, slow client, every error | `HeartbeatBetweenEvents`, `NothingLost`, `ClientHears`, `BodyIsComplete`, `WatchdogIsRightInTime`; `ResponseEnds` |
| `quota_pool` | one account with 2 router entries, two runs at a time, two faults or changes from outside of 20 kinds | `HealthyStaysOnline`, `PodsBeforeEntries`; `Settles`: the account comes back for good, with its entries unless it has a vip entry, and unless it is `manual_offline` without a pod, its token is dead or its subscription over |
| `tunnel_routes` | 2 instances, 3 requests of any kind, one fault, starting with one instance at most | `RoutesFollow` |

Runs that show where the code does not do what it, or its documentation, says:

| Run | Claim | What happens |
|---|---|---|
| `operator_pause` | `PauseStops` (crd_ops.py:126) | the health checker writes phase `Paused` on its own; when it is first, `Reconcile` believes the Deployment is scaled down already, and the pod runs on. Pause, resume, pause within one health cycle ends the same way |
| `quota_pending` | `RetryFindsItPaused` (quota-rebalance.py:1625) | `pending_scale_down` is set by a failed scaling; the revival by the account's own pod (1763-1775) does not clear it, unlike the one by the copy (1617), so the retry of a later run scales an account in service to zero |

### Bounds, and why they are enough

- Deploys: two waves, the first with two batches, are what it takes to pass a
  gate, fail a gate, and be interrupted in a batch that is not the first.  Two
  tasks are a deploy and its continue.  Tags never matter beyond "the one deployed" and "the one
  before".  Several deploys one after another are covered by the theorems, not by a run.
- Operator: one instance, since Reconcile and the checks of different instances
  share only the knownBots ConfigMap.  At most two pods is the surge of one.  Two
  edits allow an edit during the handling of another; a third config lets the
  old, the middle and the new one differ, and two are enough to go to a config and back.  `operator_rollout` returns to an
  earlier image rather than going on to a third one: the pods of the first
  template are then current again, which is the harder case.  One fault per behaviour;
  the proof of `Serving` has no such bound.  A refused status update is no fault: it takes only a
  health patch between the read and the update, so the return to an old hash is within the bounds.
- Pool: accounts share nothing but the turn of the loop, so one account is the case
  of interest; five events reach a probe that is answered after its account was
  removed and added again.  Threshold 2 has a count below it, as the code's 3 does; a
  count is not kept beyond the threshold, which is all it is compared with.  Failed writes
  are not counted.
- Instance requests: two requests of any kind interleave call by call.  Five keys: two
  that exist at most, and one for each item of an import and a creation; only two imports of two items each,
  on top of two keys, would use up more.  Two uids: the one that exists and the
  next, which both creations choose.  Two faults are a failed call and a failed undo of
  it.
- Legacy instances: rows share nothing but the backup, so one uid; two configs tell an old
  copy from a new one; two requests are a deletion and what overlaps it; two faults are a failed write
  and a crash before the retry.
- Bridge: heartbeat shorter than the thresholds, and `Post` not a multiple of it, so that a
  heartbeat and the watchdog fall both together and apart; a piece in each of three chunks is an event
  cut at both ends.  Pings are not counted, so that they may come for ever.
- Rebalancer: every behaviour is run with and without a vip entry; two runs overlap; two events are a fault that shows only after another.  Two are not
  always enough (see `marked` below), but the theorems hold for any number.
  `Threshold` and `MaxFails` are 2, so each has a count below it.
- Tunnel: three requests are two that overlap and a sync after them; one fault may fall on any
  of them.  The sets of requests and instances are symmetric.

Distinct states: `deploy_one` 127,376, `deploy_groups` 85,086, `operator_rollout` 669,315, `operator_config`
502,265, `instances_requests` 3,169,949, `legacy_sync` 621,591, `quota_pool` 336,593; the others are smaller.

The theorems have none of these bounds.

`CHECK_DEADLOCK FALSE`: the orchestrator rests when no request is pending, and in a bounded
instance when no request is left.  The same holds of `instances_requests`, `legacy_sync` and
`tunnel_routes`, in which each request happens once; a response ends; and the
rebalancer's account may have nothing more happen to it.  The operator never
rests (its health cycle goes on) and nor does the probe loop, so their runs check deadlock.

### Fairness

`DeployPipeline`: weak fairness of each task's next step, each executor thread,
each step of a rollback and the remaining statements of an abort.  The event loop
runs ready coroutines, and a thread pool its threads; that a thread ends assumes that
the API server answers or drops the connection, since `crd_ops.py` sets no timeout
of its own.  None is assumed of requests, restarts or edits.

`HerOperator`: weak fairness of the reconcile worker, of the health cycle and of the
knownBots loop (each a goroutine that the ticker or the queue wakes again), and of
the cluster: the Deployment controller creates and removes, a pod starts and
connects.  None of edits, faults, restarts, drops or crashes; none of
`DeploymentEvent`, which may or may not come.

`PoolAccounts`: weak fairness of the probe loop only.  `probe_loop` is a task that
runs for the life of the process, each request has a timeout and the sleep is finite.
None of the requested probe, whose answer may be as late as it likes, and none of
requests, faults or the upstream's changes.  The properties assume that usage and token stay as they are
from some time on.

`LegacyInstances`: weak fairness of a request under way, of the sync worker and of the
backup loop with its copies: two loops that sleep and come round again, and threads.  None of
the beginning of requests, nor of faults and crashes.

`StreamBridge`: weak fairness of the generator, which the event loop runs when it is
ready, and of time.  None of the upstream, the prefetch task included, and none of the
client's leaving: a response must end when neither comes.

`QuotaRebalance`: weak fairness of each run's next step (cron starts one every few minutes)
and of the end of each quota window; strong fairness of the young row, the probe cooldown and
the age of the copy, which run out only in the pauses between runs: cron
leaves such pauses, and a duration that has passed has passed.  None of bank and
repair cooldowns, of faults, nor of operators.

`InstanceRegistry` and `TunnelRoutes` make no promise that something happens: nobody
repeats a request or repairs the routes unasked.

## What is proved

By TLAPS, for every value of the constants that satisfies the named assumptions
(`DeployAssumptions`, `OperatorAssumptions`, `PoolAssumptions`, `RegistryAssumptions`,
`LegacyAssumptions`, `BridgeAssumptions`, `RebalanceAssumptions`, `TunnelAssumptions`).  They say
that sets contain what they should and that bounds are naturals, and two things more:

- `DeployAssumptions`: no group is twice in an order of groups; the name is the primary
  key of `deploy_groups` (database.py:83).
- `RegistryAssumptions`: in the initial states nothing has gone wrong yet (`AllInOrder`): a key
  is in one instance only, the one it was issued for, and has that instance's policy.  It may be there twice, in the row and in
  the resource of the same uid, as `operator/migrate.py` leaves it; then nothing is supposed of its policy.

All invariants that the runs check are among the theorems.  `AtRestIsQuiet` is not in a run of its
own: what it says of threads, `ImplementsRelease` checks as images that change under a paused or complete row.

| Theorem | Property |
|---|---|
| `DeployPipelineProof!TypeCorrect` | `TypeOK` |
| `DeployPipelineProof!OneWorker` | `OneWorkerPerDeploy` |
| `DeployPipelineProof!AtRest` | `AtRestIsQuiet` |
| `DeployPipelineProof!InProgressWorked` | `InProgressHasWorker` |
| `DeployPipelineProof!GatesHold` | `GateBeforeNextWave`, if nobody edits the groups |
| `DeployPipelineProof!GatesHoldWhenListed` | the same with no exception, if lists do not fail either |
| `DeployPipelineProof!PipelineImplementsRelease` | `ImplementsRelease`, if nobody edits the groups |
| `DeployPipelineProof!CompleteHolds` | `CompleteMeansGated`, if nobody edits the groups |
| `DeployPipelineProof!StatusGraphHolds` | `StatusGraph`: no step reopens a complete deploy or moves a paused one by itself |
| `HerOperatorProof!OperatorTypeCorrect` | `TypeOK` |
| `HerOperatorProof!OperatorInvariant` | the inductive invariant |
| `HerOperatorProof!ZeroDowntime` | `Serving` |
| `HerOperatorProof!OperatorImplementsService` | `Service!SafeSpec`: the refinement, without its liveness |
| `PoolAccountsProof!PoolTypeCorrect` | `TypeOK` |
| `PoolAccountsProof!PoolHealthyHasQuota` | `HealthyHasQuota` |
| `PoolAccountsProof!PoolMirrorAgrees` | `MirrorAgrees` |
| `InstanceRegistryProof!RegistryTypeOK` | `TypeOK` |
| `InstanceRegistryProof!KeysStayLive` | `KeyIsLive` |
| `InstanceRegistryProof!NoKeysLost` | `NoKeyLost` |
| `InstanceRegistryProof!PoliciesAgree` | `PolicyAgrees` |
| `StreamBridgeProof!StreamTypeCorrect` | `TypeOK` |
| `StreamBridgeProof!StreamHeartbeatBetweenEvents` | `HeartbeatBetweenEvents` |
| `StreamBridgeProof!StreamClientHears` | `ClientHears` |
| `StreamBridgeProof!StreamBodyIsComplete` | `BodyIsComplete` |
| `StreamBridgeProof!StreamWatchdogIsRightInTime` | `WatchdogIsRightInTime` |
| `StreamBridgeProof!StreamNothingLost` | `NothingLost` |
| `LegacyInstancesProof!LegacyTypeCorrect` | `TypeOK` |
| `LegacyInstancesProof!LegacyNothingForgotten` | `NothingForgotten` |
| `LegacyInstancesProof!LegacyDeletedIsGone` | `DeletedIsGone` |
| `LegacyInstancesProof!LegacyBackupCurrent` | `BackupCurrent` |
| `QuotaRebalanceProof!RebalanceTypeOK` | `TypeOK` |
| `QuotaRebalanceProof!HealthyStays` | `HealthyStaysOnline` |
| `QuotaRebalanceProof!PodsComeFirst` | `PodsBeforeEntries` |
| `TunnelRoutesProof!TunnelTypeCorrect` | `TypeOK` |
| `TunnelRoutesProof!TunnelRoutesFollow` | `RoutesFollow` |

*Deploys.*  `OneWorkerPerDeploy` and `AtRestIsQuiet` are not inductive: a continue
may start a second task if an old one can still work under a paused row.  The
invariant `IInv` adds that a working task's row is neither paused nor complete
(`WorkerHoldsRow`), that threads exist only for tasks that submitted a batch, and
that a thread nobody waits for any more belongs to a deploy without a worker whose
row is neither paused nor complete (`LateJobsAreLoose`).  The last one is what a
cancelled or restarted task leaves behind, and the reason why only `rolled_back` and
`failed` rows can still see their fleet move.

*Deploys, the gates.*  `GateBeforeNextWave` and `CompleteMeansGated` speak of what a task has
behind it; `GInv` says what it still has before it.  The waves a task has left are registered, and
every instance of a group registered before one of them has passed or been overlooked, is in the batches
under way, or belongs to a wave that comes earlier in the list
(`WavesAreAhead`; `WaveHasPassed` and `JobsHavePassed` for the wave and the threads under
way).  In normal mode, nobody at all is left out.
`overlooked` grows only when a list fails and shrinks when the instance is checked after all; where lists do not
fail it stays empty, which gives `GatesHoldWhenListed`.  A paused row, and the task a continue has just
made, keep what the next worker needs: everybody before the row's wave has passed
(`PausedHasPassed`, `ResumeHasPassed`).  Both theorems suppose `GroupsStay`: no instance changes its group, no group is
created, deleted or reordered, and the registry has the groups that start-up
seeds.  They need it.  The list of waves is made once, at the start of a task, so a
deploy whose fleet is regrouped meanwhile may patch an instance that was moved before a
gate it never passed, or be complete without it.  `deploy_one` has the same restriction, `deploy_groups` has none.

*Deploys, the refinement.*  A thread is of a release that may change the fleet (`AtRest`) and has its gates
behind it (`GatesHold`), also one that a cancel or a restart left behind; a task that writes a row
owns it (`WorkerHoldsRow`); a task that completes has nobody left out; what an abort or a rollback is
about has a row (`RequestsHaveRows`), since rows are never deleted.  Then every
step maps to a step of `FleetRelease` or to a stutter; `Restart` is the one that maps to several
roll-outs at once.  It needs `GroupsStay`, too: `before` and `listed` never change there.

*Operator.*  `Serving` is not inductive either: that some pod is connected says
nothing of which pod the Deployment controller may remove.  `IInv` adds that only running
pods are connected (`UpRuns`), that a gate which is True belongs to a connected pod as long as
no connected pod has failed by itself (`GateMeansUp`), and that an instance that serves has one
replica and a ready pod (`ServingIsReady`); the last two speak of a bot that is not "excused".  A pod is removed only when another one
is ready or when it is not ready itself, so the last ready pod stays; the health checker
keeps the gate of a connected pod, whether or not its patch arrives, unless it has been answered wrongly, which
ends the promise.  A wrong answer that leaves the gate as it was does not.  With `IInv` every step
maps to a step of `InstanceService` or to a stutter; the removal of a pod is the step that needs it.

*Pool.*  Both invariants are inductive together with `TypeOK`, which says of each probe that
its object is in the registry or its own.  `HealthyHasQuota` speaks of memory,
rows and such objects at once, because each may become one of the others: a restart takes
the rows to memory, a late probe takes its object to a row.  `ApplyIsFinish` reduces
each outcome of a probe to one assignment of a status object, saved or not.

*Bridge.*  `IInv` adds that between two bytes the client of pass-through mode is between events
(`Boundary`); that what the client has waited is bounded by the generator's timer and clock
(`Hearing`) and that the watchdog's clock is the upstream's but for events still in the queue
(`Agreeing`), both as long as no yield has taken time; and that the end comes last in the queue, after
the error that caused it (`EofIsLast`, `ErrorIsQueued`).  For `NothingLost`, `LInv` adds an account of the
pieces on their way (`Accounted`): what the client has, what the buffer holds and what is in the queue
is what the upstream has sent.  The sum over the queue is stated by a ledger, a function from
each place of the queue to the pieces before it, which `Append` extends and `Tail` shifts.

*Instance registry.*  The invariant `RInv` follows each key.  `KInv`: a key is in one place at most; until it
is written the request that generated it alone has it in hand; what another request
has read of a key, it has read in the place it acts on; and what a request revokes or takes back is
in no instance in use.  So `KeyIsLive` needs no knowledge of the other requests.  A key in `migrated` may be in both
stores of its uid; while it is in a resource in use, nobody takes the row's copy of it, since every request asks for the
resource first, so the row has it as long as the resource does, and is excepted afterwards.  `Kept` is
`NoKeyLost` with "in the hands of a request" spelt out, and `FreshCopies` says of requests in `fresh` that
the instance is still what they read, or is gone.  `PendPolicy` and `PoliciesKept` say the same for
the policies: a key has its instance's, or that of the one request that has changed it and is about to write it.
`fresh` replaces a comparison of values: with a third request, an instance may be changed and
changed back between a read and a write, and `PolicyAgrees` fails although the copy looks current.

*Legacy instances.*  Whether a row is marked pending says nothing of what the holders of its copies
will still do; `IInv` says it.  A copy about to be marked synced is in the ConfigMap, or the
row has changed since (`MarkedIsWritten`); a deletion finds gone what it has deleted
(`Deletions`); a copy of a deleted row is held for a `crossed` instance only (`CopiesOfDeleted`); and
`Followed` is `NothingForgotten` with the end of a deletion as its only exception.  `DeletedIsGone` does not use
`crossed`.  It rests on `LateInv`: what a deletion has removed is gone or late, from the removal on and not only
once the row is marked (`GoneOrLate`), and no round that acts for nobody in particular holds a copy that it read
of a deleted row (`FreshRounds`).  `BackupCurrent` is inductive by itself.

*Rebalancer.*  Both invariants are vacuous once too much has gone wrong, so `IInv` says what
holds as long as it has not.  `StaysOpen`, for `HealthyStaysOnline`: the upstream has nothing against the
account, its row is open on disk and in the copy of each run, however old, and counts no more
refusals than there were wrong ones (`spent`), and a used up week only if one was misread; a run is then
in one of six places, and in none that closes the account.  `InOrder`, for
`PodsBeforeEntries`: the run is alone; there are no entries where it may scale to zero, nor
while its row or the one on disk is marked pending; and there is a pod where it makes entries.
The proof attempt is what found `marked`.  Without that condition the property holds in the bounded run and is false
beyond it: scalings that fail leave the mark on an account that has no pod, the pod probe revives the account and makes its
entries, and the retry, two runs later, scales it to zero with its entries in the router.
It takes seven failed calls and nine events in all.  The cause is the one `quota_pending` shows.

*Tunnel.*  `IInv` says what an update that has been alone since it opened knows: the document is
still the one it read (`Trusted`), and a full one has every routed instance and no cleared one
on its list (`Requested`); `Apart` keeps what one request does from what another
knows, and `Reported` ties the history to what exists.  An update that is not alone leaves `suspect`.

*Only model-checked*: everything temporal but `StatusGraph`, `ImplementsRelease` and the safety part of `ImplementsService`, that is
`DeploySettles`, `RolloutConverges`, `StatusConverges`, `ConfigConverges`, `BotsCurrent`,
`RoutingConverges`, `SyncConverges`, `ResponseEnds`, `Settles`, and `Delivers` of
`InstanceService`: fairness and `ENABLED` are out of the proof system's reach.

## Observations

What the models, or the reading they took, showed of the code beside the two runs above.

Deploys.
- A list of the resources that fails is an empty one, with a warning in the log (deployer.py:86-87).  A wave is then
  passed over with its gate (211-213), and the next one is patched; if it happens to every wave, or in
  fast mode once, the row is complete and nobody was patched.  A rollback writes `rolled_back` and takes back nothing.
- A `set_image` that fails is counted and nothing else; the health check then judges the pod of the old image (267-270, 306).
- A continue of a paused canary-only deploy goes on through every later wave
  (deployer.py:10 against 346).
- Deleting a group moves database rows only; the resources keep the group, which is in no wave
  then, and a complete deploy has not reached them (README.md:321 against database.py:669).
- `rollback_deploy` reads the list of instances once and does not wait for the task: a
  thread already in `set_image` finishes later, and its instance stays on the new image
  (deployer.py:377 against 361).
- The wave loop writes `canary` or `rolling` without reading the row: an abort or a rollback
  in the last batch of a wave is overwritten (deployer.py:215).
- A rollback restores the most common tag, so a minority's own tag is lost (159-168, 366).
- The health gate reads the status right after the patch and accepts `Pending` (306); whether
  that status is of after the edit nobody checks.
- README.md:322 says that a continue does not replay completed waves; when the paused wave's group is
  gone by then, it starts again at the first (343-346).

Operator.
- Config A, then B with a refused status update, then A: the hash in the status is still A, the write
  of the ConfigMap is skipped, and it keeps B (reconciler.go:306, 394), until a third config comes.
  This is `reverted`, the exception of `ConfigConverges` and `BotsCurrent`; the same config taken back without a
  refused update is checked.
- `checkFeishuWS` takes a container that has been ready for 15 s and does not answer, or answers what it cannot
  decode, for a connected one (health.go:245-278).  The gate of a new pod without a websocket then opens, and the
  Deployment controller removes the old, connected pod: the bot is offline although nothing of it failed.  TLC finds it
  when "probe" does not excuse.  A connected pod that answers anything but 200 loses its gate.
- knownBots are marked dirty only when a hash replaces another one, so a new instance's entry
  waits for some other change (reconciler.go:333).  `BotsCurrent` speaks of an entry that is
  there, and leaves out the restart between an entry and the first status write.
- README.md:208 and operator-go/README.md:199 say that status is patched rather than updated,
  which holds for the health checker only; docs/improvement-plan.md:92-94 (O1, O3) describes
  the conflict that `UpdateStatus` models.

Pool gateway.
- A probe that finds a window used up moves a disabled or token-invalidated account to
  cooling, and the next good probe to healthy (probe.py:132 against the comments at probe.py:136
  and state.py:46).
- The token cache is never cleared: a reauth is not seen before a restart (refresh.py:42).
- Two turns of one conversation may run at once and pick different accounts; the one that
  ends last decides where the conversation stays (main.py:376).

Instance requests.
- A creation answered 409 patches the instance that is there: its spec is overwritten and
  its key orphaned.  An update of a deleted row makes a key for it; a purge by way of the
  resource drops the row's key without revoking it; two key generations at once orphan one key;
  a lost answer, or a failing second read after the commit (database.py:437, 456), may leave a deleted key
  in the instance; a crash between a key's generation and its write orphans it.
- `migrate.py` leaves the row in use with the key it gives to the resource.  Deleting the resource deletes the key, and when
  the row's deletion fails, that is swallowed (main.py:1403-1409): the row, in use again, has a dead key.  The
  same row keeps the key when the resource changes its provider and the key is deleted (main.py:972-979).  Nor does
  `migrate.py` copy the route policy, so the key's and the resource's may differ from the start.

Legacy instances.
- The worker may write a ConfigMap between `delete_configmap` and `db.delete_instance` (main.py:1425-1433), or after them
  from the row it read before: the deleted instance has a ConfigMap, and nobody removes it.  A start or restart in the same place
  leaves a pod.  This is `late`, the exception of `DeletedIsGone`.
- When `delete_pvc` or `db.delete_instance` fails, an active row stays with nothing behind it, marked as synced.
- The worker marks a row synced that was changed and changed back meanwhile from a
  copy of before; a stop of a deleted uid revives its row; an update or a restart of a deleted
  row makes its ConfigMap or pod again; a failed backup is not repeated before the next write.

Bridge.
- A stall error is glued to a part of an event that is flushed with it; an
  `asyncio.TimeoutError` of the upstream in collapse mode sends a truncated buffer as complete
  (streaming_bridge.py:1235); an empty chunk flushes part of an event; a marker cut across
  chunks is not seen; with a slow client the watchdog may give up on an upstream that has
  progressed (1380).

Rebalancer.
- An account with a vip entry that was revived by scaling never gets its pool entries back, since the
  snapshot counts the vip entry (quota-rebalance.py:2091).
- A `manual_offline` account with 0 replicas is relabelled as scaled down, and the probe that could heal it needs a pod: the
  self-heal after six hours that the script's header promises (15-16, 28-29) never comes.  Both are exceptions of `Settles`.
- A bank-reset cooldown is lost when a probe rewrites the row; `pause_acct` returns 0 when
  `/model/info` fails, and the caller's use of it ends the run; nothing keeps two cron runs apart; an
  ssh failure with a dead copy counts as a 401; an operator's scaling to 0 is undone by the revival.

Tunnel.
- Two overlapping updates lose a route although both report success (cloudflare_ops.py:357-418;
  the message of main.py:83 says "DNS + remote tunnel ingress synced"); nothing repairs it before the next
  full sync.
- A failed list of resources counts as "no instances" in a full sync (91-118), which then
  drops the routes of every instance without a row; README.md:591 says that a sync completes the routes.
- The results of the DNS calls are not looked at; a changed prefix reaches the tunnel only with the
  next sync; a restart of a deleted legacy instance brings its routes back.

## What is not modelled, and why

Deploy orchestrator: the legacy path without the operator (`k8s_ops`); the counters
done/failed/total; instances that exist only as a database row; a failure of
the write that records a failure; rows of running instances beside the resources, which a failing list of
the resources would leave in the list; a write of the abort thread between two statements of one step of the event loop (inside a
continue or a rollback, or between the loop's read of the status and its own write); more than one abort at a time; more than one admin process
(`_active_task` is a module variable, the service runs one).  A health verdict is a free
choice.

Operator: deletion and its finalizer; PVC, Service and Secret content and the pod
template (one value, the pod-spec key, stands for them); Deployments from before that
key; two operators with leader election; pods that have succeeded or failed or whose phase is unknown (health.go:186-193).  Reads return the resource as it is: the
lag of the informer cache appears only as time between a read and its use, and a
health cycle looks at the pods when it checks them rather than when it lists them.  A config change is a
new hash; two texts with the same hash are not considered.

Pool: the state log (its from_state is read before the await, so an entry may be
wrong), metrics, priorities and times (`cooldown_until` is loaded and compared but
nothing sets it), a bundle without an account id, a token file that cannot be loaded (its account is
not probed and stays as it is, probe.py:56-61), more than one requested probe at a time;
the loop's order of visits is left open.  `refresh.py` beyond `load_bundle` has no caller.
`RoutingConverges` speaks of the token that will be sent.  Turns, picker, affinity table and the stream
conversion (`main.py`, `picker.py`, `affinity.py`, `sse.py`) are not modelled.

Instance requests: pods, PVCs and the batch action; that LiteLLM refuses a key alias in use;
failing reads, which just end a request.

Legacy instances: the daily copies of the database, which nothing reads back; the calls
inside the creation of a pod.

Bridge: the first-token time stamp, the patches of httpx and of the iterators, the
choice of the requests to bridge, the text of the reassembled body.

Rebalancer: alerts and their counters, weights, entries of the account's models under another
URL, accounts at other locations (the pool has none); a quota answer without its reset time (every answer is taken to carry
one; without it quota-rebalance.py:1699 never holds); a vip entry made or removed within a behaviour; the limit of 20
missing copies of `auth.json` that one run fetches (1578-1586).

Tunnel: the text of the ConfigMap and the restart of cloudflared, DNS records.

Not modelled at all: the request callbacks of LiteLLM, config text, metrics, the
agent, manifests, the front end and the one-shot scripts, which keep no state that several actors
decide on, or run once by hand; the onboarding of accounts, whose result, a new token, is an action of the
pool models; the Python operator, which the Go one replaced; `weighted_affinity.py`, one
get and one set per request, each complete in itself.

## Plan

What is left, the most consequential first.

1. `DeployRollout`: the deploy's health gate over the status that the operator writes, with
   `InstanceService` extended by a status that follows the spec after any delay.  Question:
   can a wave pass its gate on the status of the old pod?
2. `PoolTurns` over `PoolAccounts`: turns that pick an account, run and set the affinity of
   their conversation.
3. Deletion of a `HerInstance` in `HerOperator`.

Safety and liveness stay in one run where the instance allows it, in two where it does not.
