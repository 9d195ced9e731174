---------------------------- MODULE HerOperator ----------------------------
(***************************************************************************)
(* The HerInstance operator (operator-go/internal/controller): one         *)
(* HerInstance resource, its Deployment and ConfigMap, and the three loops *)
(* of the operator that share them:                                        *)
(*                                                                         *)
(*   - Reconcile, one worker: reads the resource once, then writes the     *)
(*     ConfigMap, the Deployment and at last the status, with an Update    *)
(*     that the API server refuses when the resource has changed since it  *)
(*     was read (the refusal is logged, nothing more);                     *)
(*   - the health checker, every 30 seconds: reads the resource, looks at  *)
(*     the pods, sets their readiness gate, patches the status fields it   *)
(*     changed, whatever has happened to the resource since;               *)
(*   - the knownBots manager: rebuilds a shared ConfigMap when dirty.      *)
(*                                                                         *)
(* The Deployment controller and the pods are the cluster's, modelled by   *)
(* what this code asks of them: one replica, maxSurge 1, maxUnavailable 0, *)
(* and a pod that is ready only when its gate is True.                     *)
(*                                                                         *)
(* A config is the text generated from the spec; its hash stands for it.   *)
(* The pod-spec key is the image.  A read returns the resource as it is;   *)
(* the informer cache's lag shows as time between a read and its use.      *)
(***************************************************************************)
EXTENDS Naturals, Sequences, SequencesExt

CONSTANTS
    Images,       \* values of the pod-spec key
    Configs,      \* values of the generated config
    NoConfig,     \* no config, no hash
    InitSpecs,    \* what the instance may be created with: image and config
    ImageEdits, ConfigEdits,  \* the changes that happen: pairs <<from, to>>
    Edits,        \* spec edits that happen: subset of {"image", "config", "pause"}
    Faults,       \* what goes wrong: subset of AllFaults
    MaxEdits,     \* bound: spec edits
    MaxFaults     \* bound: faults

\* api: a call of the API server fails; get: Reconcile cannot read the Deployment;
\* probe: checkFeishuWS takes a pod for what it is not; restart: the operator starts
\* again; drop, crash: a pod fails.
AllFaults == {"api", "get", "probe", "restart", "drop", "crash"}

\* What the spec says of the pod template, and what the template keeps of it.
Template == [image: Images, config: Configs]

ASSUME OperatorAssumptions ==
    /\ Images # {} /\ Configs # {}
    /\ NoConfig \notin Configs
    /\ InitSpecs \subseteq Template
    /\ ImageEdits \subseteq (Images \X Images)
    /\ ConfigEdits \subseteq (Configs \X Configs)
    /\ Edits \subseteq {"image", "config", "pause"}
    /\ Faults \subseteq AllFaults
    /\ MaxEdits \in Nat /\ MaxFaults \in Nat

VARIABLES
    her,     \* the HerInstance: spec.image, config, paused; status phase, hash, ws
    queued,  \* the work queue holds a reconcile request
    rec,     \* the Reconcile call: where it is, its copy of the resource
    fresh,   \* the resource is unchanged since Reconcile read it
    cm,      \* the config in the instance's ConfigMap
    dep,     \* the Deployment
    pods,    \* its pods, oldest first
    health,  \* the health cycle: where it is, its copy, the status it found
    bots,    \* the knownBots manager, and the entry in the shared ConfigMap
    edits, faults,  \* counters for the bounds
    reverted, \* history: where another config was in use when the spec went back to
              \* the one the status has the hash of
    served   \* history: "yes" once a connected pod has had its gate set since the
             \* last scale to 0, "excused" once a connected pod has failed by itself
             \* or checkFeishuWS has set a gate by a wrong answer

vars == <<her, queued, rec, fresh, cm, dep, pods, health, bots, edits, faults, reverted, served>>

-----------------------------------------------------------------------------
(* Types.                                                                  *)

Phases == {"", "Pending", "Running", "Failed", "Paused"}
Ws == {"", "Unknown", "Connected", "Disconnected"}
SomeConfig == Configs \cup {NoConfig}

Her == [image: Images, config: Configs, paused: BOOLEAN,
        phase: Phases, hash: SomeConfig, ws: Ws]

\* live: the live-config-hash annotation; template: what the pods are made from.
Deployment == [exists: BOOLEAN, template: Template, live: Configs, replicas: {0, 1}]

\* up: its Feishu websocket is connected; gate: the readiness gate's condition.
Pod == [template: Template, state: {"Pending", "Running", "Crash"},
        up: BOOLEAN, gate: BOOLEAN]

\* What a call has read and goes by, then what it will write; between two calls
\* nothing is kept.
Idle == [pc |-> "idle"]

\* In a status write: the field is left as it was read.
Same == "same"

Reading == [pc: {"scaleDown", "apply", "decide", "ensure"},
            image: Images, config: Configs, hash: SomeConfig]

Writing == [pc: {"status"}, phase: Phases \cup {Same}, hash: SomeConfig,
            dirties: BOOLEAN, retry: BOOLEAN]

Looking == [pc: {"check"}, paused: BOOLEAN, phase: Phases, ws: Ws]

Patching == [pc: {"patch"}, phase: Phases \cup {Same}, ws: Ws \cup {Same}]

TypeOK ==
    /\ her \in Her
    /\ queued \in BOOLEAN
    /\ rec \in Reading \cup Writing \cup {Idle}
    /\ fresh \in BOOLEAN
    /\ cm \in SomeConfig
    /\ dep \in Deployment
    /\ pods \in Seq(Pod) /\ Len(pods) <= 2
    /\ health \in Looking \cup Patching \cup {Idle}
    /\ bots \in [pc: {"idle", "write"}, dirty: BOOLEAN, entry: SomeConfig, next: SomeConfig]
    /\ edits \in 0..MaxEdits
    /\ faults \in 0..MaxFaults
    /\ reverted \subseteq {"cm", "bots"}
    /\ served \in {"no", "yes", "excused"}

-----------------------------------------------------------------------------
(* Initially an instance has just been created; the operator has started   *)
(* before it, and listed no bots.                                          *)

NewHer(spec) ==
    [image |-> spec.image, config |-> spec.config, paused |-> FALSE,
     phase |-> "", hash |-> NoConfig, ws |-> ""]

Init ==
    /\ \E spec \in InitSpecs : her = NewHer(spec)
    /\ queued = TRUE
    /\ rec = Idle
    /\ fresh = FALSE
    /\ cm = NoConfig
    /\ dep = [exists |-> FALSE, template |-> [image |-> her.image, config |-> her.config],
              live |-> her.config, replicas |-> 0]
    /\ pods = <<>>
    /\ health = Idle
    /\ bots = [pc |-> "idle", dirty |-> FALSE, entry |-> NoConfig, next |-> NoConfig]
    /\ edits = 0 /\ faults = 0
    /\ reverted = {}
    /\ served = "no"

\* Something goes wrong that the bound still allows.
Fault(kind) == kind \in Faults /\ faults < MaxFaults /\ faults' = faults + 1

\* A write of the resource: a watch event follows, and copies are out of date.
WriteHer(h) == her' = h /\ queued' = TRUE /\ fresh' = FALSE

-----------------------------------------------------------------------------
(* The admin service edits the spec.                                       *)

Edit(kind, h) ==
    /\ kind \in Edits /\ edits < MaxEdits
    /\ h # her
    /\ WriteHer(h)
    /\ edits' = edits + 1
    /\ UNCHANGED <<rec, cm, dep, pods, health, bots, faults, served>>

SetImage(i) ==
    /\ <<her.image, i>> \in ImageEdits
    /\ Edit("image", [her EXCEPT !.image = i])
    /\ UNCHANGED reverted

\* Where a config other than c is in use, or about to be.
InUseOtherThan(c) ==
    {place \in {"cm", "bots"} :
        CASE place = "cm" -> cm # c \/ (rec.pc = "apply" /\ rec.config # c)
          [] place = "bots" -> {bots.entry, bots.next} \ {NoConfig, c} # {}}

SetConfig(c) ==
    /\ <<her.config, c>> \in ConfigEdits
    /\ Edit("config", [her EXCEPT !.config = c])
    /\ reverted' = IF c = her.hash THEN InUseOtherThan(c) ELSE {}

Pause == Edit("pause", [her EXCEPT !.paused = TRUE]) /\ UNCHANGED reverted

Resume == Edit("pause", [her EXCEPT !.paused = FALSE]) /\ UNCHANGED reverted

-----------------------------------------------------------------------------
(* Reconcile.                                                              *)

\* The worker takes the request and reads the resource.  A paused instance
\* whose phase already is Paused needs nothing.
ReadHer ==
    /\ rec.pc = "idle" /\ queued
    /\ queued' = FALSE
    /\ IF her.paused /\ her.phase = "Paused" THEN UNCHANGED <<rec, fresh>>
       ELSE /\ rec' = [pc |-> IF her.paused THEN "scaleDown" ELSE "apply",
                       image |-> her.image, config |-> her.config, hash |-> her.hash]
            /\ fresh' = TRUE
    /\ UNCHANGED <<her, cm, dep, pods, health, bots, edits, reverted, faults, served>>

\* The call ends with a write of the status.
ToStatus(phase, hash, retry) ==
    rec' = [pc |-> "status", phase |-> phase, hash |-> hash, retry |-> retry,
            dirties |-> hash # rec.hash /\ rec.hash # NoConfig]

\* scaleDeployment(0), its error ignored; the new phase is set on the copy.
ScaleDown ==
    /\ rec.pc = "scaleDown"
    /\ \/ /\ dep.exists
          /\ dep' = [dep EXCEPT !.replicas = 0]
          /\ served' = IF served = "yes" THEN "no" ELSE served
          /\ queued' = (queued \/ dep' # dep)
          /\ UNCHANGED faults
       \/ ~dep.exists /\ UNCHANGED <<dep, served, queued, faults>>
       \/ Fault("api") /\ UNCHANGED <<dep, served, queued>>
    /\ ToStatus("Paused", rec.hash, FALSE)
    /\ UNCHANGED <<her, fresh, cm, pods, health, bots, edits, reverted>>

\* ensurePVC, ensureService or applyConfig fails: back on the queue.
ApplyFails ==
    /\ rec.pc = "apply" /\ Fault("api")
    /\ rec' = Idle /\ fresh' = FALSE
    /\ queued' = TRUE
    /\ UNCHANGED <<her, cm, dep, pods, health, bots, edits, reverted, served>>

\* Mutant: an existing ConfigMap is never written again.
ConfigMapKeptAnyhow == cm # NoConfig

\* The ConfigMap is current, as far as the status tells.
ConfigMapKept == rec.hash = rec.config /\ cm # NoConfig

ApplyConfig ==
    /\ rec.pc = "apply"
    /\ cm' = IF ConfigMapKept THEN cm ELSE rec.config
    /\ rec' = [rec EXCEPT !.pc = "decide"]
    /\ UNCHANGED <<her, queued, fresh, dep, pods, health, bots, edits, reverted, faults, served>>

NeedRollout == ~dep.exists \/ dep.template.image # rec.image

\* A Deployment that cannot be read is taken for one that has to be made.
DecideRollout ==
    /\ rec.pc = "decide"
    /\ \/ NeedRollout /\ UNCHANGED faults
       \/ ~NeedRollout /\ Fault("get")
    /\ rec' = [rec EXCEPT !.pc = "ensure"]
    /\ UNCHANGED <<her, queued, fresh, cm, dep, pods, health, bots, edits, reverted, served>>

\* Hot reload, or else scaling up after a pause; an error is only logged.  The
\* status is written when the hash is new.
Adjusted ==
    IF dep.live # rec.config THEN [dep EXCEPT !.live = rec.config]
                                  ELSE [dep EXCEPT !.replicas = 1]

DecideKeep ==
    /\ rec.pc = "decide" /\ ~NeedRollout
    /\ IF rec.hash # rec.config
       THEN ToStatus(Same, rec.config, FALSE) /\ fresh' = fresh
       ELSE rec' = Idle /\ fresh' = FALSE
    /\ \/ dep' = Adjusted /\ queued' = (queued \/ dep' # dep) /\ UNCHANGED faults
       \/ Fault("api") /\ UNCHANGED <<dep, queued>>
    /\ UNCHANGED <<her, cm, pods, health, bots, edits, reverted, served>>

\* ensureDeployment creates or replaces the Deployment; on an error the phase
\* is Failed and the request is retried.
Ensure ==
    /\ rec.pc = "ensure"
    /\ \/ /\ dep' = [exists |-> TRUE, live |-> rec.config, replicas |-> 1,
                     template |-> [image |-> rec.image, config |-> rec.config]]
          /\ ToStatus("Pending", rec.config, FALSE)
          /\ queued' = TRUE
          /\ UNCHANGED faults
       \/ /\ Fault("api")
          /\ ToStatus("Failed", rec.hash, TRUE)
          /\ UNCHANGED <<dep, queued>>
    /\ UNCHANGED <<her, fresh, cm, pods, health, bots, edits, reverted, served>>

Patched(old, new) == IF new = Same THEN old ELSE new

\* Status().Update: refused when the resource has changed since it was read.
\* knownBots become dirty, written or not, when a hash was replaced by another.
UpdateStatus ==
    /\ rec.pc = "status"
    /\ \/ /\ fresh
          /\ WriteHer([her EXCEPT !.phase = Patched(@, rec.phase), !.hash = rec.hash])
          /\ UNCHANGED faults
       \/ /\ \/ ~fresh /\ UNCHANGED faults
             \/ fresh /\ Fault("api")
          /\ queued' = (queued \/ rec.retry)
          /\ fresh' = FALSE
          /\ UNCHANGED her
    /\ rec' = Idle
    /\ bots' = [bots EXCEPT !.dirty = @ \/ rec.dirties]
    /\ UNCHANGED <<cm, dep, pods, health, edits, reverted, served>>

-----------------------------------------------------------------------------
(* The health checker.                                                     *)

HealthList ==
    /\ health.pc = "idle"
    /\ health' = [pc |-> "check", paused |-> her.paused, phase |-> her.phase, ws |-> her.ws]
    /\ UNCHANGED <<her, queued, rec, fresh, cm, dep, pods, bots, edits, reverted, faults, served>>

\* The readiness that counts for the Deployment controller.
Ready(p) == p.state = "Running" /\ p.gate

SomeReady(ps) == \E i \in DOMAIN ps : Ready(ps[i])

\* The pod's own phase is Running while a container restarts again and again.
\* The Deployment's containers always start again: no pod ends as Succeeded, and
\* an evicted (Failed) or unreachable (Unknown) one is left out.
Started == {i \in DOMAIN pods : pods[i].state # "Pending"}

Primary == CHOOSE i \in Started : \A j \in Started : j <= i

\* Mutant: the reason a container waits for is used as the phase.
PodsPhaseReason ==
    IF Started = {} THEN "Pending"
    ELSE IF pods[Primary].state = "Crash" THEN "CrashLoopBackOff" ELSE "Running"

PodsPhase ==
    IF Started = {} THEN "Pending"
    ELSE IF pods[Primary].state = "Crash" THEN "Failed" ELSE "Running"

\* checkFeishuWS: what it makes of a started pod, wrong about those of odd.  A
\* container that runs and cannot be asked counts as connected when it has been
\* ready for 15 seconds, and so does one whose 200 cannot be decoded; one that
\* answers anything but 200, or cannot be asked earlier, counts as not connected.
CheckFeishuWS(i, odd) == IF i \in odd THEN ~pods[i].up ELSE pods[i].up

PodsWs(old, odd) ==
    IF \E i \in Started : CheckFeishuWS(i, odd) THEN "Connected"
    ELSE IF Started # {} THEN "Disconnected" ELSE old

\* Mutants: a started container counts as connected; only one pod is looked at.
GatesSetWhenStarted(odd) == [i \in DOMAIN pods |->
                IF i \in Started THEN [pods[i] EXCEPT !.gate = TRUE] ELSE pods[i]]

GatesSetOnOne(odd) == [i \in DOMAIN pods |->
                IF i \in Started \cap {1} THEN [pods[i] EXCEPT !.gate = CheckFeishuWS(i, odd)]
                                          ELSE pods[i]]

GatesSet(odd) == [i \in DOMAIN pods |->
                IF i \in Started THEN [pods[i] EXCEPT !.gate = CheckFeishuWS(i, odd)]
                                 ELSE pods[i]]

\* Mutant: a return to Running is not patched.
DifferingDown(new, old) == IF new \in {old, "Running"} THEN Same ELSE new

\* The patch holds the fields that differ from the copy.
Differing(new, old) == IF new = old THEN Same ELSE new

Found(phase, ws) ==
    health' = [pc |-> "patch", phase |-> Differing(phase, health.phase),
                               ws |-> Differing(ws, health.ws)]

\* Pods that can be misjudged: a container that waits to start again is not ready
\* and does not answer.
Misreadable == {i \in Started : pods[i].state = "Running"}

\* What may go wrong in one cycle, at the price of one fault: answers that are
\* wrong, and gates whose patch fails.
Mishap(odd, lost) ==
    IF odd # {} THEN Fault("probe") /\ (lost = {} \/ "api" \in Faults)
    ELSE IF lost # {} THEN Fault("api")
    ELSE UNCHANGED faults

\* The gates are set one by one; a gate whose patch fails stays as it was, and what
\* was found is reported anyhow.
Judge(odd, lost) ==
    /\ Found(PodsPhase, PodsWs(health.ws, odd))
    /\ pods' = [i \in DOMAIN pods |-> IF i \in lost THEN pods[i] ELSE GatesSet(odd)[i]]
    /\ served' = IF \E i \in odd : pods'[i].gate # pods[i].gate THEN "excused"
                 ELSE IF served = "no" /\ dep.replicas = 1 /\ SomeReady(pods') THEN "yes"
                 ELSE served

HealthCheck ==
    /\ health.pc = "check"
    /\ \/ /\ health.paused
          /\ Found("Paused", health.ws)
          /\ UNCHANGED <<pods, faults, served>>
       \/ /\ ~health.paused /\ pods = <<>>
          /\ Found("Pending", "Unknown")
          /\ UNCHANGED <<pods, faults, served>>
       \/ /\ ~health.paused /\ pods # <<>>
          /\ \E odd \in SUBSET Misreadable, lost \in SUBSET Started :
                Mishap(odd, lost) /\ Judge(odd, lost)
    /\ UNCHANGED <<her, queued, rec, fresh, cm, dep, bots, edits, reverted>>

\* Status().Patch; lastHealthCheck is always part of it, so the resource changes
\* even when nothing else is patched.
HealthPatch ==
    /\ health.pc = "patch"
    /\ \/ /\ WriteHer([her EXCEPT !.phase = Patched(@, health.phase), !.ws = Patched(@, health.ws)])
          /\ UNCHANGED faults
       \/ Fault("api") /\ UNCHANGED <<her, queued, fresh>>
    /\ health' = Idle
    /\ UNCHANGED <<rec, cm, dep, pods, bots, edits, reverted, served>>

-----------------------------------------------------------------------------
(* The knownBots manager: clears the flag, lists, then writes.             *)

RebuildList ==
    /\ bots.pc = "idle" /\ bots.dirty
    /\ bots' = [bots EXCEPT !.pc = "write", !.dirty = FALSE,
                            !.next = IF her.paused THEN NoConfig ELSE her.config]
    /\ UNCHANGED <<her, queued, rec, fresh, cm, dep, pods, health, edits, reverted, faults, served>>

\* Mutant: the flag is cleared when the write is done.
RebuildWriteClears ==
    /\ bots.pc = "write"
    /\ \/ /\ bots' = [bots EXCEPT !.pc = "idle", !.entry = bots.next, !.next = NoConfig,
                                  !.dirty = FALSE]
          /\ UNCHANGED faults
       \/ Fault("api") /\ bots' = [bots EXCEPT !.pc = "idle", !.dirty = TRUE, !.next = NoConfig]
    /\ UNCHANGED <<her, queued, rec, fresh, cm, dep, pods, health, edits, reverted, served>>

RebuildWrite ==
    /\ bots.pc = "write"
    /\ \/ /\ bots' = [bots EXCEPT !.pc = "idle", !.entry = bots.next, !.next = NoConfig]
          /\ UNCHANGED faults
       \/ Fault("api") /\ bots' = [bots EXCEPT !.pc = "idle", !.dirty = TRUE, !.next = NoConfig]
    /\ UNCHANGED <<her, queued, rec, fresh, cm, dep, pods, health, edits, reverted, served>>

\* The operator starts again: every resource is listed, knownBots are rebuilt.
Restart ==
    /\ Fault("restart")
    /\ rec' = Idle /\ health' = Idle
    /\ bots' = [bots EXCEPT !.pc = "idle", !.dirty = TRUE, !.next = NoConfig]
    /\ queued' = TRUE /\ fresh' = FALSE
    /\ UNCHANGED <<her, cm, dep, pods, edits, reverted, served>>

-----------------------------------------------------------------------------
(* The cluster: the Deployment controller and the pods.                    *)

\* The reconciler owns the Deployment: a change of its status is a request too.
DeploymentEvent ==
    /\ dep.exists /\ ~queued
    /\ queued' = TRUE
    /\ UNCHANGED <<her, rec, fresh, cm, dep, pods, health, bots, edits, reverted, faults, served>>

Current(p) == p.template = dep.template

CreatePod ==
    /\ dep.replicas = 1 /\ Len(pods) < 2
    /\ \A i \in DOMAIN pods : ~Current(pods[i])
    /\ pods' = Append(pods, [template |-> dep.template, state |-> "Pending",
                             up |-> FALSE, gate |-> FALSE])
    /\ UNCHANGED <<her, queued, rec, fresh, cm, dep, health, bots, edits, reverted, faults, served>>

\* A surplus pod goes when the other one is ready, or when it is not ready
\* itself and no pod of the new template is waiting to be.
MayGo(i) ==
    \/ dep.replicas = 0
    \/ /\ dep.replicas = 1 /\ ~Current(pods[i])
       /\ \E j \in DOMAIN pods \ {i} : Ready(pods[j]) \/ (~Ready(pods[i]) /\ ~Current(pods[j]))

RemovePod(i) ==
    /\ MayGo(i)
    /\ pods' = RemoveAt(pods, i)
    /\ UNCHANGED <<her, queued, rec, fresh, cm, dep, health, bots, edits, reverted, faults, served>>

PodStep(i, p) ==
    /\ pods' = [pods EXCEPT ![i] = p]
    /\ UNCHANGED <<her, queued, rec, fresh, cm, dep, health, bots, edits, reverted>>

PodStarts(i) ==
    /\ pods[i].state # "Running"
    /\ PodStep(i, [pods[i] EXCEPT !.state = "Running"])
    /\ UNCHANGED <<faults, served>>

PodConnects(i) ==
    /\ pods[i].state = "Running" /\ ~pods[i].up
    /\ PodStep(i, [pods[i] EXCEPT !.up = TRUE])
    /\ UNCHANGED <<faults, served>>

PodDrops(i) ==
    /\ pods[i].up /\ Fault("drop")
    /\ PodStep(i, [pods[i] EXCEPT !.up = FALSE])
    /\ served' = "excused"

PodCrashes(i) ==
    /\ pods[i].state = "Running" /\ Fault("crash")
    /\ PodStep(i, [pods[i] EXCEPT !.state = "Crash", !.up = FALSE])
    /\ served' = IF pods[i].up THEN "excused" ELSE served

-----------------------------------------------------------------------------
Reconciling ==
    ReadHer \/ ScaleDown \/ ApplyFails \/ ApplyConfig \/ DecideRollout
    \/ DecideKeep \/ Ensure \/ UpdateStatus

Checking == HealthList \/ HealthCheck \/ HealthPatch

Rebuilding == RebuildList \/ RebuildWrite

Cluster ==
    \/ DeploymentEvent \/ CreatePod
    \/ \E i \in DOMAIN pods :
          RemovePod(i) \/ PodStarts(i) \/ PodConnects(i) \/ PodDrops(i) \/ PodCrashes(i)

Next ==
    \/ \E i \in Images : SetImage(i)
    \/ \E c \in Configs : SetConfig(c)
    \/ Pause \/ Resume
    \/ Reconciling \/ Checking \/ Rebuilding \/ Restart \/ Cluster

\* The worker and the two loops keep going; the cluster keeps moving pods.
Fairness ==
    /\ WF_vars(Reconciling)
    /\ WF_vars(Checking)
    /\ WF_vars(Rebuilding)
    /\ WF_vars(CreatePod)
    /\ \A i \in 1..2 : /\ WF_vars(i \in DOMAIN pods /\ RemovePod(i))
                       /\ WF_vars(i \in DOMAIN pods /\ PodStarts(i))
                       /\ WF_vars(i \in DOMAIN pods /\ PodConnects(i))

Spec == Init /\ [][Next]_vars /\ Fairness

-----------------------------------------------------------------------------
(* Safety.                                                                 *)

\* Zero downtime: once a pod of the instance is connected and ready, whatever
\* is edited and whichever step fails, some pod stays connected until the
\* instance is scaled to 0, unless a connected pod fails by itself or the health
\* checker has opened the gate of a pod that is not connected, or closed that of
\* one that is: checkFeishuWS guesses when a pod cannot be asked.
Serving == served = "yes" => \E i \in DOMAIN pods : pods[i].up

(* Liveness.                                                               *)

\* When edits end, the one pod left runs the image of the spec and is ready,
\* unless the instance is paused.
RolloutConverges ==
    <>[](her.paused \/ /\ dep.exists /\ dep.replicas = 1
                       /\ dep.template.image = her.image
                       /\ Len(pods) = 1 /\ Current(pods[1]) /\ Ready(pods[1]))

\* When edits end, the ConfigMap and the hash that pods were told to wait for
\* are those of the spec.  Not so when the spec goes back to a config whose hash
\* the status still has, and the ConfigMap had, or was just getting, another one
\* whose hash was never recorded: Reconcile then takes the ConfigMap for current.
ConfigConverges ==
    <>[](\/ her.paused
         \/ "cm" \in reverted
         \/ dep.exists /\ cm = her.config /\ dep.live = her.config)

\* When edits end, the bot's entry among the knownBots, if there is one, is the
\* one of its config; again not when the spec goes back to a config whose hash the
\* status still has, after the entry was made from another one.
BotsCurrent ==
    <>[](\/ her.paused
         \/ "bots" \in reverted
         \/ bots.entry \in {NoConfig, her.config})

\* When edits end, the status comes to say what is the case, whichever of the
\* two writers wrote last.
StatusConverges ==
    <>[](IF her.paused THEN her.phase = "Paused"
                       ELSE her.phase = "Running" /\ her.ws = "Connected")

\* "Pause = operator deletes Pod" (crd_ops.py): a paused instance ends up with
\* its Deployment scaled to 0.
PauseStops == <>[](her.paused => dep.replicas = 0)

-----------------------------------------------------------------------------
(* What all this is for: InstanceService.                                  *)

Online == \E i \in DOMAIN pods : pods[i].up

\* A pause, or the scaling to 0 that one has led to.
Stopping == her.paused \/ rec.pc = "scaleDown"

Service == INSTANCE InstanceService WITH online <- Online, service <- served, stopping <- Stopping

\* Seen from outside, pods and loops together are a bot that, once in service,
\* goes away only for a stop somebody asked for, and that comes into service for
\* good unless stops are asked for again and again.
ImplementsService == Service!Spec

=============================================================================
