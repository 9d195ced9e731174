------------------------- MODULE HerOperatorProof -------------------------
(***************************************************************************)
(* Proofs about HerOperator, for any images, configs, edits and faults.    *)
(*                                                                         *)
(* Zero downtime rests on the gate: while no connected pod has failed by   *)
(* itself and no wrong answer of checkFeishuWS has moved a gate, a gate    *)
(* that is True belongs to a connected pod, because the health checker     *)
(* sets it to what it is told.  The Deployment controller lets             *)
(* a pod go only when the other one's gate is True, or when the pod itself *)
(* is not ready, so the last ready pod stays; and an instance that serves  *)
(* is not scaled to 0.                                                     *)
(*                                                                         *)
(* The same invariant shows that the operator implements InstanceService:  *)
(* a step that takes the last connected pod away needs a service that has  *)
(* ended, so every step maps to a step of that module or to a stutter.     *)
(***************************************************************************)
EXTENDS HerOperator, SequenceTheorems, TLAPS

-----------------------------------------------------------------------------
(* The inductive invariant.                                                *)

\* Only a running pod is connected.
UpRuns == \A i \in DOMAIN pods : pods[i].up => pods[i].state = "Running"

GateMeansUp ==
    served # "excused" => \A i \in DOMAIN pods : pods[i].gate => pods[i].up

ServingIsReady == served = "yes" => dep.replicas = 1 /\ SomeReady(pods)

IInv == TypeOK /\ UpRuns /\ GateMeansUp /\ ServingIsReady

-----------------------------------------------------------------------------
(* Sequences of pods.                                                      *)

LEMMA RemoveAtProperties ==
    ASSUME NEW S, NEW s \in Seq(S), NEW i \in 1..Len(s)
    PROVE  /\ RemoveAt(s, i) \in Seq(S)
           /\ Len(RemoveAt(s, i)) = Len(s) - 1
           /\ \A k \in 1..(Len(s) - 1) :
                 RemoveAt(s, i)[k] = IF k < i THEN s[k] ELSE s[k + 1]
<1> DEFINE a == SubSeq(s, 1, i - 1)
           b == SubSeq(s, i + 1, Len(s))
<1>1. /\ a \in Seq(S) /\ Len(a) = i - 1
      /\ \A k \in 1..(i - 1) : a[k] = s[k]
    <2>1. \A k \in 1..(i - 1) : s[k] \in S
        OBVIOUS
    <2>2. QED
        BY <2>1, SubSeqProperties
<1>2. /\ b \in Seq(S) /\ Len(b) = Len(s) - i
      /\ \A k \in 1..(Len(s) - i) : b[k] = s[i + k]
    <2>1. \A k \in (i + 1)..Len(s) : s[k] \in S
        OBVIOUS
    <2>2. QED
        BY <2>1, SubSeqProperties
<1>3. RemoveAt(s, i) = a \o b
    BY DEF RemoveAt
<1> HIDE DEF a, b
<1>4. /\ a \o b \in Seq(S)
      /\ Len(a \o b) = Len(a) + Len(b)
      /\ \A k \in 1..(Len(a) + Len(b)) :
            (a \o b)[k] = IF k <= Len(a) THEN a[k] ELSE b[k - Len(a)]
    BY <1>1, <1>2, ConcatProperties
<1>5. Len(a) + Len(b) = Len(s) - 1
    BY <1>1, <1>2
<1>6. ASSUME NEW k \in 1..(Len(s) - 1)
      PROVE  (a \o b)[k] = IF k < i THEN s[k] ELSE s[k + 1]
    <2>1. CASE k < i
        BY <2>1, <1>1, <1>4, <1>5
    <2>2. CASE ~(k < i)
        <3>1. (a \o b)[k] = b[k - (i - 1)]
            BY <2>2, <1>1, <1>4, <1>5
        <3>2. k - (i - 1) \in 1..(Len(s) - i)
            BY <2>2
        <3>3. b[k - (i - 1)] = s[i + (k - (i - 1))]
            BY <3>2, <1>2
        <3>4. i + (k - (i - 1)) = k + 1
            OBVIOUS
        <3>5. QED
            BY <2>2, <3>1, <3>3, <3>4
    <2>3. QED
        BY <2>1, <2>2
<1>7. QED
    BY <1>3, <1>4, <1>5, <1>6

LEMMA AppendPod ==
    ASSUME NEW s \in Seq(Pod), NEW p \in Pod
    PROVE  /\ Append(s, p) \in Seq(Pod)
           /\ Len(Append(s, p)) = Len(s) + 1
           /\ \A k \in 1..Len(s) : Append(s, p)[k] = s[k]
           /\ Append(s, p)[Len(s) + 1] = p
    OBVIOUS

LEMMA ExceptPod ==
    ASSUME NEW s \in Seq(Pod), NEW i \in DOMAIN s, NEW p \in Pod
    PROVE  /\ [s EXCEPT ![i] = p] \in Seq(Pod)
           /\ Len([s EXCEPT ![i] = p]) = Len(s)
           /\ \A k \in DOMAIN s :
                 [s EXCEPT ![i] = p][k] = IF k = i THEN p ELSE s[k]
    OBVIOUS

-----------------------------------------------------------------------------
(* Initial states.                                                         *)

LEMMA InitIInv == Init => IInv
<1> SUFFICES ASSUME Init PROVE IInv
    OBVIOUS
<1>1. PICK spec \in InitSpecs : her = NewHer(spec)
    BY DEF Init
<1>2. spec \in Template
    BY <1>1, OperatorAssumptions DEF OperatorAssumptions
<1>3. her \in Her
    BY <1>1, <1>2 DEF NewHer, Her, Template, Phases, SomeConfig, Ws
<1>4. dep \in Deployment
    BY <1>3 DEF Init, Her, Deployment, Template
<1>5. pods = <<>>
    BY DEF Init
<1>6. pods \in Seq(Pod) /\ Len(pods) <= 2 /\ DOMAIN pods = {}
    BY <1>5
<1>7. rec = Idle /\ health = Idle /\ cm \in SomeConfig
    BY DEF Init, SomeConfig
<1>8. bots \in [pc: {"idle", "write"}, dirty: BOOLEAN, entry: SomeConfig, next: SomeConfig]
    BY DEF Init, SomeConfig
<1>9. edits \in 0..MaxEdits /\ faults \in 0..MaxFaults
    BY OperatorAssumptions DEF Init, OperatorAssumptions
<1>10. TypeOK
    BY <1>3, <1>4, <1>6, <1>7, <1>8, <1>9 DEF Init, TypeOK
<1>11. QED
    BY <1>6, <1>10 DEF Init, IInv, UpRuns, GateMeansUp, ServingIsReady

-----------------------------------------------------------------------------
(* Types: one lemma for the spec edits, one per loop, one for the cluster. *)

LEMMA FaultType ==
    ASSUME TypeOK, NEW kind, Fault(kind)
    PROVE  faults' \in 0..MaxFaults
BY OperatorAssumptions DEF TypeOK, Fault, OperatorAssumptions

LEMMA EditType ==
    ASSUME TypeOK, NEW kind, NEW h \in Her, Edit(kind, h), reverted' \subseteq {"cm", "bots"}
    PROVE  TypeOK'
<1>1. her' \in Her /\ queued' \in BOOLEAN /\ fresh' \in BOOLEAN
    BY DEF Edit, WriteHer
<1>2. edits' \in 0..MaxEdits
    BY OperatorAssumptions DEF TypeOK, Edit, OperatorAssumptions
<1>3. QED
    BY <1>1, <1>2 DEF TypeOK, Edit

LEMMA EditsType ==
    ASSUME TypeOK,
           \/ \E i \in Images : SetImage(i)
           \/ \E c \in Configs : SetConfig(c)
           \/ Pause \/ Resume
    PROVE  TypeOK'
<1>1. ASSUME NEW i \in Images, SetImage(i) PROVE TypeOK'
    <2>1. [her EXCEPT !.image = i] \in Her
        BY DEF TypeOK, Her
    <2>2. QED
        BY <1>1, <2>1, EditType DEF SetImage, TypeOK
<1>2. ASSUME NEW c \in Configs, SetConfig(c) PROVE TypeOK'
    <2>1. [her EXCEPT !.config = c] \in Her
        BY DEF TypeOK, Her
    <2>2. reverted' \subseteq {"cm", "bots"}
        <3>1. InUseOtherThan(c) \subseteq {"cm", "bots"}
            BY DEF InUseOtherThan
        <3>2. reverted' = InUseOtherThan(c) \/ reverted' = {}
            BY <1>2, Zenon DEF SetConfig
        <3>3. QED
            BY <3>1, <3>2
    <2>3. QED
        BY <1>2, <2>1, <2>2, EditType DEF SetConfig
<1>3. ASSUME Pause \/ Resume PROVE TypeOK'
    <2>1. /\ [her EXCEPT !.paused = TRUE] \in Her
          /\ [her EXCEPT !.paused = FALSE] \in Her
        BY DEF TypeOK, Her
    <2>2. QED
        BY <1>3, <2>1, EditType DEF Pause, Resume, TypeOK
<1>4. QED
    BY <1>1, <1>2, <1>3

\* What the pc says of the kind of call.
LEMMA Calls ==
    ASSUME TypeOK
    PROVE  /\ rec.pc \in {"scaleDown", "apply", "decide", "ensure"} => rec \in Reading
           /\ rec.pc = "status" => rec \in Writing
           /\ health.pc = "check" => health \in Looking
           /\ health.pc = "patch" => health \in Patching
<1>1. /\ rec \in Reading \/ rec \in Writing \/ rec = Idle
      /\ health \in Looking \/ health \in Patching \/ health = Idle
    BY DEF TypeOK
<1>2. /\ rec \in Reading => rec.pc \in {"scaleDown", "apply", "decide", "ensure"}
      /\ rec \in Writing => rec.pc = "status"
      /\ health \in Looking => health.pc = "check"
      /\ health \in Patching => health.pc = "patch"
      /\ Idle.pc = "idle"
    BY DEF Reading, Writing, Looking, Patching, Idle
<1>3. QED
    BY <1>1, <1>2

LEMMA ToStatusType ==
    ASSUME NEW phase \in Phases \cup {Same}, NEW hash \in SomeConfig, NEW retry \in BOOLEAN,
           ToStatus(phase, hash, retry)
    PROVE  rec' \in Writing
BY DEF ToStatus, Writing

LEMMA ReconcilingType ==
    ASSUME TypeOK, Reconciling
    PROVE  TypeOK'
<1>1. CASE ReadHer
    <2>1. rec' \in Reading \/ rec' = rec
        BY <1>1 DEF ReadHer, TypeOK, Her, Reading
    <2>2. queued' \in BOOLEAN /\ fresh' \in BOOLEAN
        BY <1>1 DEF ReadHer, TypeOK
    <2>3. QED
        BY <1>1, <2>1, <2>2 DEF ReadHer, TypeOK
<1>2. CASE ScaleDown
    <2>1. rec' \in Writing
        BY <1>2, Calls, ToStatusType DEF ScaleDown, Reading, Phases
    <2>2. dep' \in Deployment /\ queued' \in BOOLEAN /\ served' \in {"no", "yes", "excused"}
        BY <1>2 DEF ScaleDown, TypeOK, Deployment
    <2>3. faults' \in 0..MaxFaults
        BY <1>2, FaultType DEF ScaleDown, TypeOK
    <2>4. QED
        BY <1>2, <2>1, <2>2, <2>3 DEF ScaleDown, TypeOK
<1>3. CASE ApplyFails
    BY <1>3, FaultType DEF ApplyFails, TypeOK
<1>4. CASE ApplyConfig
    <2>1. rec \in Reading
        BY <1>4, Calls DEF ApplyConfig
    <2>2. rec' \in Reading /\ cm' \in SomeConfig
        BY <1>4, <2>1 DEF ApplyConfig, Reading, TypeOK, SomeConfig
    <2>3. QED
        BY <1>4, <2>2 DEF ApplyConfig, TypeOK
<1>5. CASE DecideRollout
    <2>1. rec' \in Reading
        BY <1>5, Calls DEF DecideRollout, Reading
    <2>2. faults' \in 0..MaxFaults
        BY <1>5, FaultType DEF DecideRollout, TypeOK
    <2>3. QED
        BY <1>5, <2>1, <2>2 DEF DecideRollout, TypeOK
<1>6. CASE DecideKeep
    <2>1. rec \in Reading
        BY <1>6, Calls DEF DecideKeep
    <2>2. rec' \in Writing \cup {Idle} /\ fresh' \in BOOLEAN
        BY <1>6, <2>1, ToStatusType DEF DecideKeep, TypeOK, Reading, SomeConfig
    <2>3. dep' \in Deployment /\ queued' \in BOOLEAN
        BY <1>6, <2>1 DEF DecideKeep, Adjusted, TypeOK, Deployment, Reading
    <2>4. faults' \in 0..MaxFaults
        BY <1>6, FaultType DEF DecideKeep, TypeOK
    <2>5. QED
        BY <1>6, <2>2, <2>3, <2>4 DEF DecideKeep, TypeOK
<1>7. CASE Ensure
    <2>1. rec \in Reading
        BY <1>7, Calls DEF Ensure
    <2>2. rec' \in Writing
        BY <1>7, <2>1, ToStatusType DEF Ensure, Reading, SomeConfig, Phases
    <2>3. dep' \in Deployment /\ queued' \in BOOLEAN
        <3>1. rec.image \in Images /\ rec.config \in Configs
            BY <2>1 DEF Reading
        <3>2. [image |-> rec.image, config |-> rec.config] \in Template
            BY <3>1 DEF Template
        <3>3. [exists |-> TRUE, live |-> rec.config, replicas |-> 1,
               template |-> [image |-> rec.image, config |-> rec.config]] \in Deployment
            BY <3>1, <3>2 DEF Deployment
        <3>4. QED
            BY <1>7, <3>3 DEF Ensure, TypeOK
    <2>4. faults' \in 0..MaxFaults
        BY <1>7, FaultType DEF Ensure, TypeOK
    <2>5. QED
        BY <1>7, <2>2, <2>3, <2>4 DEF Ensure, TypeOK
<1>8. CASE UpdateStatus
    <2>1. rec \in Writing
        BY <1>8, Calls DEF UpdateStatus
    <2>2. her' \in Her /\ queued' \in BOOLEAN /\ fresh' \in BOOLEAN
        BY <1>8, <2>1 DEF UpdateStatus, WriteHer, Patched, TypeOK, Her, Writing
    <2>3. bots' \in [pc: {"idle", "write"}, dirty: BOOLEAN, entry: SomeConfig, next: SomeConfig]
        BY <1>8, <2>1 DEF UpdateStatus, TypeOK, Writing
    <2>4. faults' \in 0..MaxFaults
        BY <1>8, FaultType DEF UpdateStatus, TypeOK
    <2>5. QED
        BY <1>8, <2>2, <2>3, <2>4 DEF UpdateStatus, TypeOK
<1>9. QED
    BY <1>1, <1>2, <1>3, <1>4, <1>5, <1>6, <1>7, <1>8 DEF Reconciling

\* What a look at the pods makes of them: only gates change, and a gate that does
\* comes to say what the pod is, but for the pods of odd.
LEMMA Judged ==
    ASSUME TypeOK, NEW odd \in SUBSET Misreadable, NEW lost \in SUBSET Started,
           Judge(odd, lost)
    PROVE  /\ pods' \in Seq(Pod) /\ Len(pods') = Len(pods) /\ DOMAIN pods' = DOMAIN pods
           /\ \A i \in DOMAIN pods :
                 /\ pods'[i].state = pods[i].state
                 /\ pods'[i].up = pods[i].up
                 /\ \/ pods'[i].gate = pods[i].gate
                    \/ i \in odd
                    \/ pods'[i].gate = pods[i].up
<1> DEFINE set(i) == [pods[i] EXCEPT !.gate = CheckFeishuWS(i, odd)]
<1>1. DOMAIN pods = 1..Len(pods) /\ Len(pods) \in Nat
    BY DEF TypeOK
<1>2. \A i \in DOMAIN pods : pods[i] \in Pod
    BY DEF TypeOK
<1>3. ASSUME NEW i \in DOMAIN pods
      PROVE  /\ set(i) \in Pod
             /\ set(i).state = pods[i].state
             /\ set(i).up = pods[i].up
             /\ i \in odd \/ set(i).gate = pods[i].up
    <2>1. pods[i] \in Pod /\ pods[i].up \in BOOLEAN
        BY <1>2 DEF Pod
    <2> DEFINE g == CheckFeishuWS(i, odd)
    <2>2. g \in BOOLEAN /\ (i \in odd \/ g = pods[i].up)
        BY <2>1, Zenon DEF CheckFeishuWS
    <2> HIDE DEF g
    <2>3. /\ [pods[i] EXCEPT !.gate = g] \in Pod
          /\ [pods[i] EXCEPT !.gate = g].state = pods[i].state
          /\ [pods[i] EXCEPT !.gate = g].up = pods[i].up
          /\ [pods[i] EXCEPT !.gate = g].gate = g
        BY <2>1, <2>2 DEF Pod
    <2>4. set(i) = [pods[i] EXCEPT !.gate = g]
        BY Zenon DEF g
    <2> HIDE DEF set
    <2>5. QED
        BY <2>2, <2>3, <2>4
<1>4. GatesSet(odd) = [i \in DOMAIN pods |-> IF i \in Started THEN set(i) ELSE pods[i]]
    BY Zenon DEF GatesSet
<1>5. pods' = [i \in DOMAIN pods |-> IF i \in lost THEN pods[i] ELSE GatesSet(odd)[i]]
    BY Zenon DEF Judge
<1> HIDE DEF set
<1>6. DOMAIN pods' = DOMAIN pods
    BY <1>5
<1>7. \A i \in DOMAIN pods : pods'[i] = pods[i] \/ pods'[i] = set(i)
    BY <1>4, <1>5
<1>8. \A i \in DOMAIN pods : pods'[i] \in Pod
    BY <1>2, <1>3, <1>7
<1>9. pods' \in Seq(Pod) /\ Len(pods') = Len(pods)
    <2> DEFINE ps == [i \in DOMAIN pods |-> IF i \in lost THEN pods[i] ELSE GatesSet(odd)[i]]
    <2>1. /\ ps = [i \in 1..Len(pods) |-> IF i \in lost THEN pods[i] ELSE GatesSet(odd)[i]]
          /\ \A i \in 1..Len(pods) : ps[i] \in Pod
        BY <1>1, <1>5, <1>8
    <2>2. ps \in Seq(Pod) /\ Len(ps) = Len(pods)
        BY <1>1, <2>1
    <2>3. QED
        BY <1>5, <2>2
<1>10. QED
    BY <1>3, <1>6, <1>7, <1>9

LEMMA CheckingType ==
    ASSUME TypeOK, Checking
    PROVE  TypeOK'
<1>1. CASE HealthList
    <2>1. health' \in Looking
        BY <1>1 DEF HealthList, TypeOK, Her, Looking
    <2>2. QED
        BY <1>1, <2>1 DEF HealthList, TypeOK
<1>2. CASE HealthCheck
    <2>1. health \in Looking
        BY <1>2, Calls DEF HealthCheck
    <2>2. PodsPhase \in Phases /\ \A odd : PodsWs(health.ws, odd) \in Ws
        BY <2>1 DEF PodsPhase, PodsWs, Looking, Phases, Ws
    <2>3. ASSUME NEW phase \in Phases, NEW ws \in Ws, Found(phase, ws)
          PROVE  health' \in Patching
        BY <2>3 DEF Found, Differing, Patching
    <2>4. health' \in Patching /\ pods' \in Seq(Pod) /\ Len(pods') <= 2
          /\ served' \in {"no", "yes", "excused"}
        <3>1. CASE /\ Found("Paused", health.ws) \/ Found("Pending", "Unknown")
                   /\ UNCHANGED <<pods, faults, served>>
            BY <3>1, <2>1, <2>3 DEF Looking, Phases, Ws, TypeOK
        <3>2. ASSUME NEW odd \in SUBSET Misreadable, NEW lost \in SUBSET Started,
                     Judge(odd, lost)
              PROVE  health' \in Patching /\ pods' \in Seq(Pod) /\ Len(pods') <= 2
                     /\ served' \in {"no", "yes", "excused"}
            <4>1. Found(PodsPhase, PodsWs(health.ws, odd))
                BY <3>2 DEF Judge
            <4>2. served' \in {"no", "yes", "excused"}
                BY <3>2 DEF Judge, TypeOK
            <4>3. QED
                BY <3>2, <4>1, <4>2, <2>2, <2>3, Judged DEF TypeOK
        <3>3. QED
            BY <1>2, <3>1, <3>2 DEF HealthCheck
    <2>5. faults' \in 0..MaxFaults
        BY <1>2, FaultType DEF HealthCheck, Mishap, TypeOK
    <2>6. QED
        BY <1>2, <2>4, <2>5 DEF HealthCheck, TypeOK
<1>3. CASE HealthPatch
    <2>1. health \in Patching
        BY <1>3, Calls DEF HealthPatch
    <2>2. her' \in Her /\ queued' \in BOOLEAN /\ fresh' \in BOOLEAN
        BY <1>3, <2>1 DEF HealthPatch, WriteHer, Patched, TypeOK, Her, Patching
    <2>3. faults' \in 0..MaxFaults
        BY <1>3, FaultType DEF HealthPatch, TypeOK
    <2>4. QED
        BY <1>3, <2>2, <2>3 DEF HealthPatch, TypeOK
<1>4. QED
    BY <1>1, <1>2, <1>3 DEF Checking

LEMMA RebuildingType ==
    ASSUME TypeOK, Rebuilding \/ Restart
    PROVE  TypeOK'
<1>1. faults' \in 0..MaxFaults
    BY FaultType DEF Rebuilding, RebuildList, RebuildWrite, Restart, TypeOK
<1>2. bots' \in [pc: {"idle", "write"}, dirty: BOOLEAN, entry: SomeConfig, next: SomeConfig]
    BY DEF Rebuilding, RebuildList, RebuildWrite, Restart, TypeOK, Her, SomeConfig
<1>3. CASE Rebuilding
    BY <1>1, <1>2, <1>3 DEF Rebuilding, RebuildList, RebuildWrite, TypeOK
<1>4. CASE Restart
    BY <1>1, <1>2, <1>4 DEF Restart, TypeOK
<1>5. QED
    BY <1>3, <1>4

LEMMA PodStepType ==
    ASSUME TypeOK, NEW i \in DOMAIN pods, NEW p \in Pod, PodStep(i, p),
           faults' \in 0..MaxFaults, served' \in {"no", "yes", "excused"}
    PROVE  TypeOK'
<1>1. pods' \in Seq(Pod) /\ Len(pods') <= 2
    BY ExceptPod DEF PodStep, TypeOK
<1>2. QED
    BY <1>1 DEF PodStep, TypeOK

LEMMA ClusterType ==
    ASSUME TypeOK, Cluster
    PROVE  TypeOK'
<1>1. CASE DeploymentEvent
    BY <1>1 DEF DeploymentEvent, TypeOK
<1>2. CASE CreatePod
    <2>1. [template |-> dep.template, state |-> "Pending", up |-> FALSE, gate |-> FALSE] \in Pod
        BY DEF TypeOK, Deployment, Pod
    <2>2. pods' \in Seq(Pod) /\ Len(pods') <= 2
        BY <1>2, <2>1, AppendPod DEF CreatePod, TypeOK
    <2>3. QED
        BY <1>2, <2>2 DEF CreatePod, TypeOK
<1>3. ASSUME NEW i \in DOMAIN pods,
             RemovePod(i) \/ PodStarts(i) \/ PodConnects(i) \/ PodDrops(i) \/ PodCrashes(i)
      PROVE  TypeOK'
    <2>1. pods[i] \in Pod
        BY DEF TypeOK
    <2>2. CASE RemovePod(i)
        <3>1. i \in 1..Len(pods)
            BY DEF TypeOK
        <3>2. pods' \in Seq(Pod) /\ Len(pods') <= 2
            BY <2>2, <3>1, RemoveAtProperties DEF RemovePod, TypeOK
        <3>3. QED
            BY <2>2, <3>2 DEF RemovePod, TypeOK
    <2>3. CASE PodStarts(i)
        <3>1. [pods[i] EXCEPT !.state = "Running"] \in Pod
            BY <2>1 DEF Pod
        <3>2. QED
            BY <2>3, <3>1, PodStepType DEF PodStarts, TypeOK
    <2>4. CASE PodConnects(i)
        <3>1. [pods[i] EXCEPT !.up = TRUE] \in Pod
            BY <2>1 DEF Pod
        <3>2. QED
            BY <2>4, <3>1, PodStepType DEF PodConnects, TypeOK
    <2>5. CASE PodDrops(i)
        <3>1. [pods[i] EXCEPT !.up = FALSE] \in Pod
            BY <2>1 DEF Pod
        <3>2. QED
            BY <2>5, <3>1, PodStepType, FaultType DEF PodDrops
    <2>6. CASE PodCrashes(i)
        <3>1. [pods[i] EXCEPT !.state = "Crash", !.up = FALSE] \in Pod
            BY <2>1 DEF Pod
        <3>2. served' \in {"no", "yes", "excused"}
            BY <2>6 DEF PodCrashes, TypeOK
        <3>3. QED
            BY <2>6, <3>1, <3>2, PodStepType, FaultType DEF PodCrashes
    <2>7. QED
        BY <1>3, <2>2, <2>3, <2>4, <2>5, <2>6
<1>4. QED
    BY <1>1, <1>2, <1>3 DEF Cluster

LEMMA NextTypeOK == TypeOK /\ [Next]_vars => TypeOK'
<1> SUFFICES ASSUME TypeOK, [Next]_vars PROVE TypeOK'
    OBVIOUS
<1>1. CASE UNCHANGED vars
    BY <1>1 DEF vars, TypeOK
<1>2. CASE Next
    BY <1>2, EditsType, ReconcilingType, CheckingType, RebuildingType, ClusterType DEF Next
<1>3. QED
    BY <1>1, <1>2

-----------------------------------------------------------------------------
(* The rest of the inductive invariant.                                    *)

Rest == UpRuns /\ GateMeansUp /\ ServingIsReady

\* A step that leaves the pods alone, and that scales to 0 only an instance that
\* then no longer serves.
LEMMA PodsKept ==
    ASSUME Rest, pods' = pods,
           served' = served \/ (served = "yes" /\ served' = "no"),
           served' = "yes" /\ dep.replicas = 1 => dep'.replicas = 1
    PROVE  Rest'
<1>1. UpRuns'
    BY DEF Rest, UpRuns
<1>2. GateMeansUp'
    BY DEF Rest, GateMeansUp
<1>3. ServingIsReady'
    BY DEF Rest, ServingIsReady, SomeReady, Ready
<1>4. QED
    BY <1>1, <1>2, <1>3 DEF Rest

LEMMA ReconcilingRest ==
    ASSUME TypeOK, Rest, Reconciling
    PROVE  Rest'
<1>1. CASE ScaleDown
    <2>1. /\ pods' = pods
          /\ served' = served \/ (served = "yes" /\ served' = "no")
          /\ served' = "yes" /\ dep.replicas = 1 => dep'.replicas = 1
        BY <1>1 DEF ScaleDown
    <2>2. QED
        BY <2>1, PodsKept
<1>2. CASE DecideKeep
    <2>1. Adjusted.replicas = dep.replicas \/ Adjusted.replicas = 1
        <3>1. dep \in Deployment
            BY DEF TypeOK
        <3>2. /\ [dep EXCEPT !.live = rec.config].replicas = dep.replicas
              /\ [dep EXCEPT !.replicas = 1].replicas = 1
            BY <3>1 DEF Deployment
        <3>3. QED
            BY <3>2 DEF Adjusted
    <2>2. dep' = dep \/ dep' = Adjusted
        BY <1>2 DEF DecideKeep
    <2>3. pods' = pods /\ served' = served
        BY <1>2 DEF DecideKeep
    <2>4. QED
        BY <2>1, <2>2, <2>3, PodsKept
<1>3. CASE Ensure
    <2>1. dep' = dep \/ dep'.replicas = 1
        <3> DEFINE t == [image |-> rec.image, config |-> rec.config]
                   d == [exists |-> TRUE, live |-> rec.config, replicas |-> 1, template |-> t]
        <3>1. dep' = dep \/ dep' = d
            BY <1>3, Zenon DEF Ensure
        <3> HIDE DEF t
        <3>2. d.replicas = 1
            OBVIOUS
        <3>3. QED
            BY <3>1, <3>2
    <2>2. pods' = pods /\ served' = served
        BY <1>3 DEF Ensure
    <2>3. QED
        BY <2>1, <2>2, PodsKept
<1>4. CASE ReadHer \/ ApplyFails \/ ApplyConfig \/ DecideRollout \/ UpdateStatus
    <2>1. pods' = pods /\ served' = served /\ dep' = dep
        BY <1>4 DEF ReadHer, ApplyFails, ApplyConfig, DecideRollout, UpdateStatus
    <2>2. QED
        BY <2>1, PodsKept
<1>5. QED
    BY <1>1, <1>2, <1>3, <1>4 DEF Reconciling

\* The gates follow the connections, but for those that may not have been written
\* and those of misread pods: a ready pod, being connected, stays ready, unless a
\* wrong answer has moved a gate.
LEMMA JudgeRest ==
    ASSUME TypeOK, Rest, dep' = dep,
           NEW odd \in SUBSET Misreadable, NEW lost \in SUBSET Started,
           Judge(odd, lost)
    PROVE  Rest'
<1>1. DOMAIN pods' = DOMAIN pods
    BY Judged
<1>2. odd \subseteq DOMAIN pods
    BY DEF Misreadable, Started
<1>3. served' = IF \E i \in odd : pods'[i].gate # pods[i].gate THEN "excused"
                ELSE IF served = "no" /\ dep.replicas = 1 /\ SomeReady(pods') THEN "yes"
                ELSE served
    BY DEF Judge
<1>4. ASSUME NEW i \in DOMAIN pods, served' # "excused"
      PROVE  pods'[i].gate = pods[i].gate \/ pods'[i].gate = pods[i].up
    <2>1. CASE i \in odd
        BY <1>3, <1>4, <2>1
    <2>2. CASE i \notin odd
        BY <2>2, Judged
    <2>3. QED
        BY <2>1, <2>2
<1>5. UpRuns'
    BY <1>1, Judged DEF Rest, UpRuns
<1>6. served' # "excused" => served # "excused"
    BY <1>3
<1>7. GateMeansUp'
    <2>1. ASSUME served' # "excused", NEW i \in DOMAIN pods, pods'[i].gate
          PROVE  pods'[i].up
        <3>1. pods'[i].up = pods[i].up
            BY Judged
        <3>2. CASE pods'[i].gate = pods[i].up
            BY <2>1, <3>1, <3>2
        <3>3. CASE pods'[i].gate = pods[i].gate
            BY <1>6, <2>1, <3>1, <3>3 DEF Rest, GateMeansUp
        <3>4. QED
            BY <1>4, <2>1, <3>2, <3>3
    <2>2. QED
        BY <2>1, <1>1 DEF GateMeansUp
<1>8. ServingIsReady'
    <2>1. SUFFICES ASSUME served' = "yes" PROVE dep.replicas = 1 /\ SomeReady(pods')
        BY DEF ServingIsReady
    <2>2. CASE served # "yes"
        BY <2>1, <2>2, <1>3
    <2>3. CASE served = "yes"
        <3>1. dep.replicas = 1 /\ SomeReady(pods)
            BY <2>3 DEF Rest, ServingIsReady
        <3>2. PICK i \in DOMAIN pods : Ready(pods[i])
            BY <3>1 DEF SomeReady
        <3>3. pods[i].up
            BY <2>3, <3>2 DEF Rest, GateMeansUp, Ready
        <3>4. pods'[i].state = pods[i].state
            BY Judged
        <3>5. pods'[i].gate = pods[i].gate \/ pods'[i].gate = pods[i].up
            BY <2>1, <1>4
        <3>6. Ready(pods'[i])
            BY <3>2, <3>3, <3>4, <3>5 DEF Ready
        <3>7. QED
            BY <3>1, <3>6, <1>1 DEF SomeReady
    <2>4. QED
        BY <2>2, <2>3
<1>9. QED
    BY <1>5, <1>7, <1>8 DEF Rest

LEMMA CheckingRest ==
    ASSUME TypeOK, Rest, Checking
    PROVE  Rest'
<1>1. CASE HealthCheck
    <2>1. dep' = dep
        BY <1>1 DEF HealthCheck
    <2>2. CASE pods' = pods /\ served' = served
        BY <2>1, <2>2, PodsKept
    <2>3. ASSUME NEW odd \in SUBSET Misreadable, NEW lost \in SUBSET Started,
                 Judge(odd, lost)
          PROVE  Rest'
        BY <2>1, <2>3, JudgeRest
    <2>4. QED
        BY <1>1, <2>2, <2>3 DEF HealthCheck
<1>2. CASE HealthList \/ HealthPatch
    <2>1. pods' = pods /\ served' = served /\ dep' = dep
        BY <1>2 DEF HealthList, HealthPatch
    <2>2. QED
        BY <2>1, PodsKept
<1>3. QED
    BY <1>1, <1>2 DEF Checking

\* A step of one pod that keeps what the invariant says of it.
LEMMA PodStepRest ==
    ASSUME TypeOK, Rest, NEW i \in DOMAIN pods, NEW p \in Pod,
           pods' = [pods EXCEPT ![i] = p], dep' = dep,
           p.up => p.state = "Running",
           served' = served \/ served' = "excused",
           served' # "excused" => (p.gate => p.up),
           served' = "yes" => (Ready(pods[i]) => Ready(p))
    PROVE  Rest'
<1>1. /\ DOMAIN pods' = DOMAIN pods
      /\ \A k \in DOMAIN pods : pods'[k] = IF k = i THEN p ELSE pods[k]
    OBVIOUS
<1>2. UpRuns'
    BY <1>1 DEF Rest, UpRuns
<1>3. GateMeansUp'
    BY <1>1 DEF Rest, GateMeansUp
<1>4. ServingIsReady'
    <2>1. SUFFICES ASSUME served' = "yes" PROVE dep.replicas = 1 /\ SomeReady(pods')
        BY DEF ServingIsReady
    <2>2. dep.replicas = 1 /\ SomeReady(pods)
        BY <2>1 DEF Rest, ServingIsReady
    <2>3. PICK k \in DOMAIN pods : Ready(pods[k])
        BY <2>2 DEF SomeReady
    <2>4. Ready(pods'[k])
        BY <2>1, <2>3, <1>1
    <2>5. QED
        BY <2>2, <2>4, <1>1 DEF SomeReady
<1>5. QED
    BY <1>2, <1>3, <1>4 DEF Rest

\* The pods are removed one by one, and never the last one that is ready.
LEMMA RemovePodRest ==
    ASSUME TypeOK, Rest, NEW i \in DOMAIN pods, RemovePod(i)
    PROVE  Rest'
<1>1. /\ Len(pods) \in Nat /\ DOMAIN pods = 1..Len(pods) /\ i \in 1..Len(pods)
      /\ pods \in Seq(Pod)
    BY DEF TypeOK
<1>2. /\ DOMAIN pods' = 1..(Len(pods) - 1)
      /\ \A k \in 1..(Len(pods) - 1) : pods'[k] = IF k < i THEN pods[k] ELSE pods[k + 1]
    <2>1. pods' = RemoveAt(pods, i)
        BY DEF RemovePod
    <2> DEFINE r == RemoveAt(pods, i)
    <2>2. /\ r \in Seq(Pod) /\ Len(r) = Len(pods) - 1
          /\ \A k \in 1..(Len(pods) - 1) : r[k] = IF k < i THEN pods[k] ELSE pods[k + 1]
        BY <1>1, RemoveAtProperties
    <2> HIDE DEF r
    <2>3. DOMAIN r = 1..(Len(pods) - 1)
        BY <2>2
    <2>4. QED
        BY <2>1, <2>2, <2>3 DEF r
<1>3. ASSUME NEW k \in DOMAIN pods'
      PROVE  \E j \in DOMAIN pods : pods'[k] = pods[j]
    <2>1. k \in DOMAIN pods /\ k + 1 \in DOMAIN pods
        BY <1>1, <1>2
    <2>2. pods'[k] = pods[k] \/ pods'[k] = pods[k + 1]
        BY <1>2
    <2>3. QED
        BY <2>1, <2>2
<1>4. ASSUME NEW j \in DOMAIN pods, j # i
      PROVE  \E k \in DOMAIN pods' : pods'[k] = pods[j]
    <2>1. CASE j < i
        <3>1. j \in DOMAIN pods'
            BY <2>1, <1>1, <1>2
        <3>2. QED
            BY <2>1, <3>1, <1>2
    <2>2. CASE ~(j < i)
        <3>1. j - 1 \in DOMAIN pods' /\ ~(j - 1 < i) /\ (j - 1) + 1 = j
            BY <2>2, <1>1, <1>2, <1>4
        <3>2. QED
            BY <3>1, <1>2
    <2>3. QED
        BY <2>1, <2>2
<1>5. dep' = dep /\ served' = served
    BY DEF RemovePod
<1>6. UpRuns'
    BY <1>3 DEF Rest, UpRuns
<1>7. GateMeansUp'
    BY <1>3, <1>5 DEF Rest, GateMeansUp
<1>8. ServingIsReady'
    <2>1. SUFFICES ASSUME served = "yes" PROVE dep.replicas = 1 /\ SomeReady(pods')
        BY <1>5 DEF ServingIsReady
    <2>2. dep.replicas = 1 /\ SomeReady(pods)
        BY <2>1 DEF Rest, ServingIsReady
    <2>3. PICK r \in DOMAIN pods : Ready(pods[r])
        BY <2>2 DEF SomeReady
    <2>4. \E j \in DOMAIN pods : j # i /\ Ready(pods[j])
        <3>1. CASE r # i
            BY <2>3, <3>1
        <3>2. CASE r = i
            BY <2>2, <2>3, <3>2 DEF RemovePod, MayGo
        <3>3. QED
            BY <3>1, <3>2
    <2>5. QED
        BY <2>2, <2>4, <1>4 DEF SomeReady
<1>9. QED
    BY <1>6, <1>7, <1>8 DEF Rest

LEMMA CreatePodRest ==
    ASSUME TypeOK, Rest, CreatePod
    PROVE  Rest'
<1> DEFINE new == [template |-> dep.template, state |-> "Pending", up |-> FALSE, gate |-> FALSE]
<1>1. new \in Pod /\ ~new.up /\ ~new.gate
    BY DEF TypeOK, Deployment, Pod
<1>2. pods' = Append(pods, new) /\ dep' = dep /\ served' = served
    BY DEF CreatePod
<1> HIDE DEF new
<1>3. /\ DOMAIN pods = 1..Len(pods) /\ Len(pods) \in Nat
      /\ DOMAIN pods' = 1..(Len(pods) + 1)
      /\ \A k \in 1..Len(pods) : pods'[k] = pods[k]
      /\ pods'[Len(pods) + 1] = new
    BY <1>1, <1>2, AppendPod DEF TypeOK
<1>4. \A k \in DOMAIN pods' : k \in DOMAIN pods \/ k = Len(pods) + 1
    BY <1>3
<1>5. DOMAIN pods \subseteq DOMAIN pods'
    BY <1>3
<1>6. UpRuns'
    BY <1>1, <1>3, <1>4 DEF Rest, UpRuns
<1>7. GateMeansUp'
    BY <1>1, <1>2, <1>3, <1>4 DEF Rest, GateMeansUp
<1>8. ServingIsReady'
    BY <1>2, <1>3, <1>5 DEF Rest, ServingIsReady, SomeReady
<1>9. QED
    BY <1>6, <1>7, <1>8 DEF Rest

LEMMA ClusterRest ==
    ASSUME TypeOK, Rest, Cluster
    PROVE  Rest'
<1>1. CASE DeploymentEvent
    BY <1>1, PodsKept DEF DeploymentEvent
<1>2. CASE CreatePod
    BY <1>2, CreatePodRest
<1>3. ASSUME NEW i \in DOMAIN pods,
             PodStarts(i) \/ PodConnects(i) \/ PodDrops(i) \/ PodCrashes(i)
      PROVE  Rest'
    <2>1. /\ pods[i] \in Pod
          /\ pods[i].up => pods[i].state = "Running"
          /\ served # "excused" => (pods[i].gate => pods[i].up)
        BY DEF TypeOK, Rest, UpRuns, GateMeansUp
    <2>2. CASE PodStarts(i)
        <3> DEFINE p == [pods[i] EXCEPT !.state = "Running"]
        <3>1. /\ p \in Pod /\ p.state = "Running"
              /\ p.up = pods[i].up /\ p.gate = pods[i].gate
            BY <2>1 DEF Pod
        <3>2. pods' = [pods EXCEPT ![i] = p] /\ dep' = dep /\ served' = served
            BY <2>2 DEF PodStarts, PodStep
        <3> HIDE DEF p
        <3>3. QED
            BY <2>1, <3>1, <3>2, PodStepRest DEF Ready
    <2>3. CASE PodConnects(i)
        <3> DEFINE p == [pods[i] EXCEPT !.up = TRUE]
        <3>1. /\ p \in Pod /\ p.up
              /\ p.state = pods[i].state /\ p.gate = pods[i].gate
            BY <2>1 DEF Pod
        <3>2. /\ pods' = [pods EXCEPT ![i] = p] /\ dep' = dep /\ served' = served
              /\ pods[i].state = "Running"
            BY <2>3 DEF PodConnects, PodStep
        <3> HIDE DEF p
        <3>3. QED
            BY <3>1, <3>2, PodStepRest DEF Ready
    <2>4. CASE PodDrops(i)
        <3> DEFINE p == [pods[i] EXCEPT !.up = FALSE]
        <3>1. p \in Pod /\ ~p.up
            BY <2>1 DEF Pod
        <3>2. pods' = [pods EXCEPT ![i] = p] /\ dep' = dep /\ served' = "excused"
            BY <2>4 DEF PodDrops, PodStep
        <3> HIDE DEF p
        <3>3. QED
            BY <3>1, <3>2, PodStepRest
    <2>5. CASE PodCrashes(i)
        <3> DEFINE p == [pods[i] EXCEPT !.state = "Crash", !.up = FALSE]
        <3>1. p \in Pod /\ ~p.up /\ p.gate = pods[i].gate
            BY <2>1 DEF Pod
        <3>2. /\ pods' = [pods EXCEPT ![i] = p] /\ dep' = dep
              /\ served' = IF pods[i].up THEN "excused" ELSE served
            BY <2>5 DEF PodCrashes, PodStep
        <3>3. served' # "excused" => ~pods[i].up /\ ~pods[i].gate
            BY <2>1, <3>2
        <3>4. served' = served \/ served' = "excused"
            BY <3>2
        <3> HIDE DEF p
        <3>5. QED
            BY <3>1, <3>2, <3>3, <3>4, PodStepRest DEF Ready
    <2>6. QED
        BY <1>3, <2>2, <2>3, <2>4, <2>5
<1>4. QED
    BY <1>1, <1>2, <1>3, RemovePodRest DEF Cluster

LEMMA NextRest == TypeOK /\ Rest /\ [Next]_vars => Rest'
<1> SUFFICES ASSUME TypeOK, Rest, [Next]_vars PROVE Rest'
    OBVIOUS
<1>1. CASE Reconciling
    BY <1>1, ReconcilingRest
<1>2. CASE Checking
    BY <1>2, CheckingRest
<1>3. CASE Cluster
    BY <1>3, ClusterRest
<1>4. CASE \/ \E i \in Images : SetImage(i)
           \/ \E c \in Configs : SetConfig(c)
           \/ Pause \/ Resume \/ Rebuilding \/ Restart \/ UNCHANGED vars
    <2>1. pods' = pods /\ dep' = dep /\ served' = served
        BY <1>4 DEF SetImage, SetConfig, Pause, Resume, Edit, Rebuilding, RebuildList,
                    RebuildWrite, Restart, vars
    <2>2. QED
        BY <2>1, PodsKept
<1>5. QED
    BY <1>1, <1>2, <1>3, <1>4 DEF Next

-----------------------------------------------------------------------------
(* The theorems.                                                           *)

\* Each variable keeps its type; at most two pods exist, and each loop's copy has
\* the form of the place it is at.
THEOREM OperatorTypeCorrect == Spec => []TypeOK
<1>1. Init => TypeOK
    BY InitIInv DEF IInv
<1>2. QED
    BY <1>1, NextTypeOK, PTL DEF Spec

\* The invariant that zero downtime rests on is kept by every step: a True gate
\* belongs to a connected pod, and an instance in service has a ready one, until a
\* connected pod fails by itself or checkFeishuWS is wrong and a gate moves with it.
THEOREM OperatorInvariant == Spec => []IInv
<1>1. IInv /\ [Next]_vars => IInv'
    BY NextTypeOK, NextRest DEF IInv, Rest
<1>2. QED
    BY <1>1, InitIInv, PTL DEF Spec

\* Zero downtime: from the first time a connected pod is ready, until a scale to 0,
\* some pod is connected, unless a connected pod fails by itself or a wrong answer
\* of checkFeishuWS, which guesses about a pod it cannot ask, moves a gate.
THEOREM ZeroDowntime == Spec => []Serving
<1>1. IInv => Serving
    <2>1. SUFFICES ASSUME IInv, served = "yes" PROVE \E i \in DOMAIN pods : pods[i].up
        BY DEF Serving
    <2>2. PICK i \in DOMAIN pods : Ready(pods[i])
        BY <2>1 DEF IInv, ServingIsReady, SomeReady
    <2>3. QED
        BY <2>1, <2>2 DEF IInv, GateMeansUp, Ready
<1>2. QED
    BY <1>1, OperatorInvariant, PTL

-----------------------------------------------------------------------------
(* The operator implements InstanceService.                                *)

\* In service means online: the part of the invariant the refinement needs.
LEMMA InServiceOnline == IInv => (served = "yes" => Online)
<1> SUFFICES ASSUME IInv, served = "yes" PROVE Online
    OBVIOUS
<1>1. PICK i \in DOMAIN pods : Ready(pods[i])
    BY DEF IInv, ServingIsReady, SomeReady
<1>2. pods[i].up
    BY <1>1 DEF IInv, GateMeansUp, Ready
<1>3. QED
    BY <1>1, <1>2 DEF Online

\* Pods and service as they were: at most a stop is asked for or withdrawn.
LEMMA AskStep ==
    ASSUME pods' = pods, served' = served
    PROVE  Service!Ask
<1>1. Online' = Online
    BY DEF Online
<1>2. Stopping' \in BOOLEAN
    BY DEF Stopping
<1>3. QED
    BY <1>1, <1>2 DEF Service!Ask

\* The pods change and nothing else that is seen: the bot comes, or goes while
\* it is not in service.
LEMMA PodsStep ==
    ASSUME served' = served, her' = her, rec' = rec, served' = "yes" => Online'
    PROVE  [Service!Next]_(Service!vars)
<1>1. Stopping' = Stopping
    BY DEF Stopping
<1>2. Online \in BOOLEAN /\ Online' \in BOOLEAN
    BY DEF Online
<1>3. CASE Online' = Online
    BY <1>1, <1>3 DEF Service!vars
<1>4. CASE Online' = TRUE
    BY <1>1, <1>4 DEF Service!Next, Service!Connect
<1>5. CASE Online' = FALSE
    BY <1>1, <1>5 DEF Service!Next, Service!Disconnect
<1>6. QED
    BY <1>2, <1>3, <1>4, <1>5

LEMMA HealthCheckStep ==
    ASSUME IInv, IInv', HealthCheck
    PROVE  [Service!Next]_(Service!vars)
<1>1. her' = her /\ rec' = rec
    BY DEF HealthCheck
<1>2. served' = "yes" => Online'
    <2>1. (IInv => (served = "yes" => Online))'
        BY InServiceOnline, PTL
    <2>2. QED
        BY <2>1
<1>3. CASE served' = served
    BY <1>1, <1>2, <1>3, PodsStep
<1>4. CASE served' # served
    <2>1. PICK odd \in SUBSET Misreadable, lost \in SUBSET Started : Judge(odd, lost)
        BY <1>4 DEF HealthCheck
    <2>2. TypeOK
        BY DEF IInv
    <2>3. DOMAIN pods' = DOMAIN pods /\ \A i \in DOMAIN pods : pods'[i].up = pods[i].up
        BY <2>1, <2>2, Judged
    <2>4. Online' = Online
        BY <2>3 DEF Online
    <2>5. Stopping' = Stopping
        BY <1>1 DEF Stopping
    <2>6. CASE served' = "excused"
        BY <2>4, <2>5, <2>6 DEF Service!Next, Service!Misjudge
    <2>7. CASE served' # "excused"
        <3>1. served = "no" /\ served' = "yes"
            BY <1>4, <2>1, <2>7 DEF Judge
        <3>2. Online
            BY <3>1, <2>4, <1>2
        <3>3. QED
            BY <3>1, <3>2, <2>4, <2>5 DEF Service!Next, Service!Enter
    <2>8. QED
        BY <2>6, <2>7
<1>5. QED
    BY <1>3, <1>4

LEMMA ClusterStep ==
    ASSUME IInv, IInv', Cluster
    PROVE  [Service!Next]_(Service!vars)
<1>1. her' = her /\ rec' = rec
    BY DEF Cluster, DeploymentEvent, CreatePod, RemovePod, PodStarts, PodConnects, PodDrops,
           PodCrashes, PodStep
<1>2. served' = "yes" => Online'
    <2>1. (IInv => (served = "yes" => Online))'
        BY InServiceOnline, PTL
    <2>2. QED
        BY <2>1
<1>3. CASE served' = served
    BY <1>1, <1>2, <1>3, PodsStep
<1>4. CASE served' # served
    <2>1. PICK i \in DOMAIN pods : PodDrops(i) \/ PodCrashes(i)
        BY <1>4 DEF Cluster, DeploymentEvent, CreatePod, RemovePod, PodStarts, PodConnects
    <2>2. pods[i].up /\ served' = "excused"
        BY <1>4, <2>1 DEF PodDrops, PodCrashes
    <2>3. Online /\ Online' \in BOOLEAN
        BY <2>2 DEF Online
    <2>4. Stopping' = Stopping
        BY <1>1 DEF Stopping
    <2>5. QED
        BY <2>2, <2>3, <2>4 DEF Service!Next, Service!Fail
<1>5. QED
    BY <1>3, <1>4

LEMMA ScaleDownStep ==
    ASSUME ScaleDown
    PROVE  [Service!Next]_(Service!vars)
<1>1. pods' = pods
    BY DEF ScaleDown
<1>2. served' = served \/ (served = "yes" /\ served' = "no")
    BY DEF ScaleDown
<1>3. CASE served' = served
    BY <1>1, <1>3, AskStep DEF Service!Next
<1>4. CASE served = "yes" /\ served' = "no"
    <2>1. Stopping /\ Stopping' \in BOOLEAN
        BY DEF ScaleDown, Stopping
    <2>2. Online' = Online
        BY <1>1 DEF Online
    <2>3. QED
        BY <1>4, <2>1, <2>2 DEF Service!Next, Service!Leave
<1>5. QED
    BY <1>2, <1>3, <1>4

LEMMA NextImplements ==
    IInv /\ IInv' /\ [Next]_vars => [Service!Next]_(Service!vars)
<1> SUFFICES ASSUME IInv, IInv', [Next]_vars PROVE [Service!Next]_(Service!vars)
    OBVIOUS
<1>1. CASE ScaleDown
    BY <1>1, ScaleDownStep
<1>2. CASE HealthCheck
    BY <1>2, HealthCheckStep
<1>3. CASE Cluster
    BY <1>3, ClusterStep
<1>4. CASE \/ \E i \in Images : SetImage(i)
           \/ \E c \in Configs : SetConfig(c)
           \/ Pause \/ Resume \/ Rebuilding \/ Restart \/ UNCHANGED vars
           \/ ReadHer \/ ApplyFails \/ ApplyConfig \/ DecideRollout
           \/ DecideKeep \/ Ensure \/ UpdateStatus \/ HealthList \/ HealthPatch
    <2>1. pods' = pods /\ served' = served
        BY <1>4 DEF SetImage, SetConfig, Pause, Resume, Edit, Rebuilding, RebuildList,
                    RebuildWrite, Restart, vars, ReadHer, ApplyFails, ApplyConfig,
                    DecideRollout, DecideKeep, Ensure, UpdateStatus, HealthList, HealthPatch
    <2>2. QED
        BY <2>1, AskStep DEF Service!Next
<1>5. QED
    BY <1>1, <1>2, <1>3, <1>4 DEF Next, Reconciling, Checking

\* The operator implements the safety part of InstanceService, for any images,
\* configs, edits and faults: every step of its loops, of the cluster and of the
\* admin service is one the outside knows of, or is not seen there.  The outside
\* knows that a bot may be misjudged, after which nothing is promised.
THEOREM OperatorImplementsService == Spec => Service!SafeSpec
<1>1. Init => Service!Init
    <2>1. SUFFICES ASSUME Init PROVE Service!Init
        OBVIOUS
    <2>2. ~Online
        BY <2>1 DEF Init, Online
    <2>3. ~her.paused /\ rec.pc # "scaleDown" /\ served = "no"
        <3>1. PICK spec \in InitSpecs : her = NewHer(spec)
            BY <2>1 DEF Init
        <3>2. ~her.paused
            BY <3>1 DEF NewHer
        <3>3. rec.pc = "idle" /\ served = "no"
            BY <2>1 DEF Init, Idle
        <3>4. QED
            BY <3>2, <3>3
    <2>4. QED
        BY <2>2, <2>3 DEF Service!Init, Stopping
<1>2. QED
    BY <1>1, OperatorInvariant, NextImplements, PTL DEF Spec, Service!SafeSpec

=============================================================================
