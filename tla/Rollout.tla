------------------------------ MODULE Rollout ------------------------------
(***************************************************************************)
(* The operator-driven rolling restart of the Riak nodes.                  *)
(*                                                                         *)
(* One RiakCluster object, the operator's serial reconcile passes over it  *)
(* (internal/controller/riakcluster_controller.go and rollout.go), and the *)
(* parts of Kubernetes and Riak they act on: the StatefulSet controller    *)
(* with its OrderedReady rolling update, the pods, the ring of the seed    *)
(* node and the handoff that a node coming or going starts.                *)
(*                                                                         *)
(* A pass is cut where other processes can move in between: it snapshots   *)
(* the object, writes the StatefulSet, reads it back through the informer  *)
(* cache together with the pods, asks Riak, patches the partition, and     *)
(* writes the status.  Cache and API server are separate variables, and    *)
(* the pod lists of a pass may be as old as the pass.                      *)
(*                                                                         *)
(* Left out: the pod template's contents (a template is a revision), and   *)
(* the other objects a pass writes (Service, PodDisruptionBudget,          *)
(* certificates, monitoring), which change nothing the rollout reads.      *)
(***************************************************************************)
EXTENDS Integers, FiniteSets

CONSTANTS
    MaxSize,          \* bound on spec.size: ordinals are 0 .. MaxSize - 1
    Revs,             \* pod-template revisions the user can ask for
    FirstRev,         \* the one a RiakCluster is created with
    NoRev,            \* the empty revision of a StatefulSet not yet observed
    Sizes,            \* the values of spec.size the user can choose
    Waits,            \* the values of spec.rollout.waitForTransfers
    MaxEdits,         \* bound on edits of the RiakCluster spec
    MaxCrashes,       \* bound on pod crashes, evictions and operator restarts
    MidRolloutEdits,  \* may template and size change while a rollout runs?
    AllowShrink       \* may spec.size be lowered?

ASSUME MaxSizeAssumption == MaxSize \in Nat \ {0}
ASSUME RevsAssumption == FirstRev \in Revs /\ NoRev \notin Revs
ASSUME SizesAssumption == Sizes \subseteq 1 .. MaxSize
ASSUME BoundsAssumption == MaxEdits \in Nat /\ MaxCrashes \in Nat
ASSUME FlagsAssumption == /\ MidRolloutEdits \in BOOLEAN /\ AllowShrink \in BOOLEAN
                          /\ Waits \subseteq BOOLEAN

Ord == 0 .. MaxSize - 1

VARIABLES
    spec,     \* RiakCluster.spec: size, tmpl, paused, wait (waitForTransfers)
    sts,      \* the StatefulSet at the API server
    cache,    \* the operator's informer copy of it
    seen,     \* the pods as this pass's lists return them
    pod,      \* the pods, by ordinal
    ring,     \* valid members of the seed's ring
    staged,   \* nodes that joined it and are not committed yet
    busy,     \* handoff or ownership transfers are pending
    pc,       \* where the reconcile pass is
    snap,     \* the spec this pass read
    target,   \* the partition this pass is about to patch
    phase,    \* RiakCluster.status.phase
    edits, crashes,            \* bounds
    cleared, restarted, sincePause  \* history, see below

(***************************************************************************)
(* History: cleared holds the ordinals for which a pass found the cluster  *)
(* settled under the StatefulSet's present template, restarted the         *)
(* ordinals its rolling update has taken down under that template, and     *)
(* sincePause how many it has taken down since spec.rollout.paused was     *)
(* last switched.                                                          *)
(***************************************************************************)
opVars   == <<cache, seen, pc, snap, target, phase>>
histVars == <<cleared, restarted, sincePause>>
vars == <<spec, sts, cache, seen, pod, ring, staged, busy, pc, snap, target, phase,
          edits, crashes, cleared, restarted, sincePause>>

Spec0 == [size: Sizes, tmpl: Revs, paused: BOOLEAN, wait: Waits]
StatefulSet == [uid: BOOLEAN, replicas: 0 .. MaxSize, tmpl: Revs \cup {NoRev},
                partition: 0 .. MaxSize, cur: Revs \cup {NoRev}, upd: Revs \cup {NoRev}]
PodStates == {"absent", "terminating", "starting", "ready"}
NoPods == [i \in Ord |-> [st |-> "absent", rev |-> NoRev]]
Phases == {"", "Creating", "Ready", "Failed"}

\* One type invariant: every variable keeps the shape the code gives it; in
\* particular a partition never goes below 0 (rollout.go:105) nor above the
\* largest size a spec asked for. It may exceed spec.size for a while, when the
\* size is lowered; StsInv bounds it by the replicas of the StatefulSet.
TypeOK ==
    /\ spec \in Spec0 /\ snap \in Spec0
    /\ sts \in StatefulSet /\ cache \in StatefulSet
    /\ pod \in [Ord -> [st: PodStates, rev: Revs \cup {NoRev}]]
    /\ seen \in [Ord -> [st: PodStates, rev: Revs \cup {NoRev}]]
    /\ ring \subseteq Ord /\ staged \subseteq Ord /\ busy \in BOOLEAN
    /\ pc \in {"idle", "sts", "rollout", "probe", "patch", "status", "commit"}
    /\ target \in 0 .. MaxSize - 1
    /\ phase \in Phases
    /\ edits \in 0 .. MaxEdits /\ crashes \in 0 .. MaxCrashes
    /\ cleared \subseteq Ord /\ restarted \subseteq Ord
    /\ sincePause \in Nat

Init ==
    /\ spec \in [size: Sizes, tmpl: {FirstRev}, paused: {FALSE}, wait: Waits]
    /\ sts = [uid |-> FALSE, replicas |-> 0, tmpl |-> NoRev, partition |-> 0,
              cur |-> NoRev, upd |-> NoRev]
    /\ cache = sts
    /\ pod = NoPods /\ seen = NoPods
    /\ ring = {0} /\ staged = {} /\ busy = FALSE
    /\ pc = "idle" /\ snap = spec /\ target = 0 /\ phase = ""
    /\ edits = 0 /\ crashes = 0
    /\ cleared = {} /\ restarted = {} /\ sincePause = 0

-----------------------------------------------------------------------------
(* The decisions of rollout.go *)

Ready(i) == pod[i].st = "ready"
Replicas(s) == {i \in Ord : i < s.replicas}

\* rolloutInProgress
RolloutInProgress(s) == s.upd # NoRev /\ s.upd # s.cur

MutStsPartitionForgets(existing, replicas) ==
    IF existing.uid THEN existing.partition ELSE 0
MutStsPartitionMax(existing, replicas) ==
    IF ~existing.uid THEN 0
    ELSE IF RolloutInProgress(existing) /\ existing.partition > replicas
         THEN existing.partition ELSE replicas
\* stsPartition
StsPartition(existing, replicas) ==
    IF ~existing.uid THEN 0
    ELSE IF RolloutInProgress(existing) /\ existing.partition < replicas
         THEN existing.partition
         ELSE replicas

\* The pods rolloutPods lists: those without a deletion timestamp.
RolloutPods == {i \in Ord : seen[i].st \in {"starting", "ready"}}

MutRolloutNextSkips(partition, replicas, updateRevision) ==
    IF partition <= 0 THEN partition ELSE partition - 2
MutRolloutNextKeepsSeed(partition, replicas, updateRevision) ==
    IF \/ partition <= 1
       \/ \E ord \in Ord : /\ partition <= ord /\ ord < replicas
                           /\ seen[ord] # [st |-> "ready", rev |-> updateRevision]
    THEN partition
    ELSE partition - 1
\* rolloutNext: partition itself stands for "blocked"
RolloutNext(partition, replicas, updateRevision) ==
    IF \/ partition <= 0
       \/ \E ord \in Ord : /\ partition <= ord /\ ord < replicas
                           /\ \/ ord \notin RolloutPods
                              \/ seen[ord].rev # updateRevision
                              \/ seen[ord].st # "ready"
    THEN partition
    ELSE partition - 1

\* clusterSettled, the part read from the pod list
PodsSettled(s) ==
    /\ Cardinality(RolloutPods) >= s.size
    /\ \A i \in RolloutPods : seen[i].st = "ready"

MutRiakSettledNoTransfers(s) == s.size = 1 \/ (Cardinality(ring) = s.size /\ staged = {})
\* clusterSettled, the part riak-admin answers (member-status, transfers)
RiakSettled(s) ==
    \/ s.size = 1
    \/ Cardinality(ring) = s.size /\ staged = {} /\ (s.wait => ~busy)

-----------------------------------------------------------------------------
(* The user: edits of the RiakCluster *)

\* The StatefulSet carries the spec and its controller reports no rollout.
Quiescent == /\ spec.tmpl = sts.tmpl
             /\ sts.upd = sts.tmpl /\ sts.cur = sts.tmpl

Edit(s) == /\ edits < MaxEdits
           /\ spec' = s
           /\ edits' = edits + 1
           /\ UNCHANGED <<sts, opVars, pod, ring, staged, busy, crashes, cleared, restarted>>

EditTemplate(r) ==
    /\ r # spec.tmpl
    /\ MidRolloutEdits \/ Quiescent
    /\ Edit([spec EXCEPT !.tmpl = r])
    /\ UNCHANGED sincePause

Resize(n) ==
    /\ n # spec.size
    /\ AllowShrink \/ n > spec.size
    /\ MidRolloutEdits \/ Quiescent
    /\ Edit([spec EXCEPT !.size = n])
    /\ UNCHANGED sincePause

TogglePause ==
    /\ Edit([spec EXCEPT !.paused = ~@])
    /\ sincePause' = 0

-----------------------------------------------------------------------------
(* The operator: one serial reconcile pass *)

\* The pass is over; what it had listed is forgotten.
EndPass == pc' = "idle" /\ seen' = NoPods

\* Get of the RiakCluster at the head of Reconcile
StartPass ==
    /\ pc = "idle"
    /\ pc' = "sts" /\ snap' = spec /\ seen' = pod
    /\ UNCHANGED <<spec, sts, cache, pod, ring, staged, busy, target, phase, edits, crashes, histVars>>

\* reconcileStatefulSet: CreateOrUpdate replaces the whole spec of the object
\* it read; the API server takes it only if that read was current.
ReconcileStatefulSet ==
    /\ pc = "sts" /\ cache = sts
    /\ sts' = [sts EXCEPT !.uid = TRUE, !.replicas = snap.size, !.tmpl = snap.tmpl,
                          !.partition = StsPartition(sts, snap.size)]
    /\ pc' = "rollout"
    /\ IF snap.tmpl = sts.tmpl THEN UNCHANGED <<cleared, restarted>>
                               ELSE cleared' = {} /\ restarted' = {}
    /\ UNCHANGED <<spec, cache, seen, pod, ring, staged, busy, snap, target, phase, edits, crashes, sincePause>>

\* A conflict or any other API error: phase Failed if that can be written,
\* and the pass is retried.
ReconcileStatefulSetFails ==
    /\ pc = "sts"
    /\ phase' \in {"Failed", phase} /\ EndPass
    /\ UNCHANGED <<spec, sts, cache, pod, ring, staged, busy, snap, target, edits, crashes, histVars>>

MutCanStepUnpaused ==
    /\ RolloutInProgress(cache) /\ cache.partition > 0
    /\ RolloutNext(cache.partition, snap.size, cache.upd) # cache.partition
    /\ PodsSettled(snap)
\* reconcileRollout up to the riak-admin calls: the StatefulSet comes from the
\* cache, the pods are listed, nothing is finishing, paused or blocked.
CanStep ==
    /\ RolloutInProgress(cache) /\ cache.partition > 0
    /\ ~snap.paused
    /\ RolloutNext(cache.partition, snap.size, cache.upd) # cache.partition
    /\ PodsSettled(snap)

ReconcileRolloutWaits ==
    /\ pc = "rollout" /\ ~CanStep
    /\ pc' = "status"
    /\ UNCHANGED <<spec, sts, cache, seen, pod, ring, staged, busy, snap, target, phase, edits, crashes, histVars>>

ReconcileRolloutReads ==
    /\ pc = "rollout" /\ CanStep
    /\ pc' = "probe"
    /\ target' = RolloutNext(cache.partition, snap.size, cache.upd)
    /\ UNCHANGED <<spec, sts, cache, seen, pod, ring, staged, busy, snap, phase, edits, crashes, histVars>>

\* member-status and transfers say the cluster is settled
ClusterSettled ==
    /\ pc = "probe" /\ RiakSettled(snap)
    /\ pc' = "patch"
    /\ cleared' = cleared \cup {target}
    /\ UNCHANGED <<spec, sts, cache, seen, pod, ring, staged, busy, snap, target, phase, edits, crashes,
                   restarted, sincePause>>

\* they do not, or riak-admin fails or times out
ClusterNotSettled ==
    /\ pc = "probe"
    /\ pc' = "status"
    /\ UNCHANGED <<spec, sts, cache, seen, pod, ring, staged, busy, snap, target, phase, edits, crashes, histVars>>

\* The merge patch of rollingUpdate.partition carries no resource version.
PatchPartition ==
    /\ pc = "patch"
    /\ sts' = [sts EXCEPT !.partition = target]
    /\ pc' = "status"
    /\ UNCHANGED <<spec, cache, seen, pod, ring, staged, busy, snap, target, phase, edits, crashes, histVars>>

PatchFails ==
    /\ pc = "patch"
    /\ pc' = "status"
    /\ UNCHANGED <<spec, sts, cache, seen, pod, ring, staged, busy, snap, target, phase, edits, crashes, histVars>>

\* updateClusterStatus lists every pod of the cluster; when spec.size of them
\* are Ready it reconciles the ring.  ReconcileMembership asks the seed and
\* every pod, and joins the strangers: pods the seed does not list, not even as
\* joining.  (Module Membership makes every call a step.)
Listed == {i \in Ord : seen[i].st # "absent"}
AllReady(s) == Cardinality({i \in Ord : seen[i].st = "ready"}) = s.size
AsksRiak(s) == AllReady(s) /\ s.size > 1
Strangers(s) == IF AsksRiak(s) THEN Listed \ (ring \cup staged) ELSE {}
Answered(s) == AsksRiak(s) => \A i \in Listed \cup {0} : pod[i].st # "absent"
Formed(s) == s.size = 1 \/ Cardinality(ring) = Cardinality(Listed)

\* Nothing to join: the members the seed lists as valid are counted.
UpdateClusterStatus ==
    /\ pc = "status" /\ Strangers(snap) = {} /\ Answered(snap)
    /\ phase' = IF AllReady(snap) /\ Formed(snap) THEN "Ready" ELSE "Creating"
    /\ EndPass
    /\ UNCHANGED <<spec, sts, cache, pod, ring, staged, busy, snap, target, edits, crashes, histVars>>

JoinStrangers ==
    /\ pc = "status" /\ Strangers(snap) # {} /\ Answered(snap)
    /\ staged' = staged \cup Strangers(snap)
    /\ pc' = "commit"
    /\ UNCHANGED <<spec, sts, cache, seen, pod, ring, busy, snap, target, phase, edits, crashes, histVars>>

\* plan and commit take every staged join, those of earlier passes included.
\* The ring is looked at again by the next pass; the status write may fail.
CommitJoins ==
    /\ pc = "commit" /\ pod[0].st # "absent"
    /\ ring' = ring \cup staged /\ staged' = {} /\ busy' = TRUE
    /\ phase' \in {phase, "Creating"} /\ EndPass
    /\ UNCHANGED <<spec, sts, cache, pod, snap, target, edits, crashes, histVars>>

\* A failing riak-admin call (a listed pod is gone, a time-out) reports
\* Creating, with the joins made so far staged; a failing list or status write
\* leaves the old status.
UpdateClusterStatusFails ==
    /\ pc = "status" /\ EndPass
    /\ phase' \in {phase, "Creating"}
    /\ \E made \in SUBSET Strangers(snap) : staged' = staged \cup made
    /\ UNCHANGED <<spec, sts, cache, pod, ring, busy, snap, target, edits, crashes, histVars>>

\* The plan or the commit fails.  Only a pass that joins another node plans
\* and commits again.
CommitFails ==
    /\ pc = "commit" /\ EndPass
    /\ phase' \in {phase, "Creating"}
    /\ UNCHANGED <<spec, sts, cache, pod, ring, staged, busy, snap, target, edits, crashes, histVars>>

\* An error on one of the other objects (monitoring ConfigMap before the
\* StatefulSet, Service or PodDisruptionBudget after it, the scrape object
\* before the status) returns at once and leaves the status unwritten.
PassAborts ==
    /\ pc \in {"sts", "rollout", "status"} /\ EndPass
    /\ UNCHANGED <<spec, sts, cache, pod, ring, staged, busy, snap, target, phase, edits, crashes, histVars>>

\* The informers catch up.
SyncPods ==
    /\ pc \in {"sts", "rollout", "status"} /\ seen # pod
    /\ seen' = pod
    /\ UNCHANGED <<spec, sts, cache, pod, ring, staged, busy, pc, snap, target, phase, edits, crashes, histVars>>

SyncCache ==
    /\ cache # sts
    /\ cache' = sts
    /\ UNCHANGED <<spec, sts, seen, pod, ring, staged, busy, pc, snap, target, phase, edits, crashes, histVars>>

\* The operator process dies and comes back: the pass is lost.
OperatorRestart ==
    /\ pc # "idle" /\ crashes < MaxCrashes
    /\ EndPass /\ crashes' = crashes + 1
    /\ UNCHANGED <<spec, sts, cache, pod, ring, staged, busy, snap, target, phase, edits, histVars>>

-----------------------------------------------------------------------------
(* External: the StatefulSet controller, OrderedReady with RollingUpdate *)

CurRev == IF sts.cur = NoRev THEN sts.tmpl ELSE sts.cur

\* Every sync writes the status: the update revision is the template's, the
\* current revision follows once every pod runs it and is Ready.
Complete(p) == \A i \in Ord : \/ p[i].st = "absent" /\ i >= sts.replicas
                              \/ p[i].st = "ready" /\ p[i].rev = sts.tmpl
WriteStsStatus(p) ==
    sts' = [sts EXCEPT !.upd = sts.tmpl, !.cur = IF Complete(p) THEN sts.tmpl ELSE CurRev]

Condemned == {i \in Ord : i >= sts.replicas /\ pod[i].st # "absent"}
ReplicasReady == \A i \in Replicas(sts) : Ready(i)

StsCreatePod(i) ==
    /\ sts.uid /\ i < sts.replicas /\ pod[i].st = "absent"
    /\ \A j \in Ord : j < i => Ready(j)
    /\ pod' = [pod EXCEPT ![i] = [st |-> "starting",
                                  rev |-> IF i < sts.partition THEN CurRev ELSE sts.tmpl]]
    /\ WriteStsStatus(pod')
    /\ UNCHANGED <<spec, opVars, ring, staged, busy, edits, crashes, histVars>>

StsScaleDown(i) ==
    /\ sts.uid /\ i \in Condemned /\ ReplicasReady
    /\ \A j \in Condemned : j <= i /\ pod[j].st # "terminating"
    /\ pod' = [pod EXCEPT ![i].st = "terminating"]
    /\ busy' = (busy \/ i \in ring)
    /\ WriteStsStatus(pod')
    /\ UNCHANGED <<spec, opVars, ring, staged, edits, crashes, histVars>>

\* The rolling update itself: the highest ordinal at or above the partition
\* that is not on the template's revision is taken down.
Outdated == {i \in Replicas(sts) : i >= sts.partition /\ pod[i].rev # sts.tmpl}
StsRoll(i) ==
    /\ sts.uid /\ ReplicasReady /\ Condemned = {}
    /\ i \in Outdated /\ \A j \in Outdated : j <= i
    /\ pod' = [pod EXCEPT ![i].st = "terminating"]
    /\ busy' = (busy \/ ring # {0})
    /\ restarted' = restarted \cup {i}
    /\ sincePause' = sincePause + (IF spec.paused THEN 1 ELSE 0)
    /\ WriteStsStatus(pod')
    /\ UNCHANGED <<spec, opVars, ring, staged, edits, crashes, cleared>>

StsObserve ==
    /\ sts.uid
    /\ WriteStsStatus(pod) /\ sts' # sts
    /\ UNCHANGED <<spec, opVars, pod, ring, staged, busy, edits, crashes, histVars>>

-----------------------------------------------------------------------------
(* External: kubelet, node failures, Riak *)

PodGone(i) ==
    /\ pod[i].st = "terminating"
    /\ pod' = [pod EXCEPT ![i] = NoPods[i]]
    /\ UNCHANGED <<spec, sts, opVars, ring, staged, busy, edits, crashes, histVars>>

PodStarts(i) ==
    /\ pod[i].st = "starting"
    /\ pod' = [pod EXCEPT ![i].st = "ready"]
    /\ UNCHANGED <<spec, sts, opVars, ring, staged, busy, edits, crashes, histVars>>

\* The container restarts in place, or the pod is evicted.
PodFails(i) ==
    /\ Ready(i) /\ crashes < MaxCrashes
    /\ \E st \in {"starting", "terminating"} : pod' = [pod EXCEPT ![i].st = st]
    /\ busy' = (busy \/ (i \in ring /\ ring # {0}))
    /\ crashes' = crashes + 1
    /\ UNCHANGED <<spec, sts, opVars, ring, staged, edits, histVars>>

TransfersFinish ==
    /\ busy /\ \A i \in ring : Ready(i)
    /\ busy' = FALSE
    /\ UNCHANGED <<spec, sts, opVars, pod, ring, staged, edits, crashes, histVars>>

-----------------------------------------------------------------------------
User == (\E r \in Revs : EditTemplate(r)) \/ (\E n \in Sizes : Resize(n)) \/ TogglePause

Operator ==
    \/ StartPass \/ ReconcileStatefulSet \/ ReconcileStatefulSetFails
    \/ ReconcileRolloutWaits \/ ReconcileRolloutReads
    \/ ClusterSettled \/ ClusterNotSettled \/ PatchPartition \/ PatchFails
    \/ UpdateClusterStatus \/ JoinStrangers \/ CommitJoins
    \/ UpdateClusterStatusFails \/ CommitFails
    \/ PassAborts \/ SyncCache \/ SyncPods \/ OperatorRestart

StsController ==
    \/ \E i \in Ord : StsCreatePod(i) \/ StsScaleDown(i) \/ StsRoll(i)
    \/ StsObserve

Nodes == (\E i \in Ord : PodGone(i) \/ PodStarts(i) \/ PodFails(i)) \/ TransfersFinish

Next == User \/ Operator \/ StsController \/ Nodes

Spec == Init /\ [][Next]_vars

(***************************************************************************)
(* Fairness.  A pass ends with RequeueAfter 10 s or an error that requeues *)
(* it, so passes go on for ever and each goes on to its end; the informer, *)
(* the StatefulSet controller, the kubelet and Riak's handoff make         *)
(* progress.  A call that can succeed infinitely often is not refused for  *)
(* ever (strong fairness), except plan and commit, which are not made      *)
(* again: a pass that has joined nodes only ends, with them or without.    *)
(***************************************************************************)
Fairness ==
    /\ WF_vars(StartPass) /\ WF_vars(SyncCache) /\ WF_vars(SyncPods)
    /\ SF_vars(ReconcileStatefulSet)
    /\ SF_vars(ReconcileRolloutWaits \/ ReconcileRolloutReads)
    /\ SF_vars(ClusterSettled) /\ WF_vars(ClusterNotSettled)
    /\ SF_vars(PatchPartition) /\ SF_vars(UpdateClusterStatus \/ JoinStrangers)
    /\ WF_vars(CommitJoins \/ CommitFails)
    /\ WF_vars(StsController) /\ WF_vars(TransfersFinish)
    /\ \A i \in Ord : WF_vars(PodGone(i)) /\ WF_vars(PodStarts(i))

FairSpec == Spec /\ Fairness

-----------------------------------------------------------------------------
(* Properties *)

\* Every node the rolling update takes down was released by a pass that found
\* the whole cluster settled under this very template (rollout.go:49-52: "a
\* template change restarts nothing on its own", lowered "only when the
\* cluster is settled").
RestartsCleared == restarted \subseteq cleared

\* Highest ordinal first, the seed <name>-0 last (rollout.go:51): whatever is
\* evicted or crashes meanwhile, a pod on the new template never has a pod on
\* an older one above it.
NewestOnTop ==
    \A i, j \in Replicas(sts) :
        /\ i < j /\ pod[i].st # "absent" /\ pod[j].st # "absent"
        /\ pod[i].rev = sts.tmpl
        => pod[j].rev = sts.tmpl

\* Setting spec.rollout.paused stops the rollout (rollout.go:168): two nodes at
\* most still go down, one whose ordinal was released already and one that the
\* pass under way, holding a spec read before the pause, may still release.
PauseStops == spec.paused => sincePause <= 2

\* While no node fails on its own, a node is taken down by the rollout only
\* when every node is up and in the ring and, with waitForTransfers, nothing
\* is being handed off, although the check was made some steps earlier
\* (clusterSettled; a single-node cluster is restarted without asking Riak).
SettledAtRestart ==
    [][\A i \in Ord :
         crashes = 0 /\ restarted' # restarted /\ Ready(i) /\ ~Ready(i)'
         => /\ ReplicasReady
            /\ sts.replicas > 1 => /\ Cardinality(ring) = sts.replicas
                                   /\ spec.wait => ~busy]_vars

\* Once the user stops editing with the rollout not paused, every node ends on
\* the template asked for, and the cluster is Ready again, whatever failed or
\* crashed meanwhile, with one exception: a pass that staged a join and did not
\* get to commit it.  No later pass plans or commits unless it joins another
\* node (manager.go:90-104), so the node stays "joining" and the rollout waits.
Converged ==
    /\ \A i \in Ord : IF i < spec.size THEN Ready(i) /\ pod[i].rev = spec.tmpl
                                       ELSE pod[i].st = "absent"
    /\ phase = "Ready"
LeftStaged == <>[](staged # {})
RolloutCompletes == <>[](~spec.paused) => []<>Converged \/ LeftStaged

\* The rollout as its user sees it: behind passes that read caches, checks that
\* are old when they are acted on, and patches without a resource version,
\* what happens to the nodes is a RollingRestart (reconcileRollout,
\* stsPartition), as long as template and size are edited between rollouts.
OldPods == {i \in Replicas(sts) : pod[i].st # "absent" /\ pod[i].rev # sts.tmpl}
RR == INSTANCE RollingRestart WITH
          Ordinals <- Ord, Templates <- Revs \cup {NoRev}, wanted <- sts.tmpl,
          released <- cleared, restarted <- restarted, old <- OldPods
ImplementsRollingRestart == RR!Spec

-----------------------------------------------------------------------------
(***************************************************************************)
(* The inductive strengthening behind RestartsCleared and NewestOnTop when *)
(* template and size are edited only between rollouts.                     *)
(***************************************************************************)
Rolling == sts.tmpl # CurRev
Exists(i) == pod[i].st # "absent"

\* Pods run the current or the template's revision; below the partition only
\* the current one.
RevisionsInv ==
    \A i \in Ord : Exists(i) =>
        /\ pod[i].rev \in {CurRev, sts.tmpl}
        /\ Rolling /\ i < sts.partition => pod[i].rev = CurRev

\* What the StatefulSet's own fields say of each other.
StsInv ==
    /\ ~sts.uid => /\ sts.tmpl = NoRev /\ sts.replicas = 0 /\ sts.cur = NoRev
                   /\ sts.partition = 0 /\ \A i \in Ord : ~Exists(i)
    /\ sts.uid => sts.tmpl \in Revs
    /\ sts.partition <= sts.replicas
    /\ sts.cur = NoRev <=> sts.upd = NoRev
    /\ sts.upd \in {sts.cur, sts.tmpl}
    /\ Rolling /\ ~RolloutInProgress(sts) => sts.partition = sts.replicas

\* How far the user's spec and the pass's snapshot can be ahead of it.
SpecInv ==
    /\ Rolling => spec.tmpl = sts.tmpl /\ spec.size = sts.replicas
    /\ sts.uid /\ spec.tmpl # sts.tmpl => sts.cur = sts.tmpl /\ sts.upd = sts.tmpl
    /\ pc = "sts" => \/ snap.tmpl = spec.tmpl /\ snap.size = spec.size
                     \/ snap.tmpl = sts.tmpl /\ ~Rolling
    /\ pc \in {"rollout", "probe", "patch"} => snap.size = sts.replicas

\* What a pass that has read the rollout still knows when it acts on it.
PassInv ==
    /\ pc = "rollout" /\ RolloutInProgress(cache) =>
          /\ cache.partition = sts.partition /\ cache.upd = sts.tmpl
          /\ RolloutInProgress(sts) \/ sts.partition = 0
    /\ pc \in {"probe", "patch"} => RolloutInProgress(sts) /\ target = sts.partition - 1
    /\ pc = "probe" => \A j \in Replicas(sts) :
                          j > target /\ Exists(j) => pod[j].rev = sts.tmpl
    /\ pc = "patch" => target \in cleared

\* What the pod list of a pass, which may be old, still says of the pods.
SeenInv ==
    /\ pc = "sts" /\ snap.tmpl # sts.tmpl =>
          \A i \in Ord : seen[i].st # "absent" => seen[i].rev = sts.tmpl
    /\ pc \in {"sts", "rollout"} /\ Rolling =>
          \A i \in Ord : seen[i].st # "absent" /\ seen[i].rev = sts.tmpl =>
              i >= sts.partition /\ (Exists(i) => pod[i].rev = sts.tmpl)

\* Everything at or above the partition was cleared, nothing above a cleared
\* ordinal is on the old revision, and no restarted ordinal is below the
\* partition.
ClearedInv ==
    Rolling =>
        /\ \A i \in Replicas(sts) : i >= sts.partition => i \in cleared
        /\ \A i \in cleared :
              /\ i >= sts.partition - 1
              /\ \A j \in Replicas(sts) : j > i /\ Exists(j) => pod[j].rev = sts.tmpl
        /\ \A i \in restarted : i >= sts.partition

\* The inductive invariant of the rollout (proved in RolloutProofs).
IInv == /\ RevisionsInv /\ StsInv /\ SpecInv /\ PassInv /\ SeenInv
        /\ ClearedInv /\ RestartsCleared
=============================================================================
