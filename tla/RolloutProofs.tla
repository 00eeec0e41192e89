--------------------------- MODULE RolloutProofs ---------------------------
(***************************************************************************)
(* Proofs about Rollout for every size, every set of revisions and every   *)
(* number of edits and failures.                                           *)
(***************************************************************************)
EXTENDS Rollout, FiniteSetTheorems, TLAPS

\* A leaf is Zenon's unless it names SMT.
USE ZenonT(30)

\* The pass's decision stays within the range of partitions: rolloutNext on a
\* partition of 1 .. MaxSize yields 0 .. MaxSize, and a step yields one less.
LEMMA RolloutNextRange ==
    ASSUME NEW p \in 0 .. MaxSize, NEW n, NEW r
    PROVE  /\ RolloutNext(p, n, r) \in 0 .. MaxSize
           /\ RolloutNext(p, n, r) # p => /\ RolloutNext(p, n, r) = p - 1
                                          /\ p - 1 \in 0 .. MaxSize - 1
  BY MaxSizeAssumption, SMTT(30) DEF RolloutNext

\* The partition written with the spec never exceeds the replica count, so
\* stsPartition keeps the StatefulSet well formed (rollout.go:91).
LEMMA StsPartitionRange ==
    ASSUME NEW s \in StatefulSet, NEW n \in 0 .. MaxSize
    PROVE  /\ StsPartition(s, n) \in 0 .. MaxSize
           /\ StsPartition(s, n) <= n
  BY MaxSizeAssumption, SMTT(30) DEF StsPartition, StatefulSet

\* The empty pod list is one.
LEMMA NoPodsType == NoPods \in [Ord -> [st: PodStates, rev: Revs \cup {NoRev}]]
  BY DEF NoPods, PodStates

\* The status write of the StatefulSet controller changes the two revisions
\* of the status and nothing else.
LEMMA StatusFields ==
    ASSUME NEW p, sts \in StatefulSet, WriteStsStatus(p)
    PROVE  /\ sts' \in StatefulSet
           /\ sts'.uid = sts.uid /\ sts'.replicas = sts.replicas
           /\ sts'.tmpl = sts.tmpl /\ sts'.partition = sts.partition
           /\ sts'.upd = sts.tmpl
           /\ sts'.cur = IF Complete(p) THEN sts.tmpl ELSE CurRev
  BY DEF WriteStsStatus, StatefulSet, CurRev

\* Type correctness: every variable keeps its shape through every step of the
\* user, the operator, the StatefulSet controller and the nodes.
THEOREM TypeCorrect == Spec => []TypeOK
<1>1. Init => TypeOK
  <2> SUFFICES ASSUME Init PROVE TypeOK
    OBVIOUS
  <2>1. spec \in Spec0 /\ snap \in Spec0
    BY RevsAssumption DEF Init, Spec0
  <2>2. [uid |-> FALSE, replicas |-> 0, tmpl |-> NoRev, partition |-> 0,
         cur |-> NoRev, upd |-> NoRev] \in StatefulSet
    BY MaxSizeAssumption, SMTT(30) DEF StatefulSet
  <2>3. NoPods \in [Ord -> [st: PodStates, rev: Revs \cup {NoRev}]]
    BY NoPodsType
  <2>4. sts \in StatefulSet /\ cache \in StatefulSet
    BY <2>2 DEF Init
  <2>5. /\ pod \in [Ord -> [st: PodStates, rev: Revs \cup {NoRev}]]
        /\ seen \in [Ord -> [st: PodStates, rev: Revs \cup {NoRev}]]
    BY <2>3 DEF Init
  <2>6. {0} \subseteq Ord /\ 0 \in 0 .. MaxSize - 1 /\ 0 \in 0 .. MaxEdits
        /\ 0 \in 0 .. MaxCrashes /\ 0 \in Nat /\ FALSE \in BOOLEAN
    BY MaxSizeAssumption, BoundsAssumption, SMTT(30) DEF Ord
  <2> QED BY <2>1, <2>4, <2>5, <2>6 DEF Init, TypeOK, Phases
<1>2. TypeOK /\ [Next]_vars => TypeOK'
  <2> SUFFICES ASSUME TypeOK, [Next]_vars PROVE TypeOK'
    OBVIOUS
  <2> USE DEF TypeOK
  <2>1. CASE User
    <3>1. ASSUME NEW s \in Spec0, Edit(s), sincePause' \in Nat PROVE TypeOK'
      BY <3>1, BoundsAssumption, SMTT(30) DEF Edit, opVars
    <3>2. ASSUME NEW r \in Revs, EditTemplate(r) PROVE TypeOK'
      BY <3>1, <3>2 DEF EditTemplate, Spec0
    <3>3. ASSUME NEW n \in Sizes, Resize(n) PROVE TypeOK'
      BY <3>1, <3>3 DEF Resize, Spec0
    <3>4. CASE TogglePause
      <4>1. [spec EXCEPT !.paused = ~spec.paused] \in Spec0
        BY DEF Spec0
      <4>2. Edit([spec EXCEPT !.paused = ~spec.paused])
        BY <3>4 DEF TogglePause
      <4>3. sincePause' \in Nat
        BY <3>4 DEF TogglePause
      <4> QED BY <3>1, <4>1, <4>2, <4>3
    <3> QED BY <2>1, <3>2, <3>3, <3>4 DEF User
  <2>2. CASE Operator
    <3>1. CASE StartPass
      BY <3>1 DEF StartPass, histVars
    <3>2. CASE ReconcileStatefulSet
      <4>1. snap.size \in 0 .. MaxSize /\ snap.tmpl \in Revs
        <5>1. snap.size \in 1 .. MaxSize /\ snap.tmpl \in Revs
          BY SizesAssumption DEF Spec0
        <5> QED BY <5>1, MaxSizeAssumption, SMTT(30)
      <4>2. StsPartition(sts, snap.size) \in 0 .. MaxSize
        BY <4>1, StsPartitionRange
      <4>3. sts' \in StatefulSet
        BY <3>2, <4>1, <4>2 DEF ReconcileStatefulSet, StatefulSet
      <4> QED BY <3>2, <4>3 DEF ReconcileStatefulSet, histVars
    <3>3. CASE ReconcileStatefulSetFails
      BY <3>3, NoPodsType DEF ReconcileStatefulSetFails, histVars, Phases, EndPass
    <3>4. CASE ReconcileRolloutWaits
      BY <3>4 DEF ReconcileRolloutWaits, histVars
    <3>5. CASE ReconcileRolloutReads
      <4>1. cache.partition \in 0 .. MaxSize
        BY DEF StatefulSet
      <4>2. target' \in 0 .. MaxSize - 1
        BY <3>5, <4>1, RolloutNextRange DEF ReconcileRolloutReads, CanStep
      <4> QED BY <3>5, <4>2 DEF ReconcileRolloutReads, histVars
    <3>6. CASE ClusterSettled
      BY <3>6 DEF ClusterSettled, Ord
    <3>7. CASE ClusterNotSettled
      BY <3>7 DEF ClusterNotSettled, histVars
    <3>8. CASE PatchPartition
      <4>1. target \in 0 .. MaxSize
        BY MaxSizeAssumption, SMTT(30)
      <4> QED BY <3>8, <4>1 DEF PatchPartition, histVars, StatefulSet
    <3>9. CASE PatchFails
      BY <3>9 DEF PatchFails, histVars
    <3>10. CASE UpdateClusterStatus \/ CommitFails
      BY <3>10, NoPodsType DEF UpdateClusterStatus, CommitFails, histVars, Phases, EndPass
    <3>11. CASE UpdateClusterStatusFails
      BY <3>11, NoPodsType DEF UpdateClusterStatusFails, histVars, Phases, EndPass, Strangers, Listed
    <3>16. CASE JoinStrangers
      BY <3>16 DEF JoinStrangers, histVars, Strangers, Listed
    <3>17. CASE CommitJoins
      BY <3>17, NoPodsType DEF CommitJoins, histVars, Phases, EndPass
    <3>12. CASE SyncCache
      BY <3>12 DEF SyncCache, histVars
    <3>13. CASE OperatorRestart
      BY <3>13, BoundsAssumption, NoPodsType, SMTT(30) DEF OperatorRestart, histVars, EndPass
    <3>14. CASE PassAborts
      BY <3>14, NoPodsType DEF PassAborts, histVars, EndPass
    <3>15. CASE SyncPods
      BY <3>15 DEF SyncPods, histVars
    <3> QED BY <2>2, <3>1, <3>2, <3>3, <3>4, <3>5, <3>6, <3>7, <3>8, <3>9, <3>10,
               <3>11, <3>12, <3>13, <3>14, <3>15, <3>16, <3>17 DEF Operator
  <2>3. CASE StsController
    <3>1. ASSUME NEW i \in Ord, StsCreatePod(i) PROVE TypeOK'
      <4>1. CurRev \in Revs \cup {NoRev} /\ sts.tmpl \in Revs \cup {NoRev}
        BY DEF CurRev, StatefulSet
      <4>2. sts' \in StatefulSet
        BY <3>1, StatusFields DEF StsCreatePod
      <4> QED BY <3>1, <4>1, <4>2 DEF StsCreatePod, opVars, histVars, PodStates
    <3>2. ASSUME NEW i \in Ord, StsScaleDown(i) PROVE TypeOK'
      <4>1. sts' \in StatefulSet
        BY <3>2, StatusFields DEF StsScaleDown
      <4> QED BY <3>2, <4>1 DEF StsScaleDown, opVars, histVars, PodStates
    <3>3. ASSUME NEW i \in Ord, StsRoll(i) PROVE TypeOK'
      <4>1. sts' \in StatefulSet
        BY <3>3, StatusFields DEF StsRoll
      <4> QED BY <3>3, <4>1, SMTT(30) DEF StsRoll, opVars, PodStates
    <3>4. CASE StsObserve
      <4>1. sts' \in StatefulSet
        BY <3>4, StatusFields DEF StsObserve
      <4> QED BY <3>4, <4>1 DEF StsObserve, opVars, histVars
    <3> QED BY <2>3, <3>1, <3>2, <3>3, <3>4 DEF StsController
  <2>4. CASE Nodes
    <3>1. ASSUME NEW i \in Ord, PodGone(i) PROVE TypeOK'
      BY <3>1, NoPodsType DEF PodGone, opVars, histVars
    <3>2. ASSUME NEW i \in Ord, PodStarts(i) PROVE TypeOK'
      BY <3>2 DEF PodStarts, opVars, histVars, PodStates
    <3>3. ASSUME NEW i \in Ord, PodFails(i) PROVE TypeOK'
      BY <3>3, BoundsAssumption, SMTT(30) DEF PodFails, opVars, histVars, PodStates
    <3>4. CASE TransfersFinish
      BY <3>4 DEF TransfersFinish, opVars, histVars
    <3> QED BY <2>4, <3>1, <3>2, <3>3, <3>4 DEF Nodes
  <2>5. CASE UNCHANGED vars
    BY <2>5 DEF vars
  <2> QED BY <2>1, <2>2, <2>3, <2>4, <2>5 DEF Next
<1> QED BY <1>1, <1>2, PTL DEF Spec

-----------------------------------------------------------------------------
(* The inductive invariant, when template and size change between rollouts *)

\* A pass that ends, fails or is lost leaves nothing the invariant speaks of.
LEMMA PassEnds ==
    ASSUME IInv, UNCHANGED <<spec, sts, pod, cleared, restarted>>,
           pc' \in {"idle", "status", "commit"}
    PROVE  IInv'
  BY DEF IInv, RevisionsInv, StsInv, SpecInv, PassInv, SeenInv, ClearedInv, RestartsCleared,
         Rolling, Exists, CurRev, Replicas, RolloutInProgress

\* Kubelet and failures take pods away or restart them, never change their
\* revision.
LEMMA PodsKeepRevision ==
    ASSUME IInv, UNCHANGED <<spec, sts, cache, seen, pc, snap, target, cleared, restarted>>,
           \A i \in Ord : pod'[i].st # "absent" =>
               pod[i].st # "absent" /\ pod'[i].rev = pod[i].rev
    PROVE  IInv'
  BY SMTT(30) DEF IInv, RevisionsInv, StsInv, SpecInv, PassInv, SeenInv, ClearedInv, RestartsCleared,
         Rolling, Exists, CurRev, Replicas, RolloutInProgress

\* The revisions in the StatefulSet, as the invariant relates them.
LEMMA Revisions ==
    ASSUME TypeOK, IInv
    PROVE  /\ sts.uid => CurRev \in Revs /\ CurRev # NoRev /\ sts.tmpl # NoRev
           /\ RolloutInProgress(sts) => Rolling /\ sts.upd = sts.tmpl /\ sts.cur = CurRev
  BY RevsAssumption DEF TypeOK, StatefulSet, IInv, StsInv, CurRev, Rolling, RolloutInProgress

\* The pods themselves satisfy what SeenInv asks of the list of them.
LEMMA PodsFollow ==
    ASSUME TypeOK, IInv
    PROVE  /\ \A i \in Ord : Exists(i) /\ Rolling /\ pod[i].rev = sts.tmpl => i >= sts.partition
           /\ pc = "sts" /\ snap.tmpl # sts.tmpl =>
                 \A i \in Ord : Exists(i) => pod[i].rev = sts.tmpl
<1>1. \A i \in Ord : Exists(i) /\ Rolling /\ pod[i].rev = sts.tmpl => i >= sts.partition
  BY SMTT(30) DEF IInv, RevisionsInv, Rolling, TypeOK, StatefulSet, Ord
<1>2. pc = "sts" /\ snap.tmpl # sts.tmpl => ~Rolling
  BY DEF IInv, SpecInv
<1> QED BY <1>1, <1>2 DEF IInv, RevisionsInv, Rolling

\* A sync of the StatefulSet controller: the pods it creates get the revision
\* their side of the partition asks for, and the status follows.  A rollout
\* with a partition above 0 cannot be complete: the seed is still on the
\* current revision.
LEMMA ControllerSync ==
    ASSUME TypeOK, IInv, sts.uid, WriteStsStatus(pod'),
           UNCHANGED <<spec, cache, seen, pc, snap, target, cleared>>,
           restarted' \subseteq cleared,
           Rolling => \A i \in restarted' : i >= sts.partition,
           \A i \in Ord : pod'[i].st # "absent" =>
               \/ pod[i].st # "absent" /\ pod'[i].rev = pod[i].rev
               \/ pod'[i].rev = IF i < sts.partition THEN CurRev ELSE sts.tmpl
    PROVE  IInv'
<1>1. /\ sts'.uid = sts.uid /\ sts'.replicas = sts.replicas
      /\ sts'.tmpl = sts.tmpl /\ sts'.partition = sts.partition
      /\ sts'.upd = sts.tmpl
      /\ sts'.cur = IF Complete(pod') THEN sts.tmpl ELSE CurRev
  BY StatusFields DEF TypeOK
<1>2. CurRev \in Revs /\ CurRev # NoRev /\ sts.tmpl # NoRev
  BY Revisions
<1>3. /\ CurRev' = IF Complete(pod') THEN sts.tmpl ELSE CurRev
      /\ Rolling' <=> Rolling /\ ~Complete(pod')
  BY <1>1, <1>2 DEF CurRev, Rolling
<1>4. Replicas(sts)' = Replicas(sts)
  BY <1>1 DEF Replicas
<1>5. Rolling /\ Complete(pod') => sts.partition = 0
  <2> SUFFICES ASSUME Rolling, Complete(pod'), sts.partition # 0 PROVE FALSE
    OBVIOUS
  <2>1. 0 \in Ord /\ 0 < sts.partition /\ 0 < sts.replicas
    BY MaxSizeAssumption, SMTT(30) DEF TypeOK, StatefulSet, IInv, StsInv, Ord
  <2>2. pod'[0].st # "absent" /\ pod'[0].rev = sts.tmpl
    BY <2>1, SMTT(30) DEF Complete, TypeOK, StatefulSet
  <2>3. pod'[0].rev = CurRev
    BY <2>1, <2>2 DEF IInv, RevisionsInv, Exists
  <2> QED BY <2>2, <2>3 DEF Rolling
<1>6. RevisionsInv'
  <2> SUFFICES ASSUME NEW i \in Ord, pod'[i].st # "absent"
               PROVE  /\ pod'[i].rev \in {CurRev', sts.tmpl}
                      /\ Rolling' /\ i < sts.partition => pod'[i].rev = CurRev'
    BY <1>1 DEF RevisionsInv, Exists
  <2>1. pod'[i].rev \in {CurRev, sts.tmpl}
    BY DEF IInv, RevisionsInv, Exists
  <2>2. Rolling /\ i < sts.partition => pod'[i].rev = CurRev
    BY DEF IInv, RevisionsInv, Exists
  <2>3. Complete(pod') => pod'[i].rev = sts.tmpl
    BY DEF Complete
  <2> QED BY <1>3, <2>1, <2>2, <2>3
<1>7. StsInv'
  BY <1>1, <1>2, <1>3 DEF IInv, StsInv, RolloutInProgress, Rolling
<1>8. SpecInv'
  BY <1>1, <1>2, <1>3 DEF IInv, SpecInv, CurRev
<1>9. PassInv'
  <2>1. RolloutInProgress(sts) => RolloutInProgress(sts)' \/ sts.partition = 0
    BY <1>1, <1>2, <1>3, <1>5, Revisions DEF RolloutInProgress, Rolling
  <2>2. ASSUME NEW j \in Ord, j >= sts.partition, pod'[j].st # "absent",
               pod[j].st # "absent" => pod[j].rev = sts.tmpl
        PROVE  pod'[j].rev = sts.tmpl
    BY <2>2, SMTT(30) DEF TypeOK, StatefulSet, Ord
  <2>3. pc \in {"probe", "patch"} => sts.partition # 0
    BY SMTT(30) DEF TypeOK, IInv, PassInv
  <2>4. pc = "probe" => \A j \in Replicas(sts) :
                          j > target /\ pod'[j].st # "absent" => pod'[j].rev = sts.tmpl
    <3> SUFFICES ASSUME pc = "probe", NEW j \in Replicas(sts), j > target,
                        pod'[j].st # "absent"
                 PROVE  pod'[j].rev = sts.tmpl
      OBVIOUS
    <3>1. j \in Ord /\ j >= sts.partition
      BY SMTT(30) DEF IInv, PassInv, Replicas, TypeOK, StatefulSet, Ord
    <3>2. pod[j].st # "absent" => pod[j].rev = sts.tmpl
      BY DEF IInv, PassInv, Exists
    <3> QED BY <2>2, <3>1, <3>2
  <2> QED BY <1>1, <1>4, <2>1, <2>3, <2>4 DEF IInv, PassInv, RolloutInProgress, Exists
<1>11. SeenInv'
  <2>1. ASSUME NEW i \in Ord, pod'[i].st # "absent", i >= sts.partition,
               pod[i].st # "absent" => pod[i].rev = sts.tmpl
        PROVE  pod'[i].rev = sts.tmpl
    BY <2>1, SMTT(30) DEF TypeOK, StatefulSet, Ord
  <2> QED BY <1>1, <1>3, <2>1 DEF IInv, SeenInv, Exists
<1>10. ClearedInv'
  <2> SUFFICES ASSUME Rolling
               PROVE  /\ \A i \in Replicas(sts) : i >= sts.partition => i \in cleared
                      /\ \A i \in cleared :
                           /\ i >= sts.partition - 1
                           /\ \A j \in Replicas(sts) :
                                j > i /\ pod'[j].st # "absent" => pod'[j].rev = sts.tmpl
                      /\ \A i \in restarted' : i >= sts.partition
    BY <1>1, <1>3, <1>4 DEF ClearedInv, Exists
  <2>1. ASSUME NEW i \in cleared, NEW j \in Replicas(sts), j > i, pod'[j].st # "absent"
        PROVE  pod'[j].rev = sts.tmpl
    <3>1. j \in Ord /\ i \in Ord /\ i >= sts.partition - 1
      BY DEF IInv, ClearedInv, Replicas, TypeOK
    <3>2. ~(j < sts.partition)
      BY <2>1, <3>1, SMTT(30) DEF TypeOK, StatefulSet, Ord
    <3>3. pod[j].st # "absent" => pod[j].rev = sts.tmpl
      BY <2>1 DEF IInv, ClearedInv, Exists
    <3> QED BY <2>1, <3>1, <3>2, <3>3
  <2> QED BY <2>1 DEF IInv, ClearedInv
<1> QED BY <1>6, <1>7, <1>8, <1>9, <1>10, <1>11 DEF IInv, RestartsCleared

\* The write of reconcileStatefulSet: during a rollout the partition stays
\* where it is, outside one it is put at the new replica count, so a template
\* that changes here releases no ordinal.
LEMMA SpecWrite ==
    ASSUME TypeOK, IInv, ReconcileStatefulSet
    PROVE  IInv'
<1>0. snap.size \in 1 .. MaxSize /\ snap.tmpl \in Revs /\ snap.tmpl # NoRev
  BY SizesAssumption, RevsAssumption DEF TypeOK, Spec0
<1>1. /\ sts'.uid /\ sts'.replicas = snap.size /\ sts'.tmpl = snap.tmpl
      /\ sts'.partition = StsPartition(sts, snap.size)
      /\ sts'.cur = sts.cur /\ sts'.upd = sts.upd
  BY DEF ReconcileStatefulSet, TypeOK, StatefulSet
<1>2. /\ pc = "sts" /\ pc' = "rollout" /\ cache' = cache /\ cache = sts
      /\ spec' = spec /\ snap' = snap /\ pod' = pod /\ seen' = seen
  BY DEF ReconcileStatefulSet
<1>3. StsPartition(sts, snap.size) \in 0 .. MaxSize /\ StsPartition(sts, snap.size) <= snap.size
  BY <1>0, StsPartitionRange, SMTT(30) DEF TypeOK
<1>4. CASE Rolling /\ sts.uid
  <2>1. /\ snap.tmpl = sts.tmpl /\ snap.size = sts.replicas
        /\ spec.tmpl = sts.tmpl /\ spec.size = sts.replicas
    BY <1>2, <1>4 DEF IInv, SpecInv
  <2>2. StsPartition(sts, snap.size) = sts.partition
    <3>1. /\ sts.partition <= sts.replicas /\ sts.partition \in Nat /\ sts.replicas \in Nat
          /\ RolloutInProgress(sts) \/ sts.partition = sts.replicas
      BY <1>4, SMTT(30) DEF IInv, StsInv, TypeOK, StatefulSet
    <3> QED BY <1>4, <2>1, <3>1, SMTT(30) DEF StsPartition
  <2>3. cleared' = cleared /\ restarted' = restarted
    BY <2>1 DEF ReconcileStatefulSet
  <2>4. CurRev' = CurRev /\ Rolling' /\ Replicas(sts)' = Replicas(sts)
    BY <1>1, <1>4, <2>1 DEF CurRev, Rolling, Replicas
  <2>5. RevisionsInv'
    BY <1>1, <1>2, <1>4, <2>1, <2>2, <2>4 DEF IInv, RevisionsInv, Exists
  <2>6. StsInv'
    BY <1>1, <1>2, <1>4, <2>1, <2>2, <2>4 DEF IInv, StsInv, Exists, RolloutInProgress
  <2>7. SpecInv'
    BY <1>1, <1>2, <2>1 DEF SpecInv
  <2>8. PassInv'
    BY <1>1, <1>2, <1>4, <2>1, <2>2, Revisions DEF PassInv, RolloutInProgress
  <2>9. ClearedInv'
    BY <1>1, <1>2, <1>4, <2>1, <2>2, <2>3, <2>4 DEF IInv, ClearedInv, Exists
  <2>10. SeenInv'
    BY <1>1, <1>2, <1>4, <2>1, <2>2 DEF IInv, SeenInv, Exists
  <2> QED BY <2>3, <2>5, <2>6, <2>7, <2>8, <2>9, <2>10 DEF IInv, RestartsCleared
<1>5. CASE ~(Rolling /\ sts.uid)
  <2>1. \/ /\ ~sts.uid /\ sts.tmpl = NoRev /\ sts.cur = NoRev /\ sts.upd = NoRev
           /\ \A i \in Ord : ~Exists(i)
        \/ /\ sts.uid /\ ~Rolling /\ sts.tmpl # NoRev
           /\ \A i \in Ord : Exists(i) => pod[i].rev = sts.tmpl
    BY <1>5, RevsAssumption DEF IInv, StsInv, RevisionsInv, Rolling
  <2>2. sts.uid => ~RolloutInProgress(sts) /\ sts'.partition = snap.size
    BY <1>1, <1>5, Revisions DEF StsPartition
  <2>3. ~sts.uid => ~RolloutInProgress(sts) /\ CurRev' = snap.tmpl /\ sts'.partition = 0
    BY <1>1, <2>1 DEF RolloutInProgress, CurRev, StsPartition
  <2>4. sts.uid => CurRev' = sts.tmpl \/ (sts.cur = NoRev /\ CurRev' = snap.tmpl)
    BY <1>1, <2>1 DEF CurRev, Rolling
  <2>5. Rolling' => /\ sts.uid /\ sts.cur # NoRev /\ snap.tmpl # sts.tmpl
                    /\ CurRev' = sts.tmpl /\ sts.cur = sts.tmpl
    BY <1>1, <2>1, <2>3, <2>4 DEF Rolling, CurRev
  <2>6. snap.tmpl # sts.tmpl /\ sts.uid =>
            /\ sts.cur = sts.tmpl /\ sts.upd = sts.tmpl
            /\ snap.tmpl = spec.tmpl /\ snap.size = spec.size
    BY <1>2 DEF IInv, SpecInv
  <2>7. RevisionsInv'
    <3> SUFFICES ASSUME NEW i \in Ord, Exists(i)
                 PROVE  /\ pod[i].rev \in {CurRev', snap.tmpl}
                        /\ Rolling' => pod[i].rev = CurRev'
      BY <1>1, <1>2 DEF RevisionsInv, Exists
    <3>1. sts.uid /\ pod[i].rev = sts.tmpl /\ sts.tmpl # NoRev
      BY <2>1
    <3> QED BY <2>4, <2>5, <2>6, <3>1
  <2>8. StsInv'
    BY <1>0, <1>1, <1>2, <1>3, <2>1, <2>2, <2>3, <2>5, <2>6
       DEF IInv, StsInv, RolloutInProgress, Rolling, CurRev
  <2>9. SpecInv'
    <3>1. Rolling' => spec.tmpl = snap.tmpl /\ spec.size = snap.size
      BY <2>5, <2>6
    <3>2. spec.tmpl # snap.tmpl => sts.cur = snap.tmpl /\ sts.upd = snap.tmpl
      BY <1>0, <1>2, <2>1 DEF IInv, SpecInv
    <3> QED BY <1>1, <1>2, <3>1, <3>2 DEF SpecInv
  <2>10. PassInv'
    BY <1>2, <2>2, <2>3 DEF PassInv, RolloutInProgress
  <2>11. ClearedInv'
    <3> SUFFICES ASSUME Rolling' PROVE ClearedInv'
      BY DEF ClearedInv
    <3>1. cleared' = {} /\ restarted' = {} /\ sts'.partition = snap.size
      BY <2>2, <2>5 DEF ReconcileStatefulSet
    <3>2. \A i \in Replicas(sts)' : ~(i >= sts'.partition)
      BY <1>0, <1>1, <3>1, SMTT(30) DEF Replicas, Ord
    <3> QED BY <3>1, <3>2 DEF ClearedInv
  <2>12. RestartsCleared'
    BY DEF IInv, RestartsCleared, ReconcileStatefulSet
  <2>13. SeenInv'
    BY <1>1, <1>2, <2>5 DEF IInv, SeenInv
  <2> QED BY <2>7, <2>8, <2>9, <2>10, <2>11, <2>12, <2>13 DEF IInv
<1> QED BY <1>4, <1>5

\* Deciding, checking and patching one step of the rollout: the partition and
\* the update revision the pass read from its cache are still the ones at the
\* API server, and the ordinal it patches is the one it had checked.
LEMMA RolloutStep ==
    ASSUME TypeOK, IInv,
           ReconcileRolloutReads \/ ClusterSettled \/ PatchPartition
    PROVE  IInv'
<1>1. CASE ReconcileRolloutReads
  <2>1. /\ pc = "rollout" /\ RolloutInProgress(cache) /\ cache.partition > 0
        /\ pc' = "probe" /\ UNCHANGED <<spec, sts, cache, pod, snap, cleared, restarted>>
        /\ target' = RolloutNext(cache.partition, snap.size, cache.upd)
        /\ target' # cache.partition
    BY <1>1 DEF ReconcileRolloutReads, CanStep, histVars
  <2>2. /\ cache.partition = sts.partition /\ cache.upd = sts.tmpl
        /\ RolloutInProgress(sts) /\ snap.size = sts.replicas
    BY <2>1, SMTT(30) DEF IInv, PassInv, SpecInv, TypeOK, StatefulSet
  <2>3. target' = sts.partition - 1
    BY <2>1, <2>2, RolloutNextRange, SMTT(30) DEF TypeOK, StatefulSet
  <2>4. ASSUME NEW j \in Replicas(sts), j > target', Exists(j)
        PROVE  pod[j].rev = sts.tmpl
    <3>1. j \in Ord /\ j < sts.replicas /\ sts.partition <= j
      BY <2>3, <2>4, SMTT(30) DEF Replicas, TypeOK, StatefulSet, Ord
    <3>2. seen[j].st # "absent" /\ seen[j].rev = sts.tmpl
      BY <2>1, <2>2, <3>1 DEF RolloutNext, RolloutPods
    <3> QED BY <2>1, <2>2, <2>4, <3>1, <3>2, Revisions DEF IInv, SeenInv
  <2>5. PassInv'
    BY <2>1, <2>2, <2>3, <2>4 DEF PassInv, RolloutInProgress, Replicas, Exists
  <2>6. SpecInv'
    BY <2>1, <2>2 DEF IInv, SpecInv, Rolling, CurRev
  <2> QED BY <2>1, <2>5, <2>6 DEF IInv, RevisionsInv, StsInv, SeenInv, ClearedInv, RestartsCleared,
             Rolling, Exists, CurRev, Replicas, RolloutInProgress
<1>2. CASE ClusterSettled
  <2>1. /\ pc = "probe" /\ pc' = "patch" /\ cleared' = cleared \cup {target}
        /\ UNCHANGED <<spec, sts, cache, pod, snap, target, restarted>>
    BY <1>2 DEF ClusterSettled
  <2>2. /\ target = sts.partition - 1 /\ RolloutInProgress(sts)
        /\ \A j \in Replicas(sts) : j > target /\ Exists(j) => pod[j].rev = sts.tmpl
    BY <2>1 DEF IInv, PassInv
  <2>3. ClearedInv'
    BY <2>1, <2>2, SMTT(30) DEF IInv, ClearedInv, Rolling, CurRev, Replicas, Exists, TypeOK, StatefulSet
  <2>4. PassInv' /\ RestartsCleared'
    BY <2>1, <2>2 DEF IInv, PassInv, RestartsCleared, RolloutInProgress
  <2> QED BY <2>1, <2>3, <2>4 DEF IInv, RevisionsInv, StsInv, SpecInv, SeenInv,
             Rolling, Exists, CurRev, RolloutInProgress
<1>3. CASE PatchPartition
  <2>1. /\ pc = "patch" /\ pc' = "status"
        /\ UNCHANGED <<spec, cache, pod, snap, target, cleared, restarted>>
        /\ sts'.uid = sts.uid /\ sts'.replicas = sts.replicas /\ sts'.tmpl = sts.tmpl
        /\ sts'.partition = target /\ sts'.cur = sts.cur /\ sts'.upd = sts.upd
    BY <1>3 DEF PatchPartition, histVars, TypeOK, StatefulSet
  <2>2. /\ target = sts.partition - 1 /\ target \in cleared /\ target \in 0 .. MaxSize - 1
        /\ RolloutInProgress(sts) /\ Rolling
    BY <2>1, Revisions DEF IInv, PassInv, TypeOK
  <2>3. /\ CurRev' = CurRev /\ Replicas(sts)' = Replicas(sts) /\ Rolling'
        /\ RolloutInProgress(sts)'
    BY <2>1, <2>2 DEF CurRev, Replicas, Rolling, RolloutInProgress
  <2>4. sts.uid /\ sts.partition \in 0 .. MaxSize
    BY <2>2, SMTT(30) DEF IInv, StsInv, TypeOK, StatefulSet
  <2>5. RevisionsInv'
    <3> SUFFICES ASSUME NEW i \in Ord, Exists(i)
                 PROVE  /\ pod[i].rev \in {CurRev, sts.tmpl}
                        /\ i < target => pod[i].rev = CurRev
      BY <2>1, <2>3 DEF RevisionsInv, Exists
    <3>1. i < target => i < sts.partition
      BY <2>2, <2>4, SMTT(30) DEF Ord
    <3> QED BY <2>2, <3>1 DEF IInv, RevisionsInv
  <2>6. StsInv'
    BY <2>1, <2>2, <2>3, <2>4, SMTT(30) DEF IInv, StsInv, TypeOK, StatefulSet
  <2>7. SpecInv'
    BY <2>1, <2>2 DEF IInv, SpecInv
  <2>8. ClearedInv'
    <3>1. ASSUME NEW i \in Replicas(sts), i >= target PROVE i \in cleared
      <4>1. i >= sts.partition \/ i = target
        BY <2>2, <2>4, <3>1, SMTT(30) DEF Replicas, Ord
      <4> QED BY <2>2, <4>1 DEF IInv, ClearedInv
    <3>2. ASSUME NEW i \in cleared PROVE i >= target - 1
      BY <2>2, <2>4, SMTT(30) DEF IInv, ClearedInv, TypeOK, Ord
    <3>3. ASSUME NEW i \in restarted PROVE i >= target
      BY <2>2, <2>4, SMTT(30) DEF IInv, ClearedInv, TypeOK, Ord
    <3> QED BY <2>1, <2>2, <2>3, <3>1, <3>2, <3>3 DEF IInv, ClearedInv, Exists
  <2> QED BY <2>1, <2>5, <2>6, <2>7, <2>8 DEF IInv, PassInv, SeenInv, RestartsCleared
<1> QED BY <1>1, <1>2, <1>3

\* The StatefulSet controller takes down, under the rolling update, only an
\* ordinal that a pass has cleared: outside a rollout no pod is outdated.
LEMMA RollIsCleared ==
    ASSUME TypeOK, IInv, NEW i \in Ord, StsRoll(i)
    PROVE  restarted' \subseteq cleared /\ \A j \in restarted' : j >= sts.partition
<1>1. i \in Replicas(sts) /\ i >= sts.partition /\ pod[i].rev # sts.tmpl
  BY DEF StsRoll, Outdated
<1>2. Exists(i)
  BY <1>1 DEF StsRoll, ReplicasReady, Ready, Exists
<1>3. Rolling
  BY <1>1, <1>2 DEF IInv, RevisionsInv, Rolling
<1>4. i \in cleared
  BY <1>1, <1>3 DEF IInv, ClearedInv
<1> QED BY <1>1, <1>3, <1>4 DEF StsRoll, IInv, RestartsCleared, ClearedInv

\* IInv is inductive when template and size are edited between rollouts.
THEOREM Inductive == ASSUME ~MidRolloutEdits PROVE Spec => []IInv
<1>1. Init => IInv
  <2> SUFFICES ASSUME Init PROVE IInv
    OBVIOUS
  <2>1. /\ ~sts.uid /\ sts.replicas = 0 /\ sts.tmpl = NoRev /\ sts.partition = 0
        /\ sts.cur = NoRev /\ sts.upd = NoRev
        /\ \A i \in Ord : pod[i].st = "absent"
        /\ pc = "idle" /\ restarted = {}
    BY DEF Init, NoPods
  <2> QED BY <2>1, SMTT(30) DEF IInv, RevisionsInv, StsInv, SpecInv, PassInv, SeenInv, ClearedInv,
             RestartsCleared, Rolling, Exists, CurRev, Replicas, RolloutInProgress
<1>2. TypeOK /\ IInv /\ [Next]_vars => IInv'
  <2> SUFFICES ASSUME TypeOK, IInv, [Next]_vars PROVE IInv'
    OBVIOUS
  <2>1. ASSUME NEW r \in Revs, EditTemplate(r) PROVE IInv'
    <3>1. /\ spec'.size = spec.size /\ Quiescent
          /\ UNCHANGED <<sts, cache, seen, pod, pc, snap, target, cleared, restarted>>
      BY <2>1 DEF EditTemplate, Edit, opVars, TypeOK, Spec0
    <3> QED BY <3>1 DEF Quiescent, IInv, RevisionsInv, StsInv, SpecInv, PassInv, SeenInv, ClearedInv,
               RestartsCleared, Rolling, Exists, CurRev, Replicas, RolloutInProgress
  <2>2. ASSUME NEW n \in Sizes, Resize(n) PROVE IInv'
    <3>1. /\ spec'.tmpl = spec.tmpl /\ Quiescent
          /\ UNCHANGED <<sts, cache, seen, pod, pc, snap, target, cleared, restarted>>
      BY <2>2 DEF Resize, Edit, opVars, TypeOK, Spec0
    <3> QED BY <3>1 DEF Quiescent, IInv, RevisionsInv, StsInv, SpecInv, PassInv, SeenInv, ClearedInv,
               RestartsCleared, Rolling, Exists, CurRev, Replicas, RolloutInProgress
  <2>3. CASE TogglePause
    <3>1. /\ spec'.tmpl = spec.tmpl /\ spec'.size = spec.size
          /\ UNCHANGED <<sts, cache, seen, pod, pc, snap, target, cleared, restarted>>
      BY <2>3 DEF TogglePause, Edit, opVars, TypeOK, Spec0
    <3> QED BY <3>1, SMTT(30) DEF IInv, RevisionsInv, StsInv, SpecInv, PassInv, SeenInv, ClearedInv,
               RestartsCleared, Rolling, Exists, CurRev, Replicas, RolloutInProgress
  <2>4. CASE StartPass
    <3>1. /\ seen' = pod /\ snap' = spec /\ pc' = "sts"
          /\ UNCHANGED <<spec, sts, cache, pod, target, cleared, restarted>>
      BY <2>4 DEF StartPass, histVars
    <3>2. SeenInv'
      <4>1. \A i \in Ord : Exists(i) /\ spec.tmpl # sts.tmpl => pod[i].rev = sts.tmpl
        BY DEF IInv, SpecInv, RevisionsInv, Rolling
      <4>2. \A i \in Ord : Exists(i) /\ Rolling /\ pod[i].rev = sts.tmpl => i >= sts.partition
        BY PodsFollow
      <4> QED BY <3>1, <4>1, <4>2 DEF SeenInv, Exists, Rolling, CurRev
    <3> QED BY <3>1, <3>2 DEF IInv, RevisionsInv, StsInv, SpecInv, PassInv, ClearedInv,
               RestartsCleared, Rolling, Exists, CurRev, Replicas, RolloutInProgress
  <2>5. CASE ReconcileStatefulSet
    BY <2>5, SpecWrite
  <2>6. CASE ReconcileStatefulSetFails
    BY <2>6, PassEnds DEF ReconcileStatefulSetFails, histVars, EndPass
  <2>7. CASE ReconcileRolloutWaits
    BY <2>7, PassEnds DEF ReconcileRolloutWaits, histVars
  <2>8. CASE ReconcileRolloutReads \/ ClusterSettled \/ PatchPartition
    BY <2>8, RolloutStep
  <2>9. CASE ClusterNotSettled
    BY <2>9, PassEnds DEF ClusterNotSettled, histVars
  <2>10. CASE PatchFails
    BY <2>10, PassEnds DEF PatchFails, histVars
  <2>11. CASE UpdateClusterStatus
    BY <2>11, PassEnds DEF UpdateClusterStatus, histVars, EndPass
  <2>12. CASE UpdateClusterStatusFails
    BY <2>12, PassEnds DEF UpdateClusterStatusFails, histVars, EndPass
  <2>23. CASE JoinStrangers
    BY <2>23, PassEnds DEF JoinStrangers, histVars
  <2>24. CASE CommitJoins
    BY <2>24, PassEnds DEF CommitJoins, histVars, EndPass
  <2>25. CASE CommitFails
    BY <2>25, PassEnds DEF CommitFails, histVars, EndPass
  <2>13. CASE SyncCache
    <3>1. /\ cache' = sts
          /\ UNCHANGED <<spec, sts, seen, pod, pc, snap, target, cleared, restarted>>
      BY <2>13 DEF SyncCache, histVars
    <3>2. PassInv'
      BY <3>1, Revisions DEF IInv, PassInv, RolloutInProgress, Exists, Replicas
    <3> QED BY <3>1, <3>2 DEF IInv, RevisionsInv, StsInv, SpecInv, SeenInv, ClearedInv,
               RestartsCleared, Rolling, Exists, CurRev, Replicas, RolloutInProgress
  <2>14. CASE OperatorRestart
    BY <2>14, PassEnds DEF OperatorRestart, histVars, EndPass
  <2>21. CASE PassAborts
    BY <2>21, PassEnds DEF PassAborts, histVars, EndPass
  <2>22. CASE SyncPods
    <3>1. /\ seen' = pod
          /\ UNCHANGED <<spec, sts, cache, pod, pc, snap, target, cleared, restarted>>
      BY <2>22 DEF SyncPods, histVars
    <3>2. SeenInv'
      BY <3>1, PodsFollow DEF SeenInv, Exists, Rolling, CurRev
    <3> QED BY <3>1, <3>2 DEF IInv, RevisionsInv, StsInv, SpecInv, PassInv, ClearedInv,
               RestartsCleared, Rolling, Exists, CurRev, Replicas, RolloutInProgress
  <2>15. ASSUME NEW i \in Ord, StsCreatePod(i) PROVE IInv'
    <3>1. \A j \in Ord : pod'[j].st # "absent" =>
               \/ pod[j].st # "absent" /\ pod'[j].rev = pod[j].rev
               \/ pod'[j].rev = IF j < sts.partition THEN CurRev ELSE sts.tmpl
      BY <2>15 DEF StsCreatePod, TypeOK
    <3>2. /\ sts.uid /\ WriteStsStatus(pod')
          /\ UNCHANGED <<spec, cache, seen, pc, snap, target, cleared, restarted>>
      BY <2>15 DEF StsCreatePod, opVars, histVars
    <3>3. restarted' \subseteq cleared /\ (Rolling => \A j \in restarted' : j >= sts.partition)
      BY <3>2 DEF IInv, RestartsCleared, ClearedInv
    <3> QED BY <3>1, <3>2, <3>3, ControllerSync
  <2>16. ASSUME NEW i \in Ord, StsScaleDown(i) PROVE IInv'
    <3>1. \A j \in Ord : pod'[j].st # "absent" => pod[j].st # "absent" /\ pod'[j].rev = pod[j].rev
      BY <2>16 DEF StsScaleDown, Condemned, TypeOK
    <3>2. /\ sts.uid /\ WriteStsStatus(pod')
          /\ UNCHANGED <<spec, cache, seen, pc, snap, target, cleared, restarted>>
      BY <2>16 DEF StsScaleDown, opVars, histVars
    <3>3. restarted' \subseteq cleared /\ (Rolling => \A j \in restarted' : j >= sts.partition)
      BY <3>2 DEF IInv, RestartsCleared, ClearedInv
    <3> QED BY <3>1, <3>2, <3>3, ControllerSync
  <2>17. ASSUME NEW i \in Ord, StsRoll(i) PROVE IInv'
    <3>1. \A j \in Ord : pod'[j].st # "absent" => pod[j].st # "absent" /\ pod'[j].rev = pod[j].rev
      BY <2>17 DEF StsRoll, Outdated, ReplicasReady, Ready, TypeOK
    <3>2. /\ sts.uid /\ WriteStsStatus(pod')
          /\ UNCHANGED <<spec, cache, seen, pc, snap, target, cleared>>
      BY <2>17 DEF StsRoll, opVars
    <3> QED BY <2>17, <3>1, <3>2, RollIsCleared, ControllerSync
  <2>18. CASE StsObserve
    <3>1. /\ sts.uid /\ WriteStsStatus(pod')
          /\ UNCHANGED <<spec, cache, seen, pc, snap, target, cleared, restarted, pod>>
      BY <2>18 DEF StsObserve, opVars, histVars
    <3>2. restarted' \subseteq cleared /\ (Rolling => \A j \in restarted' : j >= sts.partition)
      BY <3>1 DEF IInv, RestartsCleared, ClearedInv
    <3> QED BY <3>1, <3>2, ControllerSync
  <2>19. ASSUME NEW i \in Ord, PodGone(i) \/ PodStarts(i) \/ PodFails(i) PROVE IInv'
    <3>1. \A j \in Ord : pod'[j].st # "absent" => pod[j].st # "absent" /\ pod'[j].rev = pod[j].rev
      <4>1. CASE PodGone(i)
        <5>1. NoPods[i].st = "absent"
          BY DEF NoPods
        <5> QED BY <4>1, <5>1 DEF PodGone, TypeOK
      <4>2. CASE PodStarts(i)
        BY <4>2 DEF PodStarts, TypeOK
      <4>3. CASE PodFails(i)
        BY <4>3, SMTT(30) DEF PodFails, Ready, TypeOK
      <4> QED BY <2>19, <4>1, <4>2, <4>3
    <3>2. UNCHANGED <<spec, sts, cache, seen, pc, snap, target, cleared, restarted>>
      BY <2>19 DEF PodGone, PodStarts, PodFails, opVars, histVars
    <3> QED BY <3>1, <3>2, PodsKeepRevision
  <2>20. CASE TransfersFinish \/ UNCHANGED vars
    BY <2>20, PodsKeepRevision DEF TransfersFinish, vars, opVars, histVars
  <2> QED BY <2>1, <2>2, <2>3, <2>4, <2>5, <2>6, <2>7, <2>8, <2>9, <2>10, <2>11, <2>12,
             <2>13, <2>14, <2>15, <2>16, <2>17, <2>18, <2>19, <2>20, <2>21, <2>22, <2>23, <2>24, <2>25
          DEF Next, User, Operator, StsController, Nodes
<1> QED BY <1>1, <1>2, TypeCorrect, PTL DEF Spec

\* Every node the rolling update takes down, whatever crashes, is evicted, is
\* stale or fails in between, was released by a pass that found the cluster
\* settled under this template (rollout.go:49-52, stsPartition, rolloutNext).
THEOREM RestartsAreCleared == ASSUME ~MidRolloutEdits PROVE Spec => []RestartsCleared
<1>1. IInv => RestartsCleared
  BY DEF IInv
<1> QED BY <1>1, Inductive, PTL

\* The rollout goes from the highest ordinal down to the seed: no pod on an
\* older revision stands above one on the new template.
THEOREM NewestStaysOnTop == ASSUME ~MidRolloutEdits PROVE Spec => []NewestOnTop
<1>1. TypeOK /\ IInv => NewestOnTop
  <2> SUFFICES ASSUME TypeOK, IInv, NEW i \in Replicas(sts), NEW j \in Replicas(sts),
                      i < j, Exists(i), Exists(j), pod[i].rev = sts.tmpl
               PROVE  pod[j].rev = sts.tmpl
    BY DEF NewestOnTop, Exists
  <2>1. CASE ~Rolling
    BY <2>1 DEF IInv, RevisionsInv, Rolling, Replicas
  <2>2. CASE Rolling
    <3>1. i \in Ord /\ j \in Ord /\ ~(i < sts.partition)
      BY <2>2 DEF IInv, RevisionsInv, Rolling, Replicas
    <3>2. i \in cleared
      BY <2>2, <3>1, SMTT(30) DEF IInv, ClearedInv, TypeOK, StatefulSet, Ord
    <3> QED BY <2>2, <3>2 DEF IInv, ClearedInv
  <2> QED BY <2>1, <2>2
<1> QED BY <1>1, Inductive, TypeCorrect, PTL

-----------------------------------------------------------------------------
(* Pausing *)

\* The one node that may still go down: the StatefulSet's partition stands at
\* its ordinal, and it is up on an older revision.
Due == /\ sts.partition < sts.replicas
       /\ pod[sts.partition].st \in {"starting", "ready"}
       /\ pod[sts.partition].rev # sts.tmpl

\* The pass under way holds a spec without the pause, and may yet patch.
Stepping == pc \in {"sts", "rollout", "probe", "patch"} /\ ~snap.paused

\* Each of the two may still cost one node.
PauseInv ==
    /\ pc \in {"probe", "patch"} => ~snap.paused
    /\ spec.paused => /\ sincePause <= 2
                      /\ Due \/ Stepping => sincePause <= 1
                      /\ Due /\ Stepping => sincePause = 0

\* A step that adds neither keeps the invariant.
LEMMA PauseKept ==
    ASSUME PauseInv, sincePause' = sincePause, spec'.paused = spec.paused,
           Due' => Due, Stepping' => Stepping,
           pc' \in {"probe", "patch"} => ~snap'.paused
    PROVE  PauseInv'
BY DEF PauseInv

\* The rolling update takes down the pod at the partition, and no other: what
\* is above it is on the new template.
LEMMA RollTakesDue ==
    ASSUME TypeOK, IInv, NEW i \in Ord, StsRoll(i)
    PROVE  Due /\ i = sts.partition
<1>1. i \in Replicas(sts) /\ i >= sts.partition /\ pod[i].rev # sts.tmpl /\ pod[i].st = "ready"
  BY DEF StsRoll, Outdated, ReplicasReady, Ready
<1>2. Rolling
  BY <1>1 DEF IInv, RevisionsInv, Rolling, Exists
<1>3. i < sts.replicas /\ sts.partition \in Nat /\ i \in Nat /\ sts.replicas \in Nat
  BY <1>1, SMTT(30) DEF Replicas, TypeOK, StatefulSet, Ord
<1>4. sts.partition \in Replicas(sts)
  BY <1>1, <1>3, MaxSizeAssumption, SMTT(30) DEF Replicas, Ord
<1>5. sts.partition \in cleared
  BY <1>2, <1>3, <1>4, SMTT(30) DEF IInv, ClearedInv
<1>6. ~(i > sts.partition)
  BY <1>1, <1>2, <1>5 DEF IInv, ClearedInv, Exists
<1>7. i = sts.partition
  BY <1>1, <1>3, <1>6, SMTT(30)
<1> QED
  BY <1>1, <1>3, <1>7 DEF Due

\* Writing the spec makes no pod due: the partition stays, or is put above
\* every replica, or there is no pod yet.
LEMMA SpecWriteDue ==
    ASSUME TypeOK, IInv, ReconcileStatefulSet
    PROVE  Due' => Due
<1>1. /\ sts'.replicas = snap.size /\ sts'.tmpl = snap.tmpl /\ pod' = pod /\ pc = "sts"
      /\ sts'.partition = StsPartition(sts, snap.size) /\ snap.size \in 1 .. MaxSize
  BY SizesAssumption DEF ReconcileStatefulSet, TypeOK, StatefulSet, Spec0
<1>2. CASE Rolling /\ sts.uid
  <2>1. snap.tmpl = sts.tmpl /\ snap.size = sts.replicas
    BY <1>1, <1>2 DEF IInv, SpecInv
  <2>2. StsPartition(sts, snap.size) = sts.partition
    <3>1. /\ sts.partition <= sts.replicas /\ sts.partition \in Nat /\ sts.replicas \in Nat
          /\ RolloutInProgress(sts) \/ sts.partition = sts.replicas
      BY <1>2, SMTT(30) DEF IInv, StsInv, TypeOK, StatefulSet
    <3> QED BY <1>2, <2>1, <3>1, SMTT(30) DEF StsPartition
  <2> QED BY <1>1, <2>1, <2>2 DEF Due
<1>3. CASE ~Rolling /\ sts.uid
  <2>1. sts'.partition = sts'.replicas
    BY <1>1, <1>3, Revisions DEF StsPartition
  <2> QED BY <1>1, <2>1, SMTT(30) DEF Due
<1>4. CASE ~sts.uid
  <2>1. sts'.partition \in Ord
    BY <1>1, <1>4, MaxSizeAssumption, SMTT(30) DEF StsPartition, Ord
  <2>2. \A j \in Ord : pod[j].st = "absent"
    BY <1>4 DEF IInv, StsInv, Exists
  <2> QED BY <1>1, <2>1, <2>2 DEF Due
<1> QED BY <1>2, <1>3, <1>4

\* A step of the pods that brings none up on another revision than the
\* template's at the partition makes no pod due.
LEMMA PodsDue ==
    ASSUME TypeOK, sts'.partition = sts.partition, sts'.tmpl = sts.tmpl, sts'.replicas = sts.replicas,
           \A j \in Ord : \/ pod'[j].st \notin {"starting", "ready"}
                          \/ pod'[j].rev = sts.tmpl
                          \/ pod[j].st \in {"starting", "ready"} /\ pod'[j].rev = pod[j].rev
                          \/ j < sts.partition
    PROVE  Due' => Due
<1>1. sts.partition < sts.replicas => sts.partition \in Ord /\ ~(sts.partition < sts.partition)
  BY MaxSizeAssumption, SMTT(30) DEF TypeOK, StatefulSet, Ord
<1> QED
  BY <1>1 DEF Due

LEMMA PauseStep == TypeOK /\ IInv /\ PauseInv /\ [Next]_vars => PauseInv'
<1> SUFFICES ASSUME TypeOK, IInv, PauseInv, [Next]_vars PROVE PauseInv'
  OBVIOUS
<1>0. sincePause \in Nat
  BY DEF TypeOK
<1>1. CASE (\E r \in Revs : EditTemplate(r)) \/ (\E n \in Sizes : Resize(n))
  <2>1. UNCHANGED <<sincePause, sts, pod, pc, snap>> /\ spec'.paused = spec.paused
    BY <1>1 DEF EditTemplate, Resize, Edit, opVars, TypeOK, Spec0
  <2> QED BY <2>1, PauseKept DEF Due, Stepping, PauseInv
<1>2. CASE TogglePause
  <2>1. sincePause' = 0 /\ UNCHANGED <<pc, snap>>
    BY <1>2 DEF TogglePause, Edit, opVars
  <2> QED BY <2>1, SMTT(30) DEF PauseInv
<1>3. CASE StartPass
  <2>1. /\ UNCHANGED <<sincePause, sts, pod, spec>> /\ pc' = "sts" /\ snap' = spec
    BY <1>3 DEF StartPass, histVars
  <2>2. CASE spec.paused
    BY <2>1, <2>2, PauseKept DEF Due, Stepping
  <2>3. CASE ~spec.paused
    BY <2>1, <2>3 DEF PauseInv
  <2> QED BY <2>2, <2>3
<1>4. CASE ReconcileStatefulSet
  <2>1. UNCHANGED <<sincePause, spec, snap>> /\ pc = "sts" /\ pc' = "rollout"
    BY <1>4 DEF ReconcileStatefulSet
  <2> QED BY <1>4, <2>1, SpecWriteDue, PauseKept DEF Stepping
<1>5. CASE ReconcileRolloutReads \/ ClusterSettled
  <2>1. /\ UNCHANGED <<sincePause, spec, sts, pod, snap>>
        /\ pc \in {"rollout", "probe"} /\ pc' \in {"probe", "patch"} /\ ~snap.paused
    BY <1>5 DEF ReconcileRolloutReads, ClusterSettled, CanStep, histVars, PauseInv
  <2> QED BY <2>1, PauseKept DEF Due, Stepping
<1>6. CASE PatchPartition
  <2>1. UNCHANGED <<sincePause, spec, snap>> /\ pc = "patch" /\ pc' = "status"
    BY <1>6 DEF PatchPartition, histVars
  <2>2. Stepping /\ ~Stepping'
    BY <2>1 DEF PauseInv, Stepping
  <2> QED BY <1>0, <2>1, <2>2 DEF PauseInv
<1>7. CASE \/ ReconcileStatefulSetFails \/ ReconcileRolloutWaits \/ ClusterNotSettled \/ PatchFails
           \/ UpdateClusterStatus \/ JoinStrangers \/ CommitJoins
           \/ UpdateClusterStatusFails \/ CommitFails \/ PassAborts \/ OperatorRestart
  <2>1. UNCHANGED <<sincePause, spec, sts, pod, snap>> /\ pc' \in {"idle", "status", "commit"}
    BY <1>7 DEF ReconcileStatefulSetFails, ReconcileRolloutWaits, ClusterNotSettled, PatchFails,
       UpdateClusterStatus, JoinStrangers, CommitJoins, UpdateClusterStatusFails, CommitFails,
       PassAborts, OperatorRestart, EndPass, histVars
  <2> QED BY <2>1, PauseKept DEF Due, Stepping
<1>8. CASE SyncCache \/ SyncPods \/ TransfersFinish \/ UNCHANGED vars
  <2>1. UNCHANGED <<sincePause, spec, sts, pod, pc, snap>>
    BY <1>8 DEF SyncCache, SyncPods, TransfersFinish, vars, opVars, histVars
  <2> QED BY <2>1, PauseKept DEF Due, Stepping, PauseInv
<1>9. ASSUME NEW i \in Ord, StsCreatePod(i) \/ StsScaleDown(i) PROVE PauseInv'
  <2>1. UNCHANGED <<sincePause, spec, pc, snap>> /\ WriteStsStatus(pod')
    BY <1>9 DEF StsCreatePod, StsScaleDown, opVars, histVars
  <2>2. \A j \in Ord : \/ pod'[j].st \notin {"starting", "ready"}
                       \/ pod'[j].rev = sts.tmpl
                       \/ pod[j].st \in {"starting", "ready"} /\ pod'[j].rev = pod[j].rev
                       \/ j < sts.partition
    BY <1>9, SMTT(30) DEF StsCreatePod, StsScaleDown, TypeOK, PodStates
  <2>3. sts'.partition = sts.partition /\ sts'.tmpl = sts.tmpl /\ sts'.replicas = sts.replicas
    BY <2>1, StatusFields DEF TypeOK
  <2>4. Due' => Due
    BY <2>2, <2>3, PodsDue
  <2> QED BY <2>1, <2>4, PauseKept DEF Stepping, PauseInv
<1>10. ASSUME NEW i \in Ord, StsRoll(i) PROVE PauseInv'
  <2>1. /\ UNCHANGED <<spec, pc, snap>> /\ WriteStsStatus(pod')
        /\ sincePause' = sincePause + (IF spec.paused THEN 1 ELSE 0)
        /\ pod' = [pod EXCEPT ![i].st = "terminating"]
    BY <1>10 DEF StsRoll, opVars
  <2>2. Due /\ i = sts.partition
    BY <1>10, RollTakesDue
  <2>3. sts'.partition = sts.partition
    BY <2>1, StatusFields DEF TypeOK
  <2>4. ~Due'
    BY <2>1, <2>2, <2>3 DEF Due, TypeOK
  <2>5. Stepping' <=> Stepping
    BY <2>1 DEF Stepping
  <2>6. spec.paused => sincePause' = sincePause + 1
    BY <2>1
  <2>7. spec'.paused = spec.paused /\ (pc' \in {"probe", "patch"} => ~snap'.paused)
    BY <2>1 DEF PauseInv
  <2> QED BY <1>0, <2>2, <2>4, <2>5, <2>6, <2>7, SMTT(30) DEF PauseInv
<1>11. CASE StsObserve
  <2>1. UNCHANGED <<sincePause, spec, pc, snap, pod>> /\ WriteStsStatus(pod)
    BY <1>11 DEF StsObserve, opVars, histVars
  <2>2. sts'.partition = sts.partition /\ sts'.tmpl = sts.tmpl /\ sts'.replicas = sts.replicas
    BY <2>1, StatusFields DEF TypeOK
  <2> QED BY <2>1, <2>2, PauseKept DEF Due, Stepping, PauseInv
<1>12. ASSUME NEW i \in Ord, PodGone(i) \/ PodStarts(i) \/ PodFails(i) PROVE PauseInv'
  <2>1. UNCHANGED <<sincePause, spec, pc, snap, sts>>
    BY <1>12 DEF PodGone, PodStarts, PodFails, opVars, histVars
  <2>2. \A j \in Ord : \/ pod'[j].st \notin {"starting", "ready"}
                       \/ pod[j].st \in {"starting", "ready"} /\ pod'[j].rev = pod[j].rev
    <3>1. CASE PodGone(i)
      <4>1. NoPods[i].st = "absent"
        BY DEF NoPods
      <4> QED BY <3>1, <4>1 DEF PodGone, TypeOK, PodStates
    <3>2. CASE PodStarts(i)
      BY <3>2 DEF PodStarts, TypeOK, PodStates
    <3>3. CASE PodFails(i)
      BY <3>3, SMTT(30) DEF PodFails, Ready, TypeOK, PodStates
    <3> QED BY <1>12, <3>1, <3>2, <3>3
  <2>3. Due' => Due
    BY <2>1, <2>2, PodsDue
  <2> QED BY <2>1, <2>3, PauseKept DEF Stepping, PauseInv
<1> QED
  BY <1>1, <1>2, <1>3, <1>4, <1>5, <1>6, <1>7, <1>8, <1>9, <1>10, <1>11, <1>12
  DEF Next, User, Operator, StsController, Nodes

\* A pause stops the rollout: from the moment spec.rollout.paused is set, and
\* whatever fails, is stale or restarts, at most two nodes are taken down
\* (rollout.go:168, the paused check of reconcileRollout).
THEOREM PauseIsKept == ASSUME ~MidRolloutEdits PROVE Spec => []PauseStops
<1>1. Init => PauseInv
  <2>1. Init => ~spec.paused /\ pc = "idle"
    BY DEF Init
  <2> QED BY <2>1 DEF PauseInv
<1>2. PauseInv => PauseStops
  BY DEF PauseInv, PauseStops
<1> QED BY <1>1, <1>2, PauseStep, Inductive, TypeCorrect, PTL DEF Spec

-----------------------------------------------------------------------------
(* The cluster is still settled when a node goes down *)

\* What clusterSettled found, in terms of the ring itself
Settled == sts.replicas > 1 => ring = Replicas(sts) /\ (spec.wait => ~busy)

\* When spec.size only grows, no pod stands above the replicas, no node above
\* them is in the ring or staged for it, and so nothing but the restart itself
\* can unsettle the cluster between the check of a pass and the restart it
\* releases: what could be staged is not in the ring, which is full.
SettleInv ==
    /\ sts.replicas <= spec.size
    /\ pc = "sts" => sts.replicas <= snap.size /\ snap.size <= spec.size
    /\ pc = "status" => snap.size = sts.replicas
    /\ snap.wait = spec.wait
    /\ \A i \in Ord : i >= sts.replicas => pod[i].st = "absent" /\ seen[i].st = "absent"
    /\ ring \subseteq Replicas(sts) \cup {0}
    /\ staged \subseteq Replicas(sts) \ ring
    /\ pc = "commit" => staged # {}
    /\ crashes = 0 /\ (pc = "patch" \/ Due) => Settled

LEMMA SizesAreNumbers ==
    ASSUME TypeOK
    PROVE  spec.size \in Nat /\ snap.size \in Nat /\ sts.replicas \in Nat
<1>1. spec.size \in Sizes /\ snap.size \in Sizes
  BY DEF TypeOK, Spec0
<1>2. spec.size \in 1 .. MaxSize /\ snap.size \in 1 .. MaxSize
  BY <1>1, SizesAssumption
<1>3. spec.size \in Nat /\ snap.size \in Nat
  BY <1>2, MaxSizeAssumption, SMTT(30)
<1> QED
  BY <1>3, SMTT(30) DEF TypeOK, StatefulSet

LEMMA ReplicasCount ==
    ASSUME TypeOK
    PROVE  IsFiniteSet(Replicas(sts)) /\ Cardinality(Replicas(sts)) = sts.replicas
<1>1. PICK n \in 0 .. MaxSize : n = sts.replicas
  BY DEF TypeOK, StatefulSet
<1>2. Replicas(sts) = 0 .. n - 1
  BY <1>1, MaxSizeAssumption, SMTT(30) DEF Replicas, Ord
<1>3. n \in Nat /\ n - 1 \in Int
  BY <1>1, MaxSizeAssumption, SMTT(30)
<1>4. IsFiniteSet(0 .. n - 1) /\ Cardinality(0 .. n - 1) = IF 0 > n - 1 THEN 0 ELSE (n - 1) - 0 + 1
  BY <1>3, FS_Interval, SMTT(30)
<1> QED
  BY <1>1, <1>2, <1>3, <1>4, SMTT(30)

\* riak-admin reported as many members as there are replicas: the ring is they.
LEMMA SettledRing ==
    ASSUME TypeOK, SettleInv, Cardinality(ring) = sts.replicas, sts.replicas > 1
    PROVE  ring = Replicas(sts)
<1>1. 0 \in Replicas(sts)
  BY MaxSizeAssumption, SMTT(30) DEF Replicas, Ord, TypeOK, StatefulSet
<1>2. ring \subseteq Replicas(sts)
  BY <1>1 DEF SettleInv
<1> QED
  BY <1>2, ReplicasCount, FS_Subset

\* A pod that is due is on the old revision of a rollout.
LEMMA DueRolls ==
    ASSUME TypeOK, IInv, Due
    PROVE  Rolling
<1>1. sts.partition \in Ord
  BY MaxSizeAssumption, SMTT(30) DEF Due, TypeOK, StatefulSet, Ord
<1> QED
  BY <1>1 DEF Due, IInv, RevisionsInv, Rolling, Exists

\* At the patch no pod is due: everything above its target is updated.
LEMMA PatchNotDue ==
    ASSUME TypeOK, IInv, pc = "patch"
    PROVE  ~Due
<1> SUFFICES ASSUME Due PROVE FALSE
  OBVIOUS
<1>1. Rolling /\ target \in cleared /\ target = sts.partition - 1
  BY DueRolls DEF IInv, PassInv
<1>2. sts.partition \in Replicas(sts) /\ sts.partition > target
  BY <1>1, MaxSizeAssumption, SMTT(30) DEF Due, TypeOK, StatefulSet, Ord, Replicas
<1> QED
  BY <1>1, <1>2 DEF IInv, ClearedInv, Exists, Due

\* A step that leaves the StatefulSet's size, the ring and the transfers, and
\* makes no pod due.
LEMMA SettleKept ==
    ASSUME TypeOK, SettleInv, UNCHANGED <<spec, ring, staged>>, sts'.replicas = sts.replicas,
           crashes' = 0 => crashes = 0 /\ busy' = busy,
           Due' => Due, pc' = "patch" => pc = "patch", pc' = "commit" => pc = "commit",
           snap' = snap, pc' = "sts" => pc = "sts", pc' = "status" => snap.size = sts.replicas,
           \A i \in Ord : i >= sts.replicas => pod'[i].st = "absent" /\ seen'[i].st = "absent"
    PROVE  SettleInv'
<1>1. Replicas(sts)' = Replicas(sts)
  BY DEF Replicas
<1>2. crashes' = 0 /\ (pc' = "patch" \/ Due') => Settled'
  BY <1>1 DEF SettleInv, Settled
<1> QED
  BY <1>1, <1>2 DEF SettleInv

LEMMA SettleEdits ==
    ASSUME ~MidRolloutEdits, ~AllowShrink, TypeOK, IInv, SettleInv, User
    PROVE  SettleInv'
<1>1. UNCHANGED <<sts, pod, seen, ring, staged, busy, pc, snap, crashes>>
  BY DEF User, EditTemplate, Resize, TogglePause, Edit, opVars
<1>2. spec'.wait = spec.wait /\ spec.size <= spec'.size
  <2>1. spec.size \in Nat
    BY SizesAreNumbers
  <2>2. ASSUME NEW r \in Revs, EditTemplate(r) PROVE spec'.wait = spec.wait /\ spec'.size = spec.size
    BY <2>2 DEF EditTemplate, Edit, TypeOK, Spec0
  <2>3. ASSUME NEW n \in Sizes, Resize(n) PROVE spec'.wait = spec.wait /\ spec'.size > spec.size
    BY <2>3 DEF Resize, Edit, TypeOK, Spec0
  <2>4. ASSUME TogglePause PROVE spec'.wait = spec.wait /\ spec'.size = spec.size
    BY <2>4 DEF TogglePause, Edit, TypeOK, Spec0
  <2>5. spec'.size \in Nat
    BY SizesAssumption, SMTT(30) DEF User, EditTemplate, Resize, TogglePause, Edit, TypeOK, Spec0
  <2> QED
    BY <2>1, <2>2, <2>3, <2>4, <2>5, SMTT(30) DEF User
<1>3. sts.replicas <= spec'.size /\ (pc = "sts" => snap.size <= spec'.size)
  <2>1. {sts.replicas, snap.size, spec.size} \subseteq Nat
    BY SizesAreNumbers
  <2>2. spec'.size \in Nat
    BY SizesAssumption, SMTT(30) DEF User, EditTemplate, Resize, TogglePause, Edit, TypeOK, Spec0
  <2> QED
    BY <1>2, <2>1, <2>2, SMTT(30) DEF SettleInv
<1>4. Replicas(sts)' = Replicas(sts) /\ (Due' <=> Due)
  BY <1>1 DEF Replicas, Due
<1>5. Settled => Settled'
  BY <1>1, <1>2, <1>4 DEF Settled
<1> QED
  BY <1>1, <1>2, <1>3, <1>4, <1>5 DEF SettleInv

LEMMA SettleStart ==
    ASSUME TypeOK, IInv, SettleInv, StartPass
    PROVE  SettleInv'
<1>1. /\ pc' = "sts" /\ snap' = spec /\ seen' = pod /\ UNCHANGED <<spec, sts, pod, ring, staged, busy, crashes>>
  BY DEF StartPass
<1>2. spec.size <= spec.size
  BY SizesAreNumbers, SMTT(30)
<1>3. Replicas(sts)' = Replicas(sts) /\ (Due' <=> Due) /\ (Settled' <=> Settled)
  BY <1>1 DEF Replicas, Due, Settled
<1> QED
  BY <1>1, <1>2, <1>3 DEF SettleInv

LEMMA SettleWrite ==
    ASSUME TypeOK, IInv, SettleInv, ReconcileStatefulSet
    PROVE  SettleInv'
<1>1. /\ sts'.replicas = snap.size /\ pc = "sts" /\ pc' = "rollout"
      /\ UNCHANGED <<spec, snap, pod, seen, ring, staged, busy, crashes>>
  BY DEF ReconcileStatefulSet, TypeOK, StatefulSet
<1>2. sts.replicas <= snap.size /\ snap.size <= spec.size
  BY <1>1 DEF SettleInv
<1>3. sts.replicas \in Nat /\ snap.size \in Nat
  BY SizesAreNumbers
<1>4. \A i \in Ord : i >= snap.size => i >= sts.replicas
  BY <1>2, <1>3, SMTT(30) DEF Ord
<1>5. Replicas(sts) \subseteq Replicas(sts)'
  BY <1>1, <1>2, <1>3, SMTT(30) DEF Replicas, Ord
<1>6. ASSUME crashes = 0, Due' PROVE Settled'
  <2>1. Due
    BY <1>6, SpecWriteDue
  <2>2. snap.size = sts.replicas
    BY <1>1, <2>1, DueRolls DEF IInv, SpecInv
  <2>3. Replicas(sts)' = Replicas(sts)
    BY <1>1, <2>2 DEF Replicas
  <2> QED
    BY <1>1, <1>6, <2>1, <2>2, <2>3 DEF SettleInv, Settled
<1> QED
  BY <1>1, <1>2, <1>4, <1>5, <1>6 DEF SettleInv

\* The pass asks Riak.
LEMMA SettleCheck ==
    ASSUME TypeOK, IInv, SettleInv, ClusterSettled
    PROVE  SettleInv'
<1>1. /\ pc = "probe" /\ pc' = "patch" /\ RiakSettled(snap)
      /\ UNCHANGED <<spec, sts, pod, seen, ring, staged, busy, snap, crashes>>
  BY DEF ClusterSettled
<1>2. snap.size = sts.replicas /\ snap.wait = spec.wait
  BY <1>1 DEF IInv, SpecInv, SettleInv
<1>3. Settled
  <2> SUFFICES ASSUME sts.replicas > 1 PROVE ring = Replicas(sts) /\ (spec.wait => ~busy)
    BY DEF Settled
  <2>1. Cardinality(ring) = sts.replicas /\ (spec.wait => ~busy)
    BY <1>1, <1>2, SMTT(30) DEF RiakSettled, TypeOK, StatefulSet
  <2> QED
    BY <2>1, SettledRing
<1>4. Replicas(sts)' = Replicas(sts) /\ (Settled' <=> Settled)
  BY <1>1 DEF Replicas, Settled
<1> QED
  BY <1>1, <1>3, <1>4 DEF SettleInv

LEMMA SettlePatch ==
    ASSUME TypeOK, IInv, SettleInv, PatchPartition
    PROVE  SettleInv'
<1>1. /\ pc = "patch" /\ pc' = "status" /\ sts'.replicas = sts.replicas
      /\ UNCHANGED <<spec, pod, seen, ring, staged, busy, snap, crashes>>
  BY DEF PatchPartition, TypeOK, StatefulSet
<1>2. snap.size = sts.replicas
  BY <1>1 DEF IInv, SpecInv
<1>3. Replicas(sts)' = Replicas(sts) /\ (Settled' <=> Settled)
  BY <1>1 DEF Replicas, Settled
<1> QED
  BY <1>1, <1>2, <1>3 DEF SettleInv

\* What a pass lists and does not find in the ring is staged.
LEMMA SettleJoin ==
    ASSUME TypeOK, IInv, SettleInv, JoinStrangers \/ UpdateClusterStatusFails
    PROVE  SettleInv'
<1>1. /\ UNCHANGED <<spec, sts, pod, ring, busy, snap, crashes>> /\ seen' \in {seen, NoPods}
      /\ pc' \in {"idle", "commit"} /\ (pc' = "commit" => staged' # {})
      /\ staged' \subseteq staged \cup Strangers(snap)
  BY DEF JoinStrangers, UpdateClusterStatusFails, EndPass
<1>2. Strangers(snap) \subseteq Replicas(sts) \ ring
  <2>1. \A i \in Ord : seen[i].st # "absent" => i < sts.replicas
    BY SMTT(30) DEF SettleInv, TypeOK, StatefulSet, Ord
  <2> QED
    BY <2>1 DEF Strangers, Listed, Replicas
<1>3. Replicas(sts)' = Replicas(sts) /\ (Due' <=> Due) /\ (Settled' <=> Settled)
  BY <1>1 DEF Replicas, Due, Settled
<1>4. \A i \in Ord : NoPods[i].st = "absent"
  BY DEF NoPods
<1> QED
  BY <1>1, <1>2, <1>3, <1>4 DEF SettleInv

\* A settled ring gains no member: it has every replica already, so that
\* nothing is staged.
LEMMA SettleCommit ==
    ASSUME TypeOK, IInv, SettleInv, CommitJoins
    PROVE  SettleInv'
<1>1. /\ pc = "commit" /\ pc' = "idle" /\ seen' = NoPods
      /\ ring' = ring \cup staged /\ staged' = {}
      /\ UNCHANGED <<spec, sts, pod, snap, crashes>>
  BY DEF CommitJoins, EndPass
<1>2. Replicas(sts)' = Replicas(sts) /\ (Due' <=> Due)
  BY <1>1 DEF Replicas, Due
<1>3. ~Settled \/ ~(sts.replicas > 1)
  BY <1>1 DEF SettleInv, Settled
<1>4. Settled => Settled'
  BY <1>1, <1>3 DEF Settled
<1>5. \A i \in Ord : NoPods[i].st = "absent"
  BY DEF NoPods
<1> QED
  BY <1>1, <1>2, <1>4, <1>5 DEF SettleInv

\* The StatefulSet controller and the nodes
LEMMA SettlePods ==
    ASSUME TypeOK, IInv, SettleInv, StsController \/ Nodes
    PROVE  SettleInv'
<1>0. /\ sts.replicas \in Nat /\ Condemned = {}
      /\ \A i \in Ord : i >= sts.replicas => pod[i].st = "absent" /\ seen[i].st = "absent"
  BY SizesAreNumbers DEF SettleInv, Condemned
<1>1. ASSUME NEW i \in Ord, StsCreatePod(i) PROVE SettleInv'
  <2>1. /\ UNCHANGED <<spec, seen, pc, snap, ring, staged, busy, crashes>> /\ WriteStsStatus(pod')
        /\ i < sts.replicas
        /\ pod' = [pod EXCEPT ![i] = [st |-> "starting",
                                      rev |-> IF i < sts.partition THEN CurRev ELSE sts.tmpl]]
    BY <1>1 DEF StsCreatePod, opVars
  <2>2. sts'.partition = sts.partition /\ sts'.tmpl = sts.tmpl /\ sts'.replicas = sts.replicas
    BY <2>1, StatusFields DEF TypeOK
  <2>3. \A j \in Ord : \/ pod'[j].st \notin {"starting", "ready"}
                       \/ pod'[j].rev = sts.tmpl
                       \/ pod[j].st \in {"starting", "ready"} /\ pod'[j].rev = pod[j].rev
                       \/ j < sts.partition
    BY <2>1 DEF TypeOK, PodStates
  <2>4. \A j \in Ord : j >= sts.replicas => pod'[j].st = "absent"
    BY <1>0, <2>1, SMTT(30) DEF TypeOK, Ord
  <2>5. Due' => Due
    BY <2>2, <2>3, PodsDue
  <2> QED
    BY <1>0, <2>1, <2>2, <2>4, <2>5, SettleKept DEF SettleInv
<1>2. ASSUME NEW i \in Ord, StsScaleDown(i) PROVE FALSE
  BY <1>0, <1>2 DEF StsScaleDown
<1>3. ASSUME NEW i \in Ord, StsRoll(i) PROVE SettleInv'
  <2>1. /\ UNCHANGED <<spec, seen, pc, snap, ring, staged, crashes>> /\ WriteStsStatus(pod')
        /\ pod' = [pod EXCEPT ![i].st = "terminating"]
    BY <1>3 DEF StsRoll, opVars
  <2>2. Due /\ i = sts.partition
    BY <1>3, RollTakesDue
  <2>3. sts'.partition = sts.partition /\ sts'.replicas = sts.replicas
    BY <2>1, StatusFields DEF TypeOK
  <2>4. ~Due' /\ pc' # "patch"
    BY <2>1, <2>2, <2>3, PatchNotDue DEF Due, TypeOK
  <2>5. \A j \in Ord : j >= sts.replicas => pod'[j].st = "absent"
    BY <1>0, <2>1, <2>2 DEF TypeOK, Ord, Due
  <2>6. Replicas(sts)' = Replicas(sts)
    BY <2>3 DEF Replicas
  <2> QED
    BY <1>0, <2>1, <2>3, <2>4, <2>5, <2>6 DEF SettleInv
<1>4. ASSUME StsObserve PROVE SettleInv'
  <2>1. UNCHANGED <<spec, pod, seen, pc, snap, ring, staged, busy, crashes>> /\ WriteStsStatus(pod)
    BY <1>4 DEF StsObserve, opVars
  <2>2. sts'.partition = sts.partition /\ sts'.tmpl = sts.tmpl /\ sts'.replicas = sts.replicas
    BY <2>1, StatusFields DEF TypeOK
  <2>3. Due' => Due
    BY <2>1, <2>2 DEF Due
  <2> QED
    BY <1>0, <2>1, <2>2, <2>3, SettleKept DEF SettleInv
<1>5. ASSUME NEW i \in Ord, PodGone(i) \/ PodStarts(i) \/ PodFails(i) PROVE SettleInv'
  <2>1. /\ UNCHANGED <<spec, sts, seen, pc, snap, ring, staged>>
        /\ crashes' = 0 => crashes = 0 /\ busy' = busy
    BY <1>5, SMTT(30) DEF PodGone, PodStarts, PodFails, opVars, TypeOK
  <2>2. \A j \in Ord : \/ pod'[j].st = "absent"
                       \/ pod[j].st # "absent" /\ pod'[j].st \notin {"starting", "ready"}
                       \/ pod[j].st \in {"starting", "ready"} /\ pod'[j].rev = pod[j].rev
    <3>1. CASE PodGone(i)
      <4>1. NoPods[i].st = "absent"
        BY DEF NoPods
      <4> QED BY <3>1, <4>1 DEF PodGone, TypeOK, PodStates
    <3>2. CASE PodStarts(i)
      BY <3>2 DEF PodStarts, TypeOK, PodStates
    <3>3. CASE PodFails(i)
      BY <3>3, SMTT(30) DEF PodFails, Ready, TypeOK, PodStates
    <3> QED BY <1>5, <3>1, <3>2, <3>3
  <2>3. Due' => Due
    BY <2>1, <2>2, PodsDue
  <2>4. \A j \in Ord : j >= sts.replicas => pod'[j].st = "absent"
    BY <1>0, <2>2
  <2> QED
    BY <1>0, <2>1, <2>3, <2>4, SettleKept DEF SettleInv
<1>6. ASSUME TransfersFinish PROVE SettleInv'
  <2>1. busy' = FALSE /\ UNCHANGED <<spec, sts, pod, seen, pc, snap, ring, staged, crashes>>
    BY <1>6 DEF TransfersFinish, opVars
  <2>2. Replicas(sts)' = Replicas(sts) /\ (Due' <=> Due)
    BY <2>1 DEF Replicas, Due
  <2>3. Settled => Settled'
    BY <2>1, <2>2 DEF Settled
  <2> QED
    BY <2>1, <2>2, <2>3 DEF SettleInv
<1> QED
  BY <1>1, <1>2, <1>3, <1>4, <1>5, <1>6 DEF StsController, Nodes

LEMMA SettleStep ==
    ASSUME ~MidRolloutEdits, ~AllowShrink
    PROVE  TypeOK /\ IInv /\ SettleInv /\ [Next]_vars => SettleInv'
<1> SUFFICES ASSUME TypeOK, IInv, SettleInv, [Next]_vars PROVE SettleInv'
  OBVIOUS
<1>0. /\ \A i \in Ord : NoPods[i].st = "absent"
      /\ \A i \in Ord : i >= sts.replicas => pod[i].st = "absent" /\ seen[i].st = "absent"
  BY DEF NoPods, SettleInv
<1>1. CASE \/ ReconcileStatefulSetFails \/ UpdateClusterStatus \/ CommitFails \/ PassAborts
           \/ OperatorRestart
  <2>1. /\ UNCHANGED <<spec, sts, pod, ring, staged, busy, snap>> /\ pc' = "idle" /\ seen' = NoPods
        /\ crashes' = 0 => crashes = 0
    BY <1>1, SMTT(30) DEF ReconcileStatefulSetFails, UpdateClusterStatus, CommitFails, PassAborts,
                             OperatorRestart, EndPass, TypeOK
  <2> QED
    BY <1>0, <2>1, SettleKept DEF Due
<1>2. CASE ReconcileRolloutWaits \/ ReconcileRolloutReads \/ ClusterNotSettled \/ PatchFails
  <2>1. /\ UNCHANGED <<spec, sts, pod, seen, ring, staged, busy, snap, crashes>>
        /\ pc' \in {"status", "probe"} /\ pc \in {"rollout", "probe", "patch"}
    BY <1>2 DEF ReconcileRolloutWaits, ReconcileRolloutReads, ClusterNotSettled, PatchFails
  <2>2. snap.size = sts.replicas
    BY <2>1 DEF IInv, SpecInv
  <2> QED
    BY <1>0, <2>1, <2>2, SettleKept DEF Due
<1>3. CASE SyncCache \/ SyncPods \/ UNCHANGED vars
  <2>1. UNCHANGED <<spec, sts, pod, ring, staged, busy, snap, crashes, pc>> /\ (seen' = seen \/ seen' = pod)
    BY <1>3 DEF SyncCache, SyncPods, vars
  <2> QED
    BY <1>0, <2>1, SettleKept DEF Due, SettleInv
<1> QED
  BY <1>1, <1>2, <1>3, SettleEdits, SettleStart, SettleWrite, SettleCheck, SettlePatch,
     SettleJoin, SettleCommit, SettlePods
  DEF Next, Operator

\* A node is taken down only while the cluster is as settled as the pass that
\* released it had found it: every node up and in the ring and, with
\* waitForTransfers, no handoff pending, although the check is some steps old
\* (clusterSettled, reconcileRollout), as long as no node fails on its own.
THEOREM RestartsAreSettled ==
    ASSUME ~MidRolloutEdits, ~AllowShrink
    PROVE  Spec => SettledAtRestart
<1> DEFINE A == \A i \in Ord :
                   crashes = 0 /\ restarted' # restarted /\ Ready(i) /\ ~Ready(i)'
                   => /\ ReplicasReady
                      /\ sts.replicas > 1 => /\ Cardinality(ring) = sts.replicas
                                             /\ spec.wait => ~busy
<1>1. Init => SettleInv
  <2> SUFFICES ASSUME Init PROVE SettleInv
    OBVIOUS
  <2>1. /\ sts.replicas = 0 /\ sts.partition = 0 /\ pc = "idle" /\ snap = spec /\ ring = {0} /\ staged = {}
        /\ pod = NoPods /\ seen = NoPods
    BY DEF Init
  <2>2. spec.size \in Nat
    <3>1. spec.size \in 1 .. MaxSize
      BY SizesAssumption DEF Init
    <3> QED BY <3>1, MaxSizeAssumption, SMTT(30)
  <2> QED
    BY <2>1, <2>2, SMTT(30) DEF SettleInv, NoPods, Due
<1>2. TypeOK /\ IInv /\ SettleInv /\ [Next]_vars => [A]_vars
  <2> SUFFICES ASSUME TypeOK, IInv, SettleInv, Next, crashes = 0, restarted' # restarted,
                      NEW i \in Ord, Ready(i), ~Ready(i)'
               PROVE  /\ ReplicasReady
                      /\ sts.replicas > 1 => /\ Cardinality(ring) = sts.replicas
                                             /\ spec.wait => ~busy
    OBVIOUS
  <2>1. pod' # pod
    BY DEF Ready
  <2>2. PICK k \in Ord : StsRoll(k)
    BY <2>1 DEF Next, User, EditTemplate, Resize, TogglePause, Edit, Operator, StartPass,
       ReconcileStatefulSet, ReconcileStatefulSetFails, ReconcileRolloutWaits, ReconcileRolloutReads,
       ClusterSettled, ClusterNotSettled, PatchPartition, PatchFails, UpdateClusterStatus,
       JoinStrangers, CommitJoins, UpdateClusterStatusFails, CommitFails, PassAborts, SyncCache, SyncPods, OperatorRestart,
       StsController, StsCreatePod, StsScaleDown, StsObserve,
       Nodes, PodGone, PodStarts, PodFails, TransfersFinish, histVars, opVars
  <2>3. ReplicasReady
    BY <2>2 DEF StsRoll
  <2>4. Settled
    BY <2>2, RollTakesDue DEF SettleInv
  <2> QED
    BY <2>3, <2>4, ReplicasCount DEF Settled
<1>3. Spec => [][A]_vars
  <2> HIDE DEF A
  <2> QED
    BY <1>1, <1>2, SettleStep, Inductive, TypeCorrect, PTL DEF Spec
<1> QED
  BY <1>3 DEF SettledAtRestart

-----------------------------------------------------------------------------
(* Rollout implements RollingRestart *)


\* The steps that leave the template, the clearances and the restarts, and
\* neither create nor remove nor change the revision of a pod of the
\* StatefulSet, are not seen.
LEMMA Unseen ==
    ASSUME UNCHANGED <<cleared, restarted>>, sts'.tmpl = sts.tmpl, sts'.replicas = sts.replicas,
           \A i \in Ord : pod'[i].rev = pod[i].rev /\ (pod'[i].st = "absent" <=> pod[i].st = "absent")
    PROVE  UNCHANGED RR!vars
<1>1. Replicas(sts)' = Replicas(sts)
  BY DEF Replicas
<1>2. OldPods' = OldPods
  BY <1>1 DEF OldPods, Replicas
<1> QED BY <1>2 DEF RR!vars

\* reconcileStatefulSet with another template is a NewTemplate; with the same
\* one it is not seen, also when it changes the size: no pod is old then.
LEMMA SpecWriteRefines ==
    ASSUME TypeOK, IInv, ReconcileStatefulSet
    PROVE  [RR!Next]_(RR!vars)
<1>1. /\ sts'.tmpl = snap.tmpl /\ sts'.replicas = snap.size /\ pod' = pod
      /\ pc = "sts" /\ snap.tmpl \in Revs
  BY DEF ReconcileStatefulSet, TypeOK, StatefulSet, Spec0
<1>2. CASE snap.tmpl # sts.tmpl
  <2>1. cleared' = {} /\ restarted' = {}
    BY <1>2 DEF ReconcileStatefulSet
  <2>2. OldPods' \in SUBSET Ord
    BY DEF OldPods, Replicas
  <2>3. RR!NewTemplate
    BY <1>1, <1>2, <2>1, <2>2 DEF RR!NewTemplate
  <2> QED BY <2>3 DEF RR!Next
<1>3. CASE snap.tmpl = sts.tmpl
  <2>1. cleared' = cleared /\ restarted' = restarted /\ sts'.tmpl = sts.tmpl
    BY <1>1, <1>3 DEF ReconcileStatefulSet
  <2>2. CASE Rolling
    <3>1. snap.size = sts.replicas
      BY <1>1, <2>2 DEF IInv, SpecInv
    <3> QED BY <1>1, <2>1, <3>1, Unseen
  <2>3. CASE ~Rolling
    <3>1. \A i \in Ord : pod[i].st # "absent" => pod[i].rev = sts.tmpl
      BY <2>3 DEF IInv, RevisionsInv, Rolling, Exists
    <3>2. OldPods = {} /\ OldPods' = {}
      BY <1>1, <2>1, <3>1 DEF OldPods, Replicas
    <3> QED BY <2>1, <3>2 DEF RR!vars
  <2> QED BY <2>2, <2>3
<1> QED BY <1>2, <1>3

\* A pass that finds the cluster settled releases the next ordinal, or the
\* same one again when its patch had failed.
LEMMA SettledRefines ==
    ASSUME TypeOK, IInv, ClusterSettled
    PROVE  [RR!Next]_(RR!vars)
<1>1. /\ pc = "probe" /\ cleared' = cleared \cup {target}
      /\ UNCHANGED <<sts, pod, restarted>> /\ target \in Ord
  BY DEF ClusterSettled, TypeOK, Ord
<1>2. /\ target = sts.partition - 1 /\ RolloutInProgress(sts) /\ Rolling
      /\ \A j \in Replicas(sts) : j > target /\ Exists(j) => pod[j].rev = sts.tmpl
  BY <1>1, Revisions DEF IInv, PassInv
<1>3. OldPods' = OldPods
  BY <1>1 DEF OldPods, Replicas
<1>4. CASE target \in cleared
  BY <1>1, <1>3, <1>4 DEF RR!vars
<1>5. CASE target \notin cleared
  <2>1. ASSUME NEW j \in cleared PROVE target < j
    <3>1. j >= sts.partition - 1
      BY <1>2 DEF IInv, ClearedInv
    <3>2. j \in Ord /\ target \in Ord
      BY <1>1 DEF TypeOK
    <3>3. j >= target /\ j # target
      BY <1>2, <1>5, <3>1
    <3> QED
      BY ONLY <3>2, <3>3, SizesAssumption, SMTT(30) DEF Ord
  <2>2. \A j \in OldPods : j <= target
    BY <1>1, <1>2, SMTT(30) DEF OldPods, Exists, Replicas, Ord
  <2>3. RR!Release(target)
    BY <1>1, <1>3, <2>1, <2>2 DEF RR!Release
  <2> QED BY <1>1, <2>3 DEF RR!Next
<1> QED BY <1>4, <1>5

\* The rolling update restarts the topmost old pod, and that one was released.
LEMMA RollRefines ==
    ASSUME TypeOK, IInv, NEW i \in Ord, StsRoll(i)
    PROVE  [RR!Next]_(RR!vars)
<1>1. /\ i \in Outdated /\ \A j \in Outdated : j <= i
      /\ restarted' = restarted \cup {i} /\ cleared' = cleared
      /\ ReplicasReady
  BY DEF StsRoll
<1>2. sts'.tmpl = sts.tmpl /\ sts'.replicas = sts.replicas
  BY StatusFields DEF StsRoll, TypeOK
<1>3. pod[i].st # "absent" /\ i \in OldPods /\ i >= sts.partition
  BY <1>1 DEF Outdated, OldPods, ReplicasReady, Ready
<1>4. OldPods' = OldPods
  <2>1. \A j \in Ord : pod'[j].rev = pod[j].rev /\ (pod'[j].st = "absent" <=> pod[j].st = "absent")
    BY <1>3 DEF StsRoll, TypeOK
  <2> QED BY <1>2, <2>1 DEF OldPods, Replicas
<1>5. \A j \in OldPods : j <= i
  <2> SUFFICES ASSUME NEW j \in OldPods, ~(j <= i) PROVE FALSE
    OBVIOUS
  <2>1. j \in Replicas(sts) /\ j \in Ord /\ j >= sts.partition /\ pod[j].rev # sts.tmpl
    BY <1>3, SMTT(30) DEF OldPods, Replicas, TypeOK, StatefulSet, Ord
  <2> QED BY <1>1, <2>1 DEF Outdated
<1>6. i \in cleared
  BY <1>1, RollIsCleared
<1>7. RR!Restart(i)
  BY <1>1, <1>2, <1>3, <1>4, <1>5, <1>6 DEF RR!Restart
<1> QED BY <1>7 DEF RR!Next

\* A pod that is created is on the template, or below the partition: then it
\* was not restarted, and nothing below it was released.
LEMMA CreateRefines ==
    ASSUME TypeOK, IInv, NEW i \in Ord, StsCreatePod(i)
    PROVE  [RR!Next]_(RR!vars)
<1>1. /\ cleared' = cleared /\ restarted' = restarted /\ sts.uid
      /\ pod[i].st = "absent" /\ pod'[i].st # "absent"
      /\ pod'[i].rev = IF i < sts.partition THEN CurRev ELSE sts.tmpl
      /\ \A j \in Ord : j # i => pod'[j] = pod[j]
      /\ i < sts.replicas
  BY DEF StsCreatePod, histVars, TypeOK
<1>2. sts'.tmpl = sts.tmpl /\ sts'.replicas = sts.replicas
  BY StatusFields DEF StsCreatePod, TypeOK
<1>3. Replicas(sts)' = Replicas(sts)
  BY <1>2 DEF Replicas
<1>4. CASE pod'[i].rev = sts.tmpl
  <2>1. OldPods' = OldPods
    BY <1>1, <1>2, <1>3, <1>4 DEF OldPods, Replicas
  <2> QED BY <1>1, <1>2, <2>1 DEF RR!vars
<1>5. CASE pod'[i].rev # sts.tmpl
  <2>1. i < sts.partition /\ Rolling
    BY <1>1, <1>5 DEF Rolling
  <2>2. OldPods' = OldPods \cup {i}
    BY <1>1, <1>2, <1>3, <1>5 DEF OldPods, Replicas
  <2>3. i \notin restarted /\ \A j \in cleared : i <= j
    BY <2>1, SMTT(30) DEF IInv, ClearedInv, TypeOK, StatefulSet, Ord
  <2>4. RR!ReturnOld(i)
    BY <1>1, <1>2, <2>2, <2>3 DEF RR!ReturnOld
  <2> QED BY <2>4 DEF RR!Next
<1> QED BY <1>4, <1>5

\* Rollout implements RollingRestart: behind stale caches, old checks, failing
\* writes, evictions, crashes and operator restarts, nodes are released from
\* the highest ordinal down, each when nothing above it is old, and only
\* released nodes are restarted (reconcileRollout, stsPartition).
THEOREM Implementation == ASSUME ~MidRolloutEdits PROVE Spec => ImplementsRollingRestart
<1>1. Init => RR!Init
  <2> SUFFICES ASSUME Init PROVE RR!Init
    OBVIOUS
  <2>1. sts.tmpl = NoRev /\ cleared = {} /\ restarted = {} /\ \A i \in Ord : pod[i].st = "absent"
    BY DEF Init, NoPods
  <2>2. OldPods = {}
    BY <2>1 DEF OldPods, Replicas
  <2> QED BY <2>1, <2>2 DEF RR!Init
<1>2. TypeOK /\ IInv /\ [Next]_vars => [RR!Next]_(RR!vars)
  <2> SUFFICES ASSUME TypeOK, IInv, [Next]_vars PROVE [RR!Next]_(RR!vars)
    OBVIOUS
  <2>1. CASE User
    BY <2>1, Unseen DEF User, EditTemplate, Resize, TogglePause, Edit
  <2>2. CASE Operator
    <3>1. CASE ReconcileStatefulSet
      BY <3>1, SpecWriteRefines
    <3>2. CASE ClusterSettled
      BY <3>2, SettledRefines
    <3>3. CASE PatchPartition
      <4>1. sts'.tmpl = sts.tmpl /\ sts'.replicas = sts.replicas /\ UNCHANGED <<pod, cleared, restarted>>
        BY <3>3 DEF PatchPartition, TypeOK, StatefulSet, histVars
      <4> QED BY <4>1, Unseen
    <3>4. ASSUME UNCHANGED <<sts, pod, cleared, restarted>> PROVE [RR!Next]_(RR!vars)
      BY <3>4, Unseen
    <3>5. CASE StartPass \/ ReconcileStatefulSetFails \/ ReconcileRolloutWaits \/ ReconcileRolloutReads
      BY <3>4, <3>5 DEF StartPass, ReconcileStatefulSetFails, ReconcileRolloutWaits,
                        ReconcileRolloutReads, histVars
    <3>6. CASE ClusterNotSettled \/ PatchFails \/ UpdateClusterStatus \/ UpdateClusterStatusFails
      BY <3>4, <3>6 DEF ClusterNotSettled, PatchFails, UpdateClusterStatus,
                        UpdateClusterStatusFails, histVars
    <3>8. CASE JoinStrangers \/ CommitJoins \/ CommitFails
      BY <3>4, <3>8 DEF JoinStrangers, CommitJoins, CommitFails, histVars
    <3>7. CASE PassAborts \/ SyncCache \/ SyncPods \/ OperatorRestart
      BY <3>4, <3>7 DEF PassAborts, SyncCache, SyncPods, OperatorRestart, histVars
    <3> QED BY <2>2, <3>1, <3>2, <3>3, <3>5, <3>6, <3>7, <3>8 DEF Operator
  <2>3. CASE StsController
    <3>1. ASSUME NEW i \in Ord, StsScaleDown(i) PROVE [RR!Next]_(RR!vars)
      <4>1. /\ sts'.tmpl = sts.tmpl /\ sts'.replicas = sts.replicas
            /\ cleared' = cleared /\ restarted' = restarted
        BY <3>1, StatusFields DEF StsScaleDown, TypeOK, histVars
      <4>2. \A j \in Ord : /\ pod'[j].rev = pod[j].rev
                           /\ pod'[j].st = "absent" <=> pod[j].st = "absent"
        BY <3>1 DEF StsScaleDown, Condemned, TypeOK
      <4> QED BY <4>1, <4>2, Unseen
    <3>2. CASE StsObserve
      <4>1. /\ sts'.tmpl = sts.tmpl /\ sts'.replicas = sts.replicas
            /\ UNCHANGED <<pod, cleared, restarted>>
        BY <3>2, StatusFields DEF StsObserve, TypeOK, histVars
      <4> QED BY <4>1, Unseen
    <3> QED BY <2>3, <3>1, <3>2, RollRefines, CreateRefines DEF StsController
  <2>4. CASE Nodes
    <3>1. ASSUME NEW i \in Ord, PodGone(i) PROVE [RR!Next]_(RR!vars)
      <4>1. /\ pod' = [pod EXCEPT ![i] = NoPods[i]] /\ NoPods[i].st = "absent"
            /\ UNCHANGED <<sts, cleared, restarted>>
        BY <3>1 DEF PodGone, histVars, NoPods
      <4>2. OldPods' = OldPods \ {i}
        BY <4>1 DEF OldPods, Replicas, TypeOK
      <4>3. RR!Leave(i)
        BY <4>1, <4>2 DEF RR!Leave
      <4> QED BY <4>3 DEF RR!Next
    <3>2. ASSUME NEW i \in Ord, PodStarts(i) \/ PodFails(i) PROVE [RR!Next]_(RR!vars)
      <4>1. UNCHANGED <<sts, cleared, restarted>>
        BY <3>2 DEF PodStarts, PodFails, histVars
      <4>2. \A j \in Ord : /\ pod'[j].rev = pod[j].rev
                           /\ pod'[j].st = "absent" <=> pod[j].st = "absent"
        BY <3>2, SMTT(30) DEF PodStarts, PodFails, Ready, TypeOK
      <4> QED BY <4>1, <4>2, Unseen
    <3>3. CASE TransfersFinish
      BY <3>3, Unseen DEF TransfersFinish, histVars
    <3> QED BY <2>4, <3>1, <3>2, <3>3 DEF Nodes
  <2>5. CASE UNCHANGED vars
    BY <2>5, Unseen DEF vars
  <2> QED BY <2>1, <2>2, <2>3, <2>4, <2>5 DEF Next
<1> QED BY <1>1, <1>2, Inductive, TypeCorrect, PTL DEF Spec, ImplementsRollingRestart, RR!Spec
=============================================================================
