# openriak-operator: TLA+ models, model checking and proofs

The operator turns three custom resources into a running Riak system on
Kubernetes: a `RiakCluster` into a StatefulSet whose pods it joins into one
ring and restarts one at a time, a `RiakUser` into a user of Riak's security
system with grants and a client certificate, a `RiakBucket` into a bucket type.
It keeps no state of its own. Every pass of a controller reads objects through
caches, asks Riak through `kubectl exec ... riak-admin`, and writes objects
back; all that can go wrong does so between those steps.

## The parts and how they interact

| Part | State | Operations | What makes it hard |
|---|---|---|---|
| Cluster reconcile pass (`riakcluster_controller.go`) | finalizer, StatefulSet, Service, status | one serial pass per cluster every 10 s | write conflicts, a failure at any step, a status computed from stale lists |
| Rolling restart (`rollout.go`) | `rollingUpdate.partition`, the StatefulSet's two revisions | `stsPartition`, `rolloutNext`, `clusterSettled`, `reconcileRollout` | asks Riak, then acts; the StatefulSet controller acts later still; edits in the middle |
| Ring membership (`manager.go`) | the ring on each disk | `ReconcileMembership`: member-status, join, plan, commit | a failure between staging and commit, lost disks, counts instead of sets |
| Users (`riakuser_controller.go`, `manager.go`) | RiakUser status, Riak's users, sources, grants | provision, grant, revoke, delete | partial passes, deletion racing provisioning, several workers |
| Buckets (`riakbucket_controller.go`) | RiakBucket status, bucket types | create, activate, update | partial passes, two objects on one type |
| Trust bundle, certificates (`trust.go`, `tls.go`) | Secrets, Certificates | merge CAs, verify, report readiness | bad entries, expiry, rotation |
| Monitoring (`monitoring.go`) | ConfigMap, PodMonitor/ServiceMonitor | create, replace, delete | objects of the previous kind left behind |
| riak-admin executor (`executor.go`) | none | run with a 30 s time-out, classify and parse output | a time-out with effect; exit code 0 on failure |
| Entrypoint (`images/riak/scripts/entrypoint.sh`) | node name, ring directory | configure, start, wait | a node under a name its ring does not know |
| Metrics, start-up, API types | none that changes | | |

The cluster controller calls the rolling restart and then the membership code
in every pass. The user and bucket controllers act only on a cluster whose
status says `Ready`, so everything they do rests on what the membership code
reports.

## Modules

| Module | Models | Checked by |
|---|---|---|
| `Rollout` | the rolling restart inside the reconcile pass, with the StatefulSet controller, pods, informers and handoff | `MCRollout`, `Rollout_*.cfg` |
| `RollingRestart` | what a rolling restart promises, without passes, caches or partitions; `Rollout` implements it | `Rollout_safety.cfg` |
| `RolloutConditions` | the conditions a rollout reports and the stall clock kept in them | `Conditions.cfg` |
| `Membership` | `ReconcileMembership`, call by call | `MCMembership`, `Membership_*.cfg` |
| `ClusterObjects` | the objects a pass makes: certificate, trust bundle, ConfigMap, StatefulSet template, Services, PodDisruptionBudget, monitor, status; finalizer and deletion | `MCClusterObjects`, `Objects.cfg` |
| `Grants` | permission tokens, targets, the table of print-grants and its parser, the revocations | through `UserLifecycle` |
| `UserLifecycle` | the RiakUser controller, its riak-admin calls and client certificates | `MCUserLifecycle`, `User_*.cfg` |
| `BucketLifecycle` | the RiakBucket controller, its effective properties and its riak-admin calls | `MCBucketLifecycle`, `Bucket_passes.cfg` |
| `NodeIdentity` | the entrypoint of the Riak container | `MCNodeIdentity`, `Identity.cfg` |
| `RolloutProofs`, `RolloutConditionsProofs`, `MembershipProofs`, `ObjectsProofs`, `GrantsProofs`, `UserProofs`, `BucketProofs`, `NodeIdentityProofs` | theorems about the module of that name | TLAPS |

`Rollout`, `Membership`, `RolloutConditions` and `ClusterObjects` are four views
of the same pass over a RiakCluster: each keeps the steps that matter to its
question and abstracts the others to "succeeds or fails". `UserLifecycle`
composes the controller with `Grants`.

### Rollout

One RiakCluster and its passes. A pass is cut where something else can move in
between: `StartPass` reads the object (`snap`), `ReconcileStatefulSet` writes
the StatefulSet if the cached copy was current and otherwise fails with a
conflict, `ReconcileRolloutReads`/`Waits` decide from the cached StatefulSet
(`cache`) and the pod list (`seen`), `ClusterSettled` asks Riak,
`PatchPartition` patches. At the end the pass looks at the ring:
`UpdateClusterStatus` finds nothing to join and reports, `JoinStrangers` stages
the nodes the seed does not list and `CommitJoins` plans and commits. Any of
them may fail, the joins after some of the nodes (`UpdateClusterStatusFails`) or
between the joins and the commit (`CommitFails`); the operator may restart; pods
crash and are evicted. A pod template is an element of `Revs`.

The pod list of a pass may be as old as the pass (`seen` is taken when the pass
starts and may be refreshed at any moment), the StatefulSet copy arbitrarily
old. Riak is external: `ring` holds the members the seed lists as valid,
`staged` those it lists as joining, and `busy` says whether transfers are
pending; a node going away or a commit starts transfers, which end once every
member is up. `Membership` details how the ring is formed, call by call and with
disks that are lost; here no disk is.

Three history variables serve the properties: `cleared` (ordinals for which a
pass found the cluster settled under the template now in the StatefulSet),
`restarted` (ordinals the rolling update has taken down under it) and
`sincePause`.

Properties: `RestartsCleared` (no node is restarted that no pass released),
`NewestOnTop` (highest ordinal first), `PauseStops` (at most two more nodes go
down after a pause: the one released before and the one a pass under way may
still release), `SettledAtRestart` (the check is still true when it takes
effect, as long as nothing crashes), `RolloutCompletes` (liveness: the rollout
ends with the cluster Ready, unless a join stays staged for good, which
`LeftStaged` says), and
`ImplementsRollingRestart`: every step is a step of `RollingRestart` or changes
nothing it speaks of. The mapping takes the template in the StatefulSet for
what is wanted, `cleared` for what is released, and the pods that exist on
another template for the old nodes.

### RolloutConditions

One pass is one step (`ReconcileRollout`), which computes the conditions in
memory (`Outcome`) and writes them at the end of the pass, if that write
succeeds; `ReconcileRolloutFails` is a pass whose patch or list fails. The
clock is the age of RolloutBlocked, the only place the code keeps it. Where the
rollout stands, whether the cluster is settled, pauses and time are free.
`heldFor` is history: how long every pass has found the rollout held. `unsaid`
says that a pass went on and its status write was lost.

Properties: `StalledMeansHeld` (no stall is raised for a rollout that went on),
`StallIsReported` (one that waits for good is reported, a paused one is not),
`ConditionsCleared` (liveness).

### Membership

`ReadSeed`, then for each pod `SkipPeer`, `JoinPeer` or `JoinTimesOut`, then
`VisitDone`, `Plan`, `Commit`, or `Report` when nothing was joined. Every call
may fail (`PassFails`, `SeedFails`); pods come and go, disks are lost, the size
changes. `status` is the set of pods for which Ready was last reported.
Abstraction: nodes of one ring see the same table, and a node runs under the
name of its pod.

Properties: `ReadyUnlessLost` (Ready means every pod is a valid member, while
no disk was lost and the size not lowered; `ReadyMeansMembers` is the same
without those conditions), `OneRing`, `CommitsStaged`, `FormsRing` (liveness).

### ClusterObjects

The pass as one step per object, in the order of `Reconcile`; `Fault` is a
failure at any of them, with what it leaves on record, or a restart of the
operator. The user edits or deletes the cluster, cert-manager issues, sources of
CAs come, go and change, the Prometheus CRDs are installed, pods are created and
replaced and start when their volumes exist. A pod template is reduced to the
volumes it mounts, a trust bundle to the sequence of its certificates, a
Certificate to the issuer it was created with. The `ca.crt` cert-manager writes
holds a CA, is empty or is missing from its Secret (`Issued`). `Owned` is the set
of objects that carry a controller reference, and the garbage collector takes
these (`Collected`). `excused` records where the code itself goes on without
something: `"dropped"` and `"unmerged"`, two volumes a pod may miss, and
`"blank"`, a trust bundle made from an empty `ca.crt`, until it is written again.

Properties: `VolumesInPlace` (a pod finds what its template mounts of what the
operator writes itself; the TLS Secret and the user's rules are for others to
provide),
`BundleHasOwnCA` (the trust bundle has the cluster's own CA, and no certificate
twice, unless it is the one made from an empty `ca.crt`), `ObjectsConverge`
(whatever fails or changes, StatefulSet, Services, budget, exporter
configuration, trust bundle, monitor and status come to match the spec, and the
Certificate to exist; a change of the storage mode ends as Failed),
`DeletionLeavesNothing`.

### Grants

The token sets of the permissions, `grantTarget`, `grantKey`, the calls that
grant, `parseDedicatedGrants` and the calls that revoke. Riak's side is
external: `PrintGrants` lays the grants out as rows, with the section of
inherited grants and with lists of tokens that continue on further rows, and the
parser reads that table. A bucket is the sequence of its words, so a type, a
type with a bucket and a missing bucket differ as they do in the code.

### UserLifecycle

Several RiakUser objects, up to `Workers` passes at a time, one step per
riak-admin call. `stale` stands for the resource version: a write is refused if
the object changed since the pass read it. `queued` is the work queue; only
edits, requeues and an operator restart put an object into it, as
`GenerationChangedPredicate` and the single watch have it. A riak-admin call
that fails may have taken effect. A certificate is a Certificate of cert-manager
or a Secret others provide; it is pending or usable and carries a CommonName;
it may lapse at any time. Usernames of different objects differ.

Properties: `SettledMeansProvisioned` (an object the operator is done with is
Ready and Riak holds exactly what its grants mean, each by itself, although they
were granted, printed, parsed and revoked as token lists), `SecuredBeforeUsers`,
`DeletedLeavesNothing`, `DeletionEnds`, `GetsServed` and `CertificateReported`
(liveness).

### BucketLifecycle

The same passes, queue and workers for RiakBucket objects. `Create`, `Activate`
and `Update` are the calls of `CreateBucket`; every write may conflict or fail
(`ApiFails`), and writes whose failure the code only logs may be lost
(`TryWrite`). Objects may share a bucket type as long as they do not contradict
each other (`Compatible`). `EffectiveProperties` and `EffectiveNVal` are
`effectiveBucketProperties`. Properties are texts, which the status keeps, and
`n_val` is read by two parsers: `ParseInt32` for `status.nVal` and `JSONNumber`
for what Riak is sent (`SentProperties`). A text is the number it spells and how:
`3` is read by both, `+3` by `ParseInt` only, `3.0` by JSON only, a word by
neither. `Int32Max` is small in the instances, so that a number can exceed it.

Properties: `SettledMeansApplied` (an object the operator is done with is
Ready, and its bucket type is active and carries the properties of the spec),
`RecordedIsActive`, `NValReported` (a `status.nVal` other than 0 is the `n_val`
that was sent; 0 hides one that was sent only if it does not fit or JSON alone
reads it), `GetsServed` (liveness, for each object whatever becomes of the
others). The first one is stated for histories in which no two passes over one bucket type overlapped.
With two workers they can, and then `create`, which overwrites a type that is
not active yet, makes one object record properties that Riak no longer has.

### NodeIdentity

The script from `lookup_hosts_fqdn` to the exit of Riak, one step per stage, so
that the container can be killed between any two and is started again on the
same volume. The kubelet truncates and rewrites `/etc/hosts`. The environment
(managed or not, `RIAK_NODE` given or not, search domain or not), the
readability of the ring file and the ring on the volume are chosen at the start.
`save_crash_logs` makes a directory for the run that failed, or fails to, and
`PruneCrashLogs` removes the oldest; a kill in between leaves one too many, which
the next failure prunes. An `rm` that fails is left out.
External: Riak makes a ring of its own on an empty volume and cannot boot from a
ring that does not list it; the operator joins the node.

Properties: `OnlyUnderFQDN`, `BootsFromOwnRing`, `MembershipKept` (an action
property: a ring of several members never loses one), `ComesUp` (liveness).

## Runs

| Run | Bounds | Shows |
|---|---|---|
| `rollout_safety` | sizes 1 and 3, two templates, two edits, one crash, shrinking allowed, edits only between rollouts | type invariant, `RestartsCleared`, `NewestOnTop`, `PauseStops` and the inductive invariant `IInv` hold; the rollout implements `RollingRestart` |
| `rollout_live` | sizes 1 and 2, one edit, one crash | `RolloutCompletes` and `SettledAtRestart` hold |
| `rollout_second_edit` | edits during a rollout | violated: a second template inherits the lowered partition and restarts nodes that were not released for it |
| `conditions` | two nodes, a timeout of two ticks | the properties of `RolloutConditions` hold |
| `membership_safety` | three pods, two resizes, two outages, two lost disks | the safety properties hold |
| `membership_live` | four pods, one growth, one outage, no failure after the last join of a pass | `FormsRing` holds |
| `objects` | one pod, five specs, two issuers, two starts, two edits, one upset | the properties of `ClusterObjects` hold |
| `user_safety` | two objects, two workers, three edits, an outage, an operator restart | the safety properties hold |
| `user_live` | one object, two names, three lists of grants, three kinds of certificate, two edits, one outage or lapse or deletion of the cluster, which may be created anew | `DeletionEnds`, `GetsServed`, `CertificateReported` and, for overlapping grants, `SettledMeansProvisioned` hold |
| `user_created` | one object, two edits | violated: a user deleted while being provisioned stays in Riak |
| `bucket_passes` | two objects, two types, seven specs, two workers, two edits, an outage, an operator restart | all properties of `BucketLifecycle` hold |
| `identity` | three reads of `/etc/hosts`, two rewrites, three failures, five rings | all properties of `NodeIdentity` hold |

The violations are behaviours of the code that contradict a sentence of its
documentation or comments; `PROJECT.json` quotes each one.

**Why the bounds are enough.** Three nodes give a rollout a released, a waiting
and a seed node, and let a crash hit any of them; growth from one to three lets
two nodes join in one pass. Two templates suffice because the code compares
revisions for equality only, and for the same reason it does not matter which
one is the first (`FirstRev`). Two edits are an edit and another one on top of
it, or a pause around a change. One crash at any point covers the handlers,
which keep nothing between passes; the counters are bounds of the model only.
For users, three edits are creation, change and deletion. The lists of grants
hold two grants on one target, overlapping permissions, a token list that needs
a second row and a grant that names no bucket type. For buckets, two
edits are two objects on one type, or one object created and then changed or
deleted; the seven specs cover every branch of `effectiveBucketProperties` and of
`CreateBucket` and every spelling of `n_val`. For the objects of a cluster, the five specs switch TLS, the
issuer, the additional CA, each monitor kind, the exporter rules, the budget and
the storage mode on and off; one pod is enough because no object depends on
how many there are, and its template may be older than the StatefulSet's. It
is created plain with nothing there that others provide, or with everything on
and all of it there (`MCStarts`); any other start is an edit and an upset away.
For the entrypoint, three failures are a kill in the lookup, one before Riak
starts and a crash after it. The stall clock compares with the timeout only, so
two ticks stand for any.

`Waits` holds the values of `spec.rollout.waitForTransfers`. `rollout_safety`
has it off: every release a pass makes when it waits for transfers it also makes
when it does not, so this is the larger set of behaviours. It
tells states apart by a view (`SafetyView`) that leaves out the phase, which no
action reads, `busy`, which then decides nothing, and what a pass no longer
uses. `rollout_live` has it on, where waiting could last for ever and where
`SettledAtRestart` says more.

**Deadlock** is checked for `Rollout`, `RolloutConditions` and `Membership`,
whose passes repeat for ever. It is switched off for `UserLifecycle` and
`BucketLifecycle`, which really have nothing to do when every object is settled,
for `ClusterObjects`, which ends when the cluster is gone, and for
`NodeIdentity`, where a Riak that is up and no longer disturbed stays up.

**Fairness.** The cluster controller requeues every pass after 10 s or on an
error, so passes start and go on for ever (weak fairness). Calls and writes
that are retried for ever are assumed to succeed at last (strong fairness),
since each pass makes them anew. The exception is plan and commit, which no
later pass repeats: a pass that has joined nodes is only assumed to end, with
them or without. The StatefulSet controller, the kubelet, the
informers and Riak's handoff make progress. In `UserLifecycle`
and `BucketLifecycle` queued objects get a worker and passes go on; that the
calls for an object stop failing is a premise of `GetsServed`, not an assumption
of the specification, and nothing is assumed about `del-user`, nor that a certificate
is ever issued. In `ClusterObjects` the pass is repeated (`RequeueAfter`, or the
retry of an error) and takes its next step, which succeeds once the bounded
upsets are used up. In `RolloutConditions` a pass whose status write succeeds
comes again and again. In `NodeIdentity` the script goes on, the kubelet
restarts the container and ends a rewrite of `/etc/hosts` it began.

## Proofs

Every invariant and every safety action property that a passing run checks is
also a theorem, for every value of the constants: any number of pods, objects,
workers, templates, specs, edits, crashes and retries. Each is proved the same
way: an inductive invariant that implies it, one step per action of `Next`, and
a last step that combines them. The invariants were checked with TLC on the
instances of the runs before they were proved.

### RolloutProofs

* `TypeCorrect`: `Spec => []TypeOK`, with edits at any time;
* `Inductive`: `Spec => []IInv`, if template and size are edited only between
  rollouts (`~MidRolloutEdits`), and from it, under the same premise,
* `RestartsAreCleared` and `NewestStaysOnTop`;
* `PauseIsKept`: `PauseStops`;
* `RestartsAreSettled`: the action property `SettledAtRestart`, if moreover the
  size only grows (`~AllowShrink`);
* `Implementation`: `Rollout` implements `RollingRestart`.

`RestartsCleared` is not inductive. What makes it so is `IInv`: everything at
or above the partition has been released under the present template
(`ClearedInv`); pods below it still run the current revision
(`RevisionsInv`); a pass that has decided to lower the partition knows it to be
exactly one above its target, although it read the StatefulSet from a cache and
patches without a resource version (`PassInv`); and an old pod list never shows
a pod on the new template that was not there (`SeenInv`). `StsInv` and
`SpecInv` relate the StatefulSet's fields, the user's spec and the snapshot of
a pass. The lemmas isolate the two writes that matter, `ReconcileStatefulSet`
(`SpecWrite`) and `PatchPartition` (`RolloutStep`), and the StatefulSet
controller (`ControllerSync`, `RollIsCleared`). The premise `~MidRolloutEdits`
is necessary: `rollout_second_edit` is the counterexample without it.

For `PauseStops`, `PauseInv` counts what may still go down after a pause: the
node that is `Due` (the partition stands at it and it is up on an older
revision) and the one a pass that is `Stepping` (it read the spec before the
pause) may make due. Each of the two costs at most one node, and no step turns
one into two.

For `SettledAtRestart`, `SettleInv` says that from the check of a pass until the
node it releases goes down the ring is exactly the replicas, nothing is staged
and no handoff has begun. That needs the size to grow only: then no pod and no member stands above
the replicas, and the status step of the same pass, which joins what it lists,
finds nothing to join. If a size is raised and lowered again a terminating pod
can still be listed, and joining it starts a handoff after the check.

For `Implementation`, `IInv` gives what the mapping needs at each step: a pass
that lowers the partition releases the next lower ordinal and no node above it
is still old; a node the StatefulSet controller takes down was released; and a
pod that is created again comes back on the old template only below the
partition.

### RolloutConditionsProofs

`ConditionsTypeCorrect`, and `StallsAreHeld` (`Spec => []StalledMeansHeld`) for
every size and timeout. The invariant `ClockInv` compares two clocks: as
long as no pass that went on failed to say so, the age of RolloutBlocked is at
most the time every pass has found the rollout held, and a stall on record is
older than the timeout. The lemmas say what `markBlocked`, `clearBlocked` and a
whole pass leave (`BlockedConds`, `ClearedConds`, `OutcomeConds`).

### MembershipProofs

* `MembershipTypeCorrect`;
* `OnlyOneRing` (`OneRing`), from `SinglesInv`: while the seed keeps the ring it
  started with, every other ring has one member at most. The sizes of rings
  that the property speaks of are useless for induction; a set that contains the
  members is what every step can be followed through.
* `OnlyStagedCommits` (`CommitsStaged`), from `StagedInv`: what the pass
  remembers to have joined is still staged in the seed's table.
* `ReadyIsMembership` (`ReadyUnlessLost`): as long as no disk was lost and the
  size not lowered, the seed's ring has no member that is not a pod
  (`NoStrangers`), and so two equal counts mean equal sets, for the pass under
  way and for what was reported (`CountsAreSets`).

### ObjectsProofs

* `ObjectsTypeCorrect`. The count of CAs in the status is bounded by the
  number of certificates only because `mergeCABundle` drops duplicates:
  `InputAdded` and `MergeFacts` prove, by induction along the loop over the
  certificates of a source and along the loop over the sources, that the merged
  bundle holds each certificate of its sources exactly once.
* `TrustHasOwnCA` (`BundleHasOwnCA`), from the same fact: a write of the bundle
  takes the CA over from `ca.crt`, or is marked `"blank"` when that is empty.
* `VolumesAreInPlace` (`VolumesInPlace`), from `VolumesInv`: the templates of
  the pods, the template in the StatefulSet and the one the pass is about to
  write mount only what was made (`Provided`), and once made it stays
  (`ProvidedStays`), unless `"dropped"` or `"unmerged"` in `excused` was met.

### GrantsProofs

The grant algebra by itself, for every set of grants, without a state machine:

* `GrantsAreReadBack`: `parseDedicatedGrants` reads from print-grants one entry
  for each target the user holds something on, with all of its tokens. It holds
  for every finite set of grants, whatever the user inherits, however many rows
  a list of tokens needs and in whatever order targets and tokens are listed.
* `RevocationIsExact`: from what was read, `GrantUserPermissions` revokes what is
  held and not asked for, all of it and nothing else, and every call names a
  target riak-admin accepts.

The argument follows the table from writer to reader. `ChunkFacts` says how a
list of tokens is cut into rows, `EntryRowsFacts` what the rows of one target
hold, `TableFacts` where in the table they stand (`ConcatenationOffsets`: each
part of a concatenation occupies an interval of its own). `ListingParts` and
`ListingRows` say which lines of the output the parser keeps: the rows of the
dedicated section, since the header and the section of inherited grants are
skipped. `RowsContinue` says that the rows after the first of a target are just
those the parser takes for continuations, and so `EntryRead` and `TableRead` give
back the entries. For the revocations, `CallsAsk` says that one call for each
target asks for what the grants ask for one by one, and `DesiredIsAsked` that the
keys the code keeps of its own calls are the names print-grants has for them.
Recursive functions over sequences are handled by `RecursionExists`, which
`SetInduction` proves from the well-founded order of the natural numbers.

### UserProofs

* `UsersAreReadBack` (`ParsesBack`): the round trip for what users of the
  controller can hold;
* `UserTypeCorrect`;
* `UsersAreSecured` (`SecuredBeforeUsers`), if the RiakCluster is not created
  anew (`~AllowRecreate`). `SecuredInv`: either security is enabled, or the flag
  is not set, no user exists and no pass is beyond the step that enables it.
* `DeletedUsersAreGone` (`DeletedLeavesNothing`), if usernames are not edited
  (`~AllowRename`). `IdentInv` says whose user is whose: a pass that has seen the
  finalizer has its object to itself, however old its copy is, since the
  object cannot go and no other can take its username. `OwedInv` then says that
  a username recorded as Ready has an object that will still delete it.
* `SettledUsersAreProvisioned` (`SettledMeansProvisioned`), under the same
  premise. `ProvisionInv` follows one pass through its calls (`Called`): what is
  granted so far, what is still to be granted and, once the table has been
  parsed, what is still to be revoked add up to what the spec asks for.

The invariants behind `UserTypeCorrect` and `SettledUsersAreProvisioned` are
proved from `CallsAreExact`, what they need to know of the calls of a pass; the
last section, which instantiates `GrantsProofs`, proves `CallsAreExact` and with
it the two theorems.

### BucketProofs

* `BucketTypeCorrect`;
* `RecordedTypesAreActive` (`RecordedIsActive`) and `ReportedNValIsSent`
  (`NValReported`), from `TruthInv`: what the object says and what the copy of a
  pass says are both true (for `n_val`, `TextNumbers` compares the two parsers), so that `failBucket`, which writes the copy back, does
  no harm; an active type never becomes inactive.
* `SettledBucketsAreApplied` (`SettledMeansApplied`), from `AppliedIInv`: objects
  that share a type agree on its properties, also with the older copies passes
  hold, and passes that do not overlap leave what a settled object asked for.

### NodeIdentityProofs

`IdentityTypeCorrect`, `ManagedPodsUseFQDN`, `RiakOwnsItsRing` and
`MembershipIsKept` for every ring the volume may hold and any number of retries,
rewrites and failures. `BootsFromOwnRing` alone is not inductive: a Riak that is
up has a ring that lists it (`Named`), without which a join to a peer could make
a ring of others only. The bound on saved logs in `TypeOK` is carried by
`LogsBounded`: each failure leaves one directory at most, and pruning goes back
to `Keep`.

### Assumptions

The assumptions on constants are the named `ASSUME`s of the modules, and every
run evaluates them: that bounds are natural numbers and sizes at least 1; that
`NoSpec`, `Missing` and the like differ from what they stand apart from;
`SourcesAssumption`, that the sources of CAs are what the API types allow;
`StartsAssumption`, that a cluster is created before its certificate is issued. Of
grants, `GrantAssumption` takes that there are finitely many and that the bucket
type one names is not empty (the code splits the name at blanks) and is neither
`*` nor `type`, the two words print-grants itself uses. The table is modelled as
rows of columns, so a name is also taken to hold no `|`, which the code splits
rows at.

### Only model-checked

All liveness properties (`RolloutCompletes`, `StallIsReported`,
`ConditionsCleared`, `FormsRing`, `DeletionEnds`, both `GetsServed`,
`CertificateReported`, `ObjectsConverge`, `DeletionLeavesNothing`, `ComesUp`):
they rest on fairness, which is out of the prover's reach.

## Behaviours the runs leave out

These behaviours of the code make a property fail if they are allowed. The
passing runs exclude each by a named constant or condition; change it to see
the counterexample.

* Editing the template back in the middle of a rollout (`MidRolloutEdits = TRUE`,
  `Sizes = {2}`, `MaxEdits = 2` in `Rollout_live.cfg`): the two revisions become
  equal, the partition is raised, and a node that had already moved stays on the
  abandoned template; `RolloutCompletes` fails.
* Lowering `spec.size` (`AllowShrink`): removed nodes stay in the ring, so
  `RolloutCompletes` fails; and since members are counted, not compared by
  name, a member whose pod is away can stand in for one that is still joining
  (`lowered` in `ReadyUnlessLost`).
* A failure between a join and the commit (`LateFailures = TRUE` in
  `Membership_live.cfg`; `LeftStaged` in `RolloutCompletes`): unless another node
  has to be joined no later pass plans or commits, the node stays "joining", and
  `FormsRing` fails, although `manager.go:46` calls the function idempotent and
  safe to repeat. A join that is cut off by its time-out after it was staged is
  the same case, and `membership_live` leaves it out, too.
* A pod that lost its disk (`losses` in `ReadyUnlessLost`; `ReadyMeansMembers` is
  the property without the condition): the seed still lists it, and Ready is
  reported although the pod is alone in a ring of its own.
* Renaming a provisioned user (`AllowRename` is off in `user_safety`): the old
  name stays in Riak and `DeletedLeavesNothing` fails.
* A bucket type called `type` (`GrantAssumption`): `parseDedicatedGrants` takes
  its row for the header of the table (`executor.go:489`), so that grants on it
  are made and never revoked; for one called `*` print-grants cannot be told
  from "on any".
* Two RiakUsers with one username (`Free`): they undo each other's grants.
* Deleting and recreating the RiakCluster under its users (`wiped`): they stay
  Ready and nothing looks at them again.
* A Certificate of cert-manager that was seen Ready (`Reported`): it is not
  looked at again when it lapses, nor after a change of username, when it still
  carries the old CommonName.
* A pass that releases a node and cannot write its status (`unsaid`): the clock
  of the earlier wait goes on, and the next wait is reported as stalled at once.
  A last node that never returns (partition 0) is never reported as stalled.
* Setting `metricsConfig` while pods of the old template run (`"dropped"` in
  `VolumesInPlace`): the generated ConfigMap they mount is deleted, and one that
  is restarted before its turn waits for it.
* An `additionalClientCAs` entry that cannot be read (`"unmerged"`): the pass
  goes on and the template names a trust Secret that was never written, so the
  first pod to restart waits for it. The comment at
  `riakcluster_controller.go:124` has the running pods keep their bundle.
* An issuer edited after the Certificate was created: it is never updated,
  although the comment at `riakcluster_controller.go:187` says "creates or
  updates". `ObjectsConverge` asks that it exists; if it asked for the issuer of
  the spec it would fail.
* A `ca.crt` that is empty when the trust bundle is made (`"blank"` in
  `BundleHasOwnCA`): the bundle holds the additional CAs only, until a later pass
  finds another `ca.crt`.
* An `n_val` such as `3.0` in `spec.properties` (the form `"decimal"` in
  `NValReported`): Riak gets 3 and `status.nVal` says 0, although the comment at
  `riakbucket_controller.go:193` says that the status reports the value applied.
* Two overlapping passes over one bucket type (`overlapped` in
  `SettledMeansApplied`), and a property removed from a spec, which stays in Riak
  (`Carries`).
* A node that fails between the check of a pass and the restart it releases
  (`crashes = 0` in `SettledAtRestart`).
* A RiakUser deleted before it was ever recorded as Ready: `DeletedLeavesNothing`
  does not speak of it; `user_created` is the counterexample.

The pod lists of a pass in `Rollout` are at most as old as the pass itself; a
pod informer that lags by more than a whole pass is not covered.

## Not modelled

* The references to users and buckets in a cluster's status, its events,
  `podHealth` and `nodeStorageReady`: they word or copy what other
  objects say, and no decision is taken from them.
* How riak-admin output is told to be a failure (`riakAdminFailed`) and how the
  transfers are parsed: text conventions of Riak; a call here succeeds, fails or
  times out.
* X.509 parsing and verification, the text of `riak.conf` and of the exporter's
  rules: library calls and formatting.
* Operator metrics and start-up: they change no state. Their one setting that
  matters, the number of workers, is a constant.
* Generated deep copies, scheme registration, the soak and scale tests and the
  example application: generated code, tooling and I/O.

`PROJECT.json` lists every part with the reason.
