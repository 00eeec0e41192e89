--------------------------- MODULE ClusterObjects ---------------------------
(***************************************************************************)
(* The Kubernetes objects one pass over a RiakCluster keeps                *)
(* (RiakClusterReconciler.Reconcile): the cert-manager Certificate, the    *)
(* trust Secret, the exporter's ConfigMap, the StatefulSet's template, the *)
(* two Services, the PodDisruptionBudget, the PodMonitor or                *)
(* ServiceMonitor, and the status that describes them.                     *)
(*                                                                         *)
(* A pass is one step per object, so that the user's edits, cert-manager,  *)
(* the kubelet, a failed write and a restart of the operator fall between  *)
(* them.  Names: "tls" is the Secret cert-manager writes, "rules" the      *)
(* ConfigMap named by spec.monitoring.metricsConfig, any other name in     *)
(* src an entry of spec.tls.additionalClientCAs.  Left to other modules:   *)
(* the order of restarts (Rollout), the ring (Membership), sizes.          *)
(***************************************************************************)
EXTENDS Integers, FiniteSets, Sequences, Functions

CONSTANTS Pods,         \* ordinals of the pods, 0 .. n - 1
          Specs,        \* the specs the user may write
          Entries,      \* names of additionalClientCAs sources
          Contents,     \* what such a source may hold: Missing, Keyless or certificates
          Starts,       \* what a cluster is created with: spec, sources and CRDs
          Issuers,      \* cert-manager issuers
          OwnCAs,       \* the CAs they issue from, one after the other
          Missing, Keyless, NoTemplate, NoSpec,
          MaxEdits,     \* edits and the deletion by the user
          MaxUpsets     \* failures, evictions and changes outside the operator

\* spec.tls with its issuer ("" if unset) and additionalClientCAs, spec.monitoring with its
\* scrapeKind and metricsConfig, spec.podDisruptionBudget, spec.ephemeralStorage
ClusterSpecs == [tls: BOOLEAN, issuer: Issuers \cup {""}, cas: Seq(Entries),
                 pdb: BOOLEAN, ephemeral: BOOLEAN,
                 mon: BOOLEAN, kind: {"PodMonitor", "ServiceMonitor", "None"}, custom: BOOLEAN]

ASSUME ObjectsAssumption == Specs \subseteq ClusterSpecs /\ MaxEdits \in Nat /\ MaxUpsets \in Nat

VARIABLES
    cluster,    \* [here, deleting, final, spec]
    status,     \* its status
    made,       \* the objects the operator makes
    src,        \* the Secrets and ConfigMaps it only reads
    crds,       \* the Prometheus Operator's CRDs are installed
    pod,        \* [Pods -> [tmpl, up]]
    pc, snap,   \* the pass: its next step, and the spec it read (NoSpec between passes)
    stale,      \* the RiakCluster has changed since the pass read it
    excused,    \* history: "dropped" once a pass has deleted the generated ConfigMap,
                \* "unmerged" once one has gone on without the trust Secret it asks
                \* for, "blank" while that Secret is one made from an empty ca.crt
    edits, upsets

passVars == <<pc, snap, stale>>
boundVars == <<edits, upsets>>
vars == <<cluster, status, made, src, crds, pod, passVars, excused, boundVars>>

Kinds == {"PodMonitor", "ServiceMonitor"}
Certs == OwnCAs \cup UNION {Range(c) : c \in Contents \ {Missing, Keyless}}
Templates == [tls: BOOLEAN, extra: BOOLEAN, ephemeral: BOOLEAN,
              config: {"none", "generated", "rules"}]
Ports == {"protobuf", "http", "https", "metrics"}
\* certificate is the issuer the Certificate names.
NoObjects == [certificate |-> "", trust |-> Missing, configMap |-> FALSE, sts |-> NoTemplate,
              service |-> {}, pdb |-> FALSE, monitors |-> {}]
NoTLS == [enabled |-> FALSE, ready |-> FALSE, nodes |-> FALSE, cas |-> 0, error |-> FALSE]
NoMonitoring == [enabled |-> FALSE, exporter |-> FALSE, kind |-> "", scrape |-> FALSE]
NoPod == [tmpl |-> NoTemplate, up |-> FALSE]

ASSUME SourcesAssumption ==
    /\ Entries \cap {"tls", "rules"} = {}
    /\ IsFiniteSet(Certs) /\ Contents \subseteq Seq(Certs) \cup {Missing, Keyless}
    /\ Missing \notin Seq(Certs) /\ Keyless \notin Seq(Certs) /\ Missing # Keyless
    /\ NoTemplate \notin Templates /\ NoSpec \notin Specs

\* No certificate is issued yet; the user's sources may be there already.
ASSUME StartsAssumption ==
    \A s \in Starts :
        /\ s.spec \in Specs /\ s.crds \in BOOLEAN
        /\ s.src \in [Entries \cup {"tls", "rules"} -> Contents \cup {Missing, <<>>}]
        /\ s.src["tls"] = Missing /\ s.src["rules"] \in {Missing, <<>>}

\* One type invariant: every object keeps the shape the code gives it.
TypeOK ==
    /\ cluster \in [here: BOOLEAN, deleting: BOOLEAN, final: BOOLEAN, spec: Specs]
    /\ status.phase \in {"", "Creating", "Ready", "Failed"}
    /\ status.tls.cas \in 0 .. Cardinality(Certs)
    /\ made.certificate \in Issuers \cup {""}
    /\ made.monitors \subseteq Kinds /\ made.service \subseteq Ports
    /\ made.trust = Missing \/ Range(made.trust) \subseteq Certs
    /\ made.sts \in Templates \cup {NoTemplate}
    /\ DOMAIN src = Entries \cup {"tls", "rules"}
    /\ pod \in [Pods -> [tmpl: Templates \cup {NoTemplate}, up: BOOLEAN]]
    /\ pc \in {"idle", "tls", "trust", "config", "sts", "service", "pdb", "scrape", "unscrape", "status"}
    /\ snap \in Specs \cup {NoSpec} /\ {stale, crds} \subseteq BOOLEAN
    /\ excused \subseteq {"dropped", "unmerged", "blank"}
    /\ edits <= MaxEdits /\ upsets <= MaxUpsets

Init ==
    /\ \E s \in Starts :
          /\ cluster = [here |-> TRUE, deleting |-> FALSE, final |-> FALSE, spec |-> s.spec]
          /\ src = s.src /\ crds = s.crds
    /\ status = [phase |-> "", tls |-> NoTLS, mon |-> NoMonitoring]
    /\ made = NoObjects
    /\ pod = [p \in Pods |-> NoPod]
    /\ pc = "idle" /\ snap = NoSpec /\ stale = FALSE /\ excused = {}
    /\ edits = 0 /\ upsets = 0

-----------------------------------------------------------------------------
(* What the spec asks for *)

hasAdditionalClientCAs(s) == s.tls /\ s.cas # <<>>
Readable(c) == c \notin {Missing, Keyless}

\* The pod template's volumes: the certificate, the merged CA bundle in place
\* of its ca.crt, the exporter's configuration, and the data volume, an
\* emptyDir or a claim.
Template(s) == [tls    |-> s.tls,
                extra  |-> hasAdditionalClientCAs(s),
                ephemeral |-> s.ephemeral,
                config |-> IF ~s.mon THEN "none" ELSE IF s.custom THEN "rules" ELSE "generated"]

ServicePorts(s) == {"protobuf", "http"} \cup (IF s.tls THEN {"https"} ELSE {})
                                        \cup (IF s.mon THEN {"metrics"} ELSE {})

\* The kind of monitor that is wanted, none without the CRDs
Wanted(s) == IF crds THEN {s.kind} \cap Kinds ELSE {}

-----------------------------------------------------------------------------
(* The trust bundle *)

MutAddNew(out, certs) == out \o certs
\* One input of mergeCABundle: its certificates, those already seen skipped
AddNew(out, certs) ==
    LET upto[j \in 0 .. Len(certs)] ==
            IF j = 0 THEN out
            ELSE IF certs[j] \in Range(upto[j - 1]) THEN upto[j - 1]
            ELSE Append(upto[j - 1], certs[j])
    IN  upto[Len(certs)]
\* mergeCABundle: the certificates of every input in order, duplicates dropped
mergeCABundle(inputs) ==
    LET upto[i \in 0 .. Len(inputs)] ==
            IF i = 0 THEN <<>> ELSE AddNew(upto[i - 1], inputs[i])
    IN  upto[Len(inputs)]

\* buildTrustBundle fails on any entry that cannot be read or holds no
\* certificate, and on a cluster Secret without ca.crt or with one that does
\* not parse; a ca.crt that is there and holds no certificate is merged.
TrustBundleFails(s) ==
    \/ src["tls"] = Keyless
    \/ \E i \in DOMAIN s.cas : ~Readable(src[s.cas[i]]) \/ src[s.cas[i]] = <<>>

clusterCAMissing == src["tls"] = Missing
buildTrustBundle(s) ==
    mergeCABundle((IF clusterCAMissing THEN <<>> ELSE <<src["tls"]>>)
                  \o [i \in DOMAIN s.cas |-> src[s.cas[i]]])

MutWritesTrust(s) == hasAdditionalClientCAs(s) /\ ~TrustBundleFails(s)
\* reconcileTrustBundle writes the Secret only once the cluster has its own CA.
WritesTrust(s) == hasAdditionalClientCAs(s) /\ ~TrustBundleFails(s) /\ ~clusterCAMissing

-----------------------------------------------------------------------------
(* The pass *)

Upset == upsets < MaxUpsets /\ upsets' = upsets + 1
Goto(l) == pc' = l /\ UNCHANGED <<snap, stale>>
EndPass == pc' = "idle" /\ snap' = NoSpec /\ stale' = FALSE
SetPhase(ph) == status' = IF stale THEN status ELSE [status EXCEPT !.phase = ph]
Unless(l, failed) == IF failed THEN EndPass ELSE Goto(l)

\* Reconcile reads the object; handleDeletion lets a deleted one go; otherwise
\* the finalizer and the first phase are written and the pass goes on.
StartPass ==
    /\ pc = "idle" /\ cluster.here
    /\ IF cluster.deleting
       THEN cluster' = [cluster EXCEPT !.here = FALSE] /\ UNCHANGED <<status, passVars>>
       ELSE /\ cluster' = [cluster EXCEPT !.final = TRUE]
            /\ status' = [status EXCEPT !.phase = IF @ = "" THEN "Creating" ELSE @]
            /\ pc' = "tls" /\ snap' = cluster.spec /\ stale' = FALSE
    /\ UNCHANGED <<made, src, crds, pod, excused, boundVars>>

\* reconcileTLSCertificate: an issuer must be named; an existing Certificate is
\* left as it is, whichever issuer it names.
ReconcileTLSCertificate ==
    /\ pc = "tls"
    /\ IF snap.tls /\ snap.issuer = ""
       THEN SetPhase("Failed") /\ EndPass /\ UNCHANGED made
       ELSE /\ made' = [made EXCEPT !.certificate = IF snap.tls /\ @ = "" THEN snap.issuer ELSE @]
            /\ Goto("trust") /\ UNCHANGED status
    /\ UNCHANGED <<cluster, src, crds, pod, excused, boundVars>>

MutReconcileTrustBundle ==
    /\ pc = "trust"
    /\ made' = IF WritesTrust(snap) THEN [made EXCEPT !.trust = buildTrustBundle(snap)] ELSE made
    /\ Unless("config", snap.tls /\ TrustBundleFails(snap))
    /\ UNCHANGED <<cluster, status, src, crds, pod, excused, boundVars>>
\* reconcileTrustBundle: a failure is logged and the pass goes on.
ReconcileTrustBundle ==
    /\ pc = "trust"
    /\ made' = IF WritesTrust(snap) THEN [made EXCEPT !.trust = buildTrustBundle(snap)] ELSE made
    /\ excused' = (IF WritesTrust(snap) THEN excused \ {"blank"} ELSE excused)
                  \cup (IF WritesTrust(snap) /\ src["tls"] = <<>> THEN {"blank"} ELSE {})
                  \cup (IF hasAdditionalClientCAs(snap) /\ made'.trust = Missing THEN {"unmerged"} ELSE {})
    /\ Goto("config")
    /\ UNCHANGED <<cluster, status, src, crds, pod, boundVars>>

MutReconcileMonitoringConfigMap ==
    /\ pc = "config"
    /\ LET custom == snap.mon /\ snap.custom
           failed == custom /\ ~Readable(src["rules"])
       IN  /\ Unless("sts", failed)
           /\ made' = IF ~snap.mon THEN made ELSE [made EXCEPT !.configMap = ~custom]
           /\ excused' = excused \cup IF custom /\ ~failed /\ made.configMap THEN {"dropped"} ELSE {}
    /\ UNCHANGED <<cluster, status, src, crds, pod, boundVars>>
\* reconcileMonitoringConfigMap: the generated mapping, or a check of the
\* user's own, after which the generated one is deleted.
ReconcileMonitoringConfigMap ==
    /\ pc = "config"
    /\ LET custom == snap.mon /\ snap.custom
           failed == custom /\ ~Readable(src["rules"])
       IN  /\ Unless("sts", failed)
           /\ made' = IF ~snap.mon \/ failed THEN made ELSE [made EXCEPT !.configMap = ~custom]
           /\ excused' = excused \cup IF custom /\ ~failed /\ made.configMap THEN {"dropped"} ELSE {}
    /\ UNCHANGED <<cluster, status, src, crds, pod, boundVars>>

\* The claim templates of a StatefulSet are immutable.
StorageClash(s) == made.sts # NoTemplate /\ made.sts.ephemeral # s.ephemeral

\* A change of the storage mode fails the pass before anything is written.
ReconcileStatefulSet ==
    /\ pc = "sts"
    /\ IF StorageClash(snap)
       THEN SetPhase("Failed") /\ EndPass /\ UNCHANGED made
       ELSE /\ made' = [made EXCEPT !.sts = Template(snap)]
            /\ Goto("service") /\ UNCHANGED status
    /\ UNCHANGED <<cluster, src, crds, pod, excused, boundVars>>

\* The headless and the client Service get the same ports.
ReconcileService ==
    /\ pc = "service"
    /\ made' = [made EXCEPT !.service = ServicePorts(snap)]
    /\ Goto("pdb")
    /\ UNCHANGED <<cluster, status, src, crds, pod, excused, boundVars>>

ReconcilePodDisruptionBudget ==
    /\ pc = "pdb"
    /\ made' = [made EXCEPT !.pdb = snap.pdb]
    /\ Goto(IF snap.mon THEN "scrape" ELSE "status")
    /\ UNCHANGED <<cluster, status, src, crds, pod, excused, boundVars>>

\* reconcileScrapeObject: first the wanted monitor is made ...
ReconcileMonitor ==
    /\ pc = "scrape"
    /\ made' = [made EXCEPT !.monitors = @ \cup Wanted(snap)]
    /\ Goto("unscrape")
    /\ UNCHANGED <<cluster, status, src, crds, pod, excused, boundVars>>

\* ... and then the other kind, or for None both, deleted.
DeleteMonitor ==
    /\ pc = "unscrape"
    /\ made' = [made EXCEPT !.monitors = @ \cap {snap.kind}]
    /\ Goto("status")
    /\ UNCHANGED <<cluster, status, src, crds, pod, excused, boundVars>>

AllReady == \A p \in Pods : pod[p].up
certificateReady == made.certificate # "" /\ src["tls"] # Missing

\* tlsStatus and trustStatus
TLSStatus(s) ==
    IF ~s.tls THEN NoTLS
    ELSE [enabled |-> TRUE, ready |-> certificateReady, nodes |-> certificateReady /\ AllReady,
          cas     |-> IF TrustBundleFails(s) THEN 0 ELSE Len(buildTrustBundle(s)),
          error   |-> TrustBundleFails(s)]

\* monitoringStatus: the exporter is ready when every pod has a ready sidecar.
Existing == {p \in Pods : pod[p].tmpl # NoTemplate}
MonitoringStatus(s) ==
    IF ~s.mon THEN NoMonitoring
    ELSE [enabled  |-> TRUE, kind |-> s.kind, scrape |-> s.kind \in made.monitors,
          exporter |-> /\ Existing # {}
                       /\ \A p \in Existing : pod[p].up /\ pod[p].tmpl.config # "none"]

\* updateClusterStatus: refused, and only logged, when the object has changed.
UpdateClusterStatus ==
    /\ pc = "status"
    /\ status' = IF stale THEN status
                 ELSE [phase |-> IF AllReady THEN "Ready" ELSE "Creating",
                       tls |-> TLSStatus(snap), mon |-> MonitoringStatus(snap)]
    /\ EndPass
    /\ UNCHANGED <<cluster, made, src, crds, pod, excused, boundVars>>

\* A write or read of the pass fails, or the operator stops: the pass is over,
\* unless it was at the trust bundle.  A failed Certificate or StatefulSet is
\* put on record, if the operator lives and the status can be written.
Fault ==
    /\ pc # "idle" /\ Upset
    /\ \/ EndPass /\ UNCHANGED <<status, excused>>
       \/ pc \in {"tls", "sts"} /\ SetPhase("Failed") /\ EndPass /\ UNCHANGED excused
       \/ /\ pc = "trust" /\ Goto("config") /\ UNCHANGED status
          /\ excused' = excused \cup IF hasAdditionalClientCAs(snap) /\ made.trust = Missing
                                     THEN {"unmerged"} ELSE {}
    /\ UNCHANGED <<cluster, made, src, crds, pod, edits>>

Pass == \/ StartPass \/ ReconcileTLSCertificate \/ ReconcileTrustBundle
        \/ ReconcileMonitoringConfigMap \/ ReconcileStatefulSet \/ ReconcileService
        \/ ReconcilePodDisruptionBudget \/ ReconcileMonitor \/ DeleteMonitor
        \/ UpdateClusterStatus

-----------------------------------------------------------------------------
(* The user *)

EditSpec(s) ==
    /\ cluster.here /\ ~cluster.deleting /\ s # cluster.spec /\ edits < MaxEdits
    /\ cluster' = [cluster EXCEPT !.spec = s] /\ stale' = (pc # "idle") /\ edits' = edits + 1
    /\ UNCHANGED <<status, made, src, crds, pod, pc, snap, excused, upsets>>

Delete ==
    /\ cluster.here /\ ~cluster.deleting /\ edits < MaxEdits
    /\ cluster' = IF cluster.final THEN [cluster EXCEPT !.deleting = TRUE]
                  ELSE [cluster EXCEPT !.here = FALSE]
    /\ stale' = (pc # "idle") /\ edits' = edits + 1
    /\ UNCHANGED <<status, made, src, crds, pod, pc, snap, excused, upsets>>

-----------------------------------------------------------------------------
(* External: cert-manager, the sources, the StatefulSet controller, the kubelet *)

\* The ca.crt of the cluster's Secret: the issuing CA, or, where the issuer
\* does not tell it, no certificate or no such key.
Issued == {<<ca>> : ca \in OwnCAs} \cup {<<>>, Keyless}

Issue ==
    /\ made.certificate # "" /\ src["tls"] = Missing
    /\ \E c \in Issued : src' = [src EXCEPT !["tls"] = c]
    /\ UNCHANGED <<cluster, status, made, crds, pod, passVars, excused, boundVars>>

\* A source is written or deleted, the certificate is issued anew, the
\* Prometheus Operator is installed.
Change ==
    /\ Upset
    /\ \/ \E n \in Entries, c \in Contents : src' = [src EXCEPT ![n] = c] /\ UNCHANGED crds
       \/ \E c \in {Missing, <<>>} : src' = [src EXCEPT !["rules"] = c] /\ UNCHANGED crds
       \/ /\ src["tls"] # Missing
          /\ \E c \in Issued : src' = [src EXCEPT !["tls"] = c]
          /\ UNCHANGED crds
       \/ ~crds /\ crds' = TRUE /\ UNCHANGED src
    /\ UNCHANGED <<cluster, status, made, pod, passVars, excused, edits>>

Exists(v) == CASE v = "trust" -> made.trust # Missing
               [] v = "generated" -> made.configMap
               [] OTHER -> Readable(src[v])
Volumes(t) == {v \in {"tls", "trust", t.config} \ {"none"} :
                  (v = "tls" => t.tls) /\ (v = "trust" => t.extra)}

\* Pods are created in order, each once the ones before it are up, and replaced
\* one at a time, the last outdated one first, while all are up.
CreatePod(p) ==
    /\ made.sts # NoTemplate /\ pod[p] = NoPod
    /\ \A q \in Pods : q < p => pod[q].up
    /\ pod' = [pod EXCEPT ![p].tmpl = made.sts]
    /\ UNCHANGED <<cluster, status, made, src, crds, passVars, excused, boundVars>>

ReplacePod(p) ==
    /\ made.sts # NoTemplate /\ AllReady /\ pod[p].tmpl # made.sts
    /\ \A q \in Pods : q > p => pod[q].tmpl = made.sts
    /\ pod' = [pod EXCEPT ![p] = [tmpl |-> made.sts, up |-> FALSE]]
    /\ UNCHANGED <<cluster, status, made, src, crds, passVars, excused, boundVars>>

\* A pod waits in ContainerCreating until all its volumes exist.
StartPod(p) ==
    /\ pod[p].tmpl # NoTemplate /\ ~pod[p].up
    /\ \A v \in Volumes(pod[p].tmpl) : Exists(v)
    /\ pod' = [pod EXCEPT ![p].up = TRUE]
    /\ UNCHANGED <<cluster, status, made, src, crds, passVars, excused, boundVars>>

Evict(p) ==
    /\ pod[p].up /\ Upset
    /\ pod' = [pod EXCEPT ![p].up = FALSE]
    /\ UNCHANGED <<cluster, status, made, src, crds, passVars, excused, edits>>

MutOwned == {"certificate", "configMap", "sts", "service", "pdb", "monitors"}
\* The objects made with SetControllerReference: in reconcileTLSCertificate,
\* reconcileTrustBundle, reconcileMonitoringConfigMap, reconcileStatefulSet,
\* reconcileService (both), reconcilePodDisruptionBudget and reconcileMonitor
Owned == {"certificate", "trust", "configMap", "sts", "service", "pdb", "monitors"}

\* What is left of the objects when their owner is gone
Collected(m) == [k \in DOMAIN m |-> IF k \in Owned THEN NoObjects[k] ELSE m[k]]

GarbageCollect ==
    /\ ~cluster.here /\ \/ made # Collected(made) \/ Existing # {}
    /\ made' = Collected(made) /\ pod' = [p \in Pods |-> NoPod]
    /\ UNCHANGED <<cluster, status, src, crds, passVars, excused, boundVars>>

Workload == \E p \in Pods : CreatePod(p) \/ ReplacePod(p) \/ StartPod(p)

Next == \/ Pass \/ Fault
        \/ Delete \/ (\E s \in Specs : EditSpec(s))
        \/ Issue \/ Change \/ Workload \/ GarbageCollect
        \/ \E p \in Pods : Evict(p)

Spec == Init /\ [][Next]_vars

\* A pass is always followed by another (RequeueAfter, or a retry of an error);
\* cert-manager, the StatefulSet controller and the collector do their work.
FairSpec == Spec /\ WF_vars(Pass) /\ WF_vars(Issue) /\ WF_vars(Workload) /\ WF_vars(GarbageCollect)

-----------------------------------------------------------------------------
(* Correctness *)

\* A pod finds the volumes its operator owes it: when its template mounts the
\* generated exporter configuration or the merged CA bundle, that object
\* exists, whatever failed or was edited since (Reconcile writes both before
\* the StatefulSet).  Excused are the two ways the code itself has around it:
\* the generated ConfigMap is deleted when metricsConfig is set, and the
\* template asks for a bundle that could not be merged.
VolumesInPlace ==
    \A p \in Existing :
        /\ pod[p].tmpl.config = "generated" => made.configMap \/ "dropped" \in excused
        /\ pod[p].tmpl.extra => made.trust # Missing \/ "unmerged" \in excused

\* The bundle the nodes trust holds no certificate twice, and it holds a CA the
\* cluster's own certificate was issued from: a Secret with only the additional
\* CAs would make the nodes refuse each other (reconcileTrustBundle,
\* mergeCABundle).  There is one exception: a ca.crt that was there and held no
\* certificate when the bundle was last merged, which buildTrustBundle takes.
BundleHasOwnCA ==
    made.trust # Missing => /\ Range(made.trust) \cap OwnCAs # {} \/ "blank" \in excused
                            /\ Len(made.trust) = Cardinality(Range(made.trust))

\* The CAs a cluster of spec s trusts: its own and those of every entry
TrustedCAs(s) == Range(src["tls"]) \cup UNION {Range(src[s.cas[i]]) : i \in DOMAIN s.cas}

Achievable(s) == (s.tls => s.issuer # "") /\ (s.mon /\ s.custom => Readable(src["rules"]))

Converged(s) ==
    /\ s.tls => made.certificate # ""
    /\ WritesTrust(s) => /\ made.trust # Missing /\ Range(made.trust) = TrustedCAs(s)
                         /\ status.tls.cas = Cardinality(TrustedCAs(s))
    /\ s.tls => status.tls.error = TrustBundleFails(s)
    /\ s.mon => /\ made.configMap = ~s.custom
                /\ made.monitors = Wanted(s)
                /\ status.mon.scrape = (Wanted(s) # {})
    /\ made.sts = Template(s) /\ made.service = ServicePorts(s) /\ made.pdb = s.pdb

\* Whatever pass was cut short, at whichever object, and whatever was edited
\* or replaced meanwhile: the template, the Services, the budget, the exporter
\* configuration and the trust Secret come to match the spec and its sources,
\* the chosen monitor is the only one, and the status says so (the pass repeats
\* every 10 s and rewrites these objects).  A change of the storage mode, which
\* can never be made, ends as Failed instead.  The Certificate is only made to
\* exist: though riakcluster_controller.go:187 says "creates or updates", an
\* existing one is never written, and keeps the issuer of the spec it was
\* created under.
ObjectsConverge ==
    <>[](cluster.here /\ ~cluster.deleting /\ Achievable(cluster.spec) =>
            IF StorageClash(cluster.spec) THEN status.phase = "Failed" ELSE Converged(cluster.spec))

\* A deleted cluster goes, and nothing the operator made for it stays, not
\* even what a pass that was under way made after the deletion
\* (handleDeletion, SetControllerReference).
DeletionLeavesNothing ==
    <>[](cluster.deleting \/ ~cluster.here => ~cluster.here /\ made = NoObjects /\ Existing = {})

=============================================================================
