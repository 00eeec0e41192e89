----------------------------- MODULE Membership -----------------------------
(***************************************************************************)
(* How the operator forms the Riak ring: ReconcileMembership of            *)
(* internal/riak/manager.go, called by updateClusterStatus of the cluster  *)
(* controller when spec.size pods are Ready.                               *)
(*                                                                         *)
(* Each riak-admin call is a step of its own, made on a pod that may go    *)
(* away meanwhile, and a call that times out may or may not have taken     *)
(* effect.  Riak itself is external: a node holds one ring; a fresh disk   *)
(* starts a ring of that node alone; a join puts the node into the seed's  *)
(* ring as "joining" until a commit, and a committed node becomes "valid"  *)
(* when the ring settles.  Nodes of one ring see the same table.           *)
(*                                                                         *)
(* Left out: the node names.  That a node runs under the name of its pod   *)
(* is the entrypoint script's business; here the seed always lists itself. *)
(***************************************************************************)
EXTENDS Integers, FiniteSets

CONSTANTS
    MaxSize,          \* bound on spec.size: pods are 0 .. MaxSize - 1
    MaxEdits,         \* bound on changes of spec.size
    MaxOutages,       \* bound on pods going down
    MaxLosses,        \* bound on pods coming back with an empty disk
    AllowShrink,      \* may spec.size be lowered?
    LateFailures      \* may a pass fail once its last join is staged?

ASSUME SizeAssumption == MaxSize \in Nat \ {0}
ASSUME LimitsAssumption == /\ MaxEdits \in Nat /\ MaxOutages \in Nat /\ MaxLosses \in Nat
                           /\ AllowShrink \in BOOLEAN /\ LateFailures \in BOOLEAN

Pods == 0 .. MaxSize - 1
Seed == 0
Rings == 0 .. MaxSize + MaxLosses - 1

VARIABLES
    size,     \* RiakCluster.spec.size
    node,     \* the pods: absent, down or up (Ready)
    rid,      \* the ring each node's disk holds
    tab,      \* the member-status table of each ring
    pc,       \* where ReconcileMembership is
    names,    \* its argument podNames
    inRing, valid,    \* what it read from the seed
    todo,     \* the pods it has still to look at
    joined,   \* has it staged a join?
    status,   \* the pods for which the cluster status says Ready; {} if not Ready
    edits, outages, losses,   \* bounds
    lowered   \* history: has spec.size ever been lowered?

passVars == <<pc, names, inRing, valid, todo, joined, status>>
boundVars == <<edits, outages, losses, lowered>>
vars == <<size, node, rid, tab, passVars, boundVars>>

TypeOK ==
    /\ size \in 1 .. MaxSize
    /\ node \in [Pods -> {"absent", "down", "up"}]
    /\ rid \in [Pods -> Rings]
    /\ tab \in [Rings -> [Pods -> {"none", "joining", "committed", "valid"}]]
    /\ pc \in {"idle", "visit", "plan", "commit"}
    /\ names \subseteq Pods /\ inRing \subseteq Pods /\ todo \subseteq Pods
    /\ valid \in 0 .. MaxSize /\ joined \in BOOLEAN
    /\ status \subseteq Pods
    /\ edits \in 0 .. MaxEdits /\ outages \in 0 .. MaxOutages /\ losses \in 0 .. MaxLosses
    /\ lowered \in BOOLEAN

Alone(p) == [q \in Pods |-> IF q = p THEN "valid" ELSE "none"]

Init ==
    /\ size \in 1 .. MaxSize
    /\ node = [p \in Pods |-> "absent"]
    /\ rid = [p \in Pods |-> p]
    /\ tab = [r \in Rings |-> IF r \in Pods THEN Alone(r) ELSE [q \in Pods |-> "none"]]
    /\ pc = "idle" /\ names = {} /\ inRing = {} /\ valid = 0 /\ todo = {} /\ joined = FALSE
    /\ status = {}
    /\ edits = 0 /\ outages = 0 /\ losses = 0 /\ lowered = FALSE

-----------------------------------------------------------------------------
(* External: the member-status tables *)

Up == {p \in Pods : node[p] = "up"}
Listed == {p \in Pods : node[p] # "absent"}
Members(r) == {q \in Pods : tab[r][q] # "none"}
Valid(r) == {q \in Pods : tab[r][q] = "valid"}

-----------------------------------------------------------------------------
(* The operator *)

AllReady == Cardinality(Up) = size

EndPass(s) == /\ pc' = "idle" /\ status' = s
              /\ names' = {} /\ inRing' = {} /\ valid' = 0 /\ todo' = {} /\ joined' = FALSE

\* updateClusterStatus when it does not ask Riak: pods are missing, or one
\* node is the whole cluster.
ReportWithoutRing ==
    /\ pc = "idle" /\ (~AllReady \/ size = 1)
    /\ EndPass(IF AllReady THEN Up ELSE {})
    /\ UNCHANGED <<size, node, rid, tab, boundVars>>

MutReadSeed ==
    /\ pc = "idle" /\ AllReady /\ size > 1
    /\ node[Seed] = "up"
    /\ pc' = "visit"
    /\ names' = Listed /\ todo' = Listed \ {Seed}
    /\ inRing' = Members(rid[Seed]) /\ valid' = Cardinality(Valid(rid[Seed])) + 1
    /\ joined' = FALSE
    /\ UNCHANGED <<size, node, rid, tab, status, boundVars>>
\* member-status on the seed
ReadSeed ==
    /\ pc = "idle" /\ AllReady /\ size > 1
    /\ node[Seed] = "up"
    /\ pc' = "visit"
    /\ names' = Listed /\ todo' = Listed \ {Seed}
    /\ inRing' = Members(rid[Seed]) /\ valid' = Cardinality(Valid(rid[Seed]))
    /\ joined' = FALSE
    /\ UNCHANGED <<size, node, rid, tab, status, boundVars>>

\* The pods are visited in the order of their names.
Visiting(p) == pc = "visit" /\ p \in todo /\ (\A q \in todo : p <= q) /\ node[p] = "up"
\* Only a ring of exactly itself, not yet listed by the seed, is joined.
Standalone(p) == Cardinality(Members(rid[p])) = 1 /\ p \notin inRing

SkipPeer(p) ==
    /\ Visiting(p) /\ ~Standalone(p)
    /\ todo' = todo \ {p}
    /\ UNCHANGED <<size, node, rid, tab, pc, names, inRing, valid, joined, status, boundVars>>

MutStage(p) ==
    LET last == CHOOSE q \in names : \A o \in names : o <= q IN
    /\ Visiting(p) /\ Standalone(p) /\ node[Seed] = "up"
    /\ rid' = [rid EXCEPT ![p] = rid[last]]
    /\ tab' = [tab EXCEPT ![rid[last]][p] = "joining"]
Stage(p) ==
    /\ Visiting(p) /\ Standalone(p) /\ node[Seed] = "up"
    /\ rid' = [rid EXCEPT ![p] = rid[Seed]]
    /\ tab' = [tab EXCEPT ![rid[Seed]][p] = "joining"]

JoinPeer(p) ==
    /\ Stage(p)
    /\ todo' = todo \ {p} /\ joined' = TRUE
    /\ UNCHANGED <<size, node, pc, names, inRing, valid, status, boundVars>>

\* riak-admin took longer than its 30 seconds, but the join was staged.
JoinTimesOut(p) ==
    /\ LateFailures /\ Stage(p) /\ EndPass({})
    /\ UNCHANGED <<size, node, boundVars>>

MutVisitDone ==
    /\ pc = "visit" /\ todo = {}
    /\ pc' = "plan"
    /\ UNCHANGED <<size, node, rid, tab, names, inRing, valid, todo, joined, status, boundVars>>
VisitDone ==
    /\ pc = "visit" /\ todo = {} /\ joined
    /\ pc' = "plan"
    /\ UNCHANGED <<size, node, rid, tab, names, inRing, valid, todo, joined, status, boundVars>>

MutPlan ==
    /\ pc = "plan" /\ node[Seed] = "up"
    /\ EndPass({})
    /\ UNCHANGED <<size, node, rid, tab, boundVars>>
Plan ==
    /\ pc = "plan" /\ node[Seed] = "up"
    /\ pc' = "commit"
    /\ UNCHANGED <<size, node, rid, tab, names, inRing, valid, todo, joined, status, boundVars>>

\* The commit takes every staged join; its result is looked at by a later pass.
\* It may also time out after taking effect: the pass ends the same way.
Commit ==
    /\ pc = "commit" /\ node[Seed] = "up"
    /\ tab' = [tab EXCEPT ![rid[Seed]] = [q \in Pods |-> IF @[q] = "joining" THEN "committed" ELSE @[q]]]
    /\ EndPass({})
    /\ UNCHANGED <<size, node, rid, boundVars>>

MutReport ==
    /\ pc = "visit" /\ todo = {} /\ ~joined
    /\ EndPass(names)
    /\ UNCHANGED <<size, node, rid, tab, boundVars>>
\* Nothing was joined: the seed's table decides.
Report ==
    /\ pc = "visit" /\ todo = {} /\ ~joined
    /\ EndPass(IF valid = Cardinality(names) THEN names ELSE {})
    /\ UNCHANGED <<size, node, rid, tab, boundVars>>

\* Any riak-admin call fails without effect, or the operator dies and leaves
\* the status as it was.
PassFails ==
    /\ pc # "idle"
    /\ joined /\ todo = {} => LateFailures
    /\ \E s \in {status, {}} : EndPass(s)
    /\ UNCHANGED <<size, node, rid, tab, boundVars>>

\* The first call already fails.
SeedFails ==
    /\ pc = "idle" /\ AllReady /\ size > 1
    /\ EndPass({})
    /\ UNCHANGED <<size, node, rid, tab, boundVars>>

-----------------------------------------------------------------------------
(* External: the user, the pods and the ring *)

Resize(n) ==
    /\ edits < MaxEdits /\ n # size /\ (AllowShrink \/ n > size)
    /\ size' = n /\ edits' = edits + 1 /\ lowered' = (lowered \/ n < size)
    /\ UNCHANGED <<node, rid, tab, passVars, outages, losses>>

\* OrderedReady: a pod comes up when all below it are.
PodUp(p) ==
    /\ p < size /\ node[p] # "up" /\ \A q \in Pods : q < p => node[q] = "up"
    /\ node' = [node EXCEPT ![p] = "up"]
    /\ UNCHANGED <<size, rid, tab, passVars, boundVars>>

PodDown(p) ==
    /\ node[p] = "up" /\ outages < MaxOutages
    /\ \E st \in {"down", "absent"} : node' = [node EXCEPT ![p] = st]
    /\ outages' = outages + 1
    /\ UNCHANGED <<size, rid, tab, passVars, edits, losses, lowered>>

\* Scale-down removes the pod; its volume, and the ring on it, stay.
PodRemoved(p) ==
    /\ p >= size /\ node[p] # "absent" /\ \A q \in Listed : q <= p
    /\ node' = [node EXCEPT ![p] = "absent"]
    /\ UNCHANGED <<size, rid, tab, passVars, boundVars>>

\* The pod comes back with an empty disk (an emptyDir, a lost volume): a freshly
\* started node is its own one-member ring.
LoseRing(p) ==
    /\ node[p] # "up" /\ losses < MaxLosses
    /\ rid' = [rid EXCEPT ![p] = MaxSize + losses]
    /\ tab' = [tab EXCEPT ![MaxSize + losses] = Alone(p)]
    /\ losses' = losses + 1
    /\ UNCHANGED <<size, node, passVars, edits, outages, lowered>>

RingSettles(p) ==
    /\ node[p] = "up" /\ tab[rid[p]][p] = "committed"
    /\ tab' = [tab EXCEPT ![rid[p]][p] = "valid"]
    /\ UNCHANGED <<size, node, rid, passVars, boundVars>>

-----------------------------------------------------------------------------
Operator ==
    \/ ReportWithoutRing \/ ReadSeed \/ SeedFails \/ PassFails
    \/ \E p \in Pods : SkipPeer(p) \/ JoinPeer(p) \/ JoinTimesOut(p)
    \/ VisitDone \/ Plan \/ Commit \/ Report

Environment ==
    \/ \E n \in 1 .. MaxSize : Resize(n)
    \/ \E p \in Pods : PodUp(p) \/ PodDown(p) \/ PodRemoved(p) \/ LoseRing(p) \/ RingSettles(p)

Next == Operator \/ Environment
Spec == Init /\ [][Next]_vars

(***************************************************************************)
(* Fairness.  The cluster controller requeues every 10 seconds, so a pass  *)
(* always starts again; a riak-admin call made again and again is answered *)
(* at last; pods and ring make progress.                                   *)
(***************************************************************************)
Fairness ==
    /\ WF_vars(ReadSeed) /\ WF_vars(ReportWithoutRing)
    /\ WF_vars(VisitDone) /\ SF_vars(Plan) /\ SF_vars(Commit) /\ SF_vars(Report)
    /\ \A p \in Pods : /\ SF_vars(SkipPeer(p)) /\ SF_vars(JoinPeer(p))
                       /\ WF_vars(PodUp(p)) /\ WF_vars(PodRemoved(p)) /\ WF_vars(RingSettles(p))
FairSpec == Spec /\ Fairness

-----------------------------------------------------------------------------
(* Properties *)

\* "The cluster only reports Ready when every node is a valid ring member"
\* (docs/crds/riakcluster.md:210): each pod for which the status says Ready is
\* a valid member of the seed's ring, and holds that ring itself.  The code
\* compares a count read at the start of the pass with the number of pods.
ReadyMeansMembers ==
    \A p \in status : Cardinality(status) > 1 =>
        tab[rid[Seed]][p] = "valid" /\ rid[p] = rid[Seed]

\* The same for a cluster that has lost no disk and was never made smaller:
\* failing and timed-out calls, outages and growth do not make the count that
\* ReconcileMembership compares stand for the wrong pods.
ReadyUnlessLost == losses = 0 /\ ~lowered => ReadyMeansMembers

\* The operator never leaves behind a second ring of several nodes: whatever
\* fails between staging and commit, whatever disk is lost and however the size
\* changes, a node that is not alone is in the seed's ring, as long as the seed
\* keeps the ring it started with (manager.go:87-92).
OneRing ==
    rid[Seed] = Seed => \A p \in Pods : Cardinality(Members(rid[p])) > 1 => rid[p] = rid[Seed]

\* A plan and a commit are only made for a change that is staged: a ring that
\* is formed is left alone ("idempotent ... safe to call on every reconcile",
\* manager.go:46).  A seed that loses its disk meanwhile loses the staged joins.
CommitsStaged ==
    rid[Seed] = Seed /\ pc \in {"plan", "commit"} => \E p \in Pods : tab[rid[Seed]][p] = "joining"

\* When the pods stay up every one of them becomes a member and the cluster is
\* reported Ready (docs/crds/riakcluster.md:207-211).
AllUp == \A p \in Pods : node[p] = IF p < size THEN "up" ELSE "absent"
FormsRing == <>[]AllUp => []<>(status = {p \in Pods : p < size})
=============================================================================
