--------------------------- MODULE UserLifecycle ---------------------------
(***************************************************************************)
(* How RiakUser objects become users of Riak's security system and how     *)
(* they are removed from it: Reconcile, deleteRiakUser, markUserReady and  *)
(* failUser of internal/controller/riakuser_controller.go, with the calls  *)
(* of internal/riak/manager.go and executor.go they make.                  *)
(*                                                                         *)
(* Several objects of one cluster are reconciled by up to Workers workers, *)
(* never the same object by two.  Each riak-admin call is a step; one that *)
(* times out may have taken effect.  A write of the object is refused when *)
(* the user has changed it since the pass read it.  An object is looked at *)
(* when its generation changes, when a pass asks to be repeated and when   *)
(* the operator restarts, and not otherwise: the controller watches        *)
(* nothing but RiakUsers.                                                  *)
(*                                                                         *)
(* spec.certificateRef names an issuer, whose Certificate the pass creates *)
(* and cert-manager makes usable, or a Secret that others provide; which   *)
(* of its checks (expiry, usage, trusted CA) an unusable one fails is left *)
(* out, but for its CommonName, which must be the username.                *)
(***************************************************************************)
EXTENDS Grants

CONSTANTS
    Objs,             \* RiakUser objects of the cluster's namespace
    Names,            \* usernames
    NoName,           \* the username of an object that does not exist
    GrantLists,       \* the sets of grants users may ask for
    Inherited,        \* what print-grants lists as inherited from groups
    Width,            \* tokens print-grants puts on a row
    CertRefs,         \* the kinds of spec.certificateRef: "issuer", "external", or "none"
    NewCert,          \* is a new Certificate "pending", or "usable" at once?
    Workers,          \* --max-concurrent-reconciles
    MaxEdits,         \* bound on what users do to RiakUser objects
    MaxOutages,       \* bound on failures and deletions of the RiakCluster, and lapses
    MaxRestarts,      \* bound on operator restarts
    AllowRename,      \* may spec.username be edited?
    AllowRecreate     \* may the RiakCluster be deleted, and created anew?

ASSUME UserAssumption ==
    /\ NoName \notin Names /\ Width \in Nat \ {0}
    /\ CertRefs \subseteq {"issuer", "external", "none"} /\ NewCert \in {"pending", "usable"}
    /\ Workers \in Nat \ {0}
    /\ MaxEdits \in Nat /\ MaxOutages \in Nat /\ MaxRestarts \in Nat
    /\ AllowRename \in BOOLEAN /\ AllowRecreate \in BOOLEAN

\* A bucket type has a name, which is neither "*", what print-grants lists for
\* "on any", nor "type", the title of its column.
ASSUME GrantAssumption ==
    /\ IsFiniteSet(UNION GrantLists) /\ IsFiniteSet(Inherited)
    /\ \A g \in UNION GrantLists : /\ g.bucket \in Seq(STRING)
                                   /\ g.bucket # <<>> => g.bucket[1] \notin {"", "*", "type"}

VARIABLES
    obj,      \* the RiakUser objects
    cluster,  \* the RiakCluster: missing, notready or ready
    flag,     \* its status.securityEnabled
    riak,     \* Riak's users
    secured,  \* is security enabled in Riak?
    queued,   \* objects waiting for a pass
    pc,       \* where the pass over each object is
    snap,     \* the object as the pass read it
    stale,    \* has the object been changed since?
    todo,     \* calls the pass has still to make, to grant or to revoke
    crt,      \* the client certificates: their state and CommonName
    expired,  \* has a deletion lasted longer than userDeleteGracePeriod?
    edits, outages, restarts,  \* bounds
    provisioned, excused, wiped    \* history, see below

(***************************************************************************)
(* History: provisioned holds the usernames a pass has recorded as Ready   *)
(* and none has deleted since; excused those whose object went while the   *)
(* cluster could not be asked or the grace period was over, the cases the  *)
(* code gives up on.  wiped says whether the RiakCluster was ever deleted. *)
(***************************************************************************)
passVars == <<pc, snap, stale, todo>>
boundVars == <<edits, outages, restarts>>
histVars == <<provisioned, excused, wiped>>
vars == <<obj, cluster, flag, riak, secured, queued, passVars, crt, expired, boundVars, histVars>>

Objects == [here: BOOLEAN, deleting: BOOLEAN, final: BOOLEAN, name: Names \cup {NoName},
            grants: GrantLists \cup {{}}, cert: {"issuer", "external", "none"},
            phase: {"", "Creating", "Ready", "Failed"}, created: BOOLEAN, certReady: BOOLEAN]
NoObj == [here |-> FALSE, deleting |-> FALSE, final |-> FALSE, name |-> NoName,
          grants |-> {}, cert |-> "none", phase |-> "", created |-> FALSE, certReady |-> FALSE]
Held == UNION {Asked(g) : g \in GrantLists}
RiakUsers == [exists: BOOLEAN, source: BOOLEAN, grants: SUBSET Held]
\* What a user can hold is read off print-grants as it is held.
ParsesBack ==
    \A held \in SUBSET Held :
        parseDedicatedGrants(PrintGrants(held, Inherited, Width)) =
            {[key |-> h[1], tokens |-> {x[2] : x \in {y \in held : y[1] = h[1]}}] : h \in held}
NoUser == [exists |-> FALSE, source |-> FALSE, grants |-> {}]
Certificates == [st: {"none", "pending", "usable"}, cn: Names \cup {NoName}]
NoCert == [st |-> "none", cn |-> NoName]
Calls == {"secure", "flag", "create", "source", "grant", "revoke"}

\* One type invariant: every variable keeps the shape the code gives it.
TypeOK ==
    /\ obj \in [Objs -> Objects] /\ snap \in [Objs -> Objects]
    /\ cluster \in {"missing", "notready", "ready"}
    /\ flag \in BOOLEAN /\ secured \in BOOLEAN
    /\ riak \in [Names -> RiakUsers]
    /\ queued \subseteq Objs
    /\ pc \in [Objs -> {"idle", "admit", "cluster", "delete", "unfinal"} \cup Calls]
    /\ stale \in [Objs -> BOOLEAN] 
    /\ \A o \in Objs : \A c \in todo[o] : TargetFails(c.resource, c.bucket) \/ Pairs(c) \subseteq Held
    /\ crt \in [Objs -> Certificates] /\ expired \in [Objs -> BOOLEAN]
    /\ edits \in 0 .. MaxEdits /\ outages \in 0 .. MaxOutages /\ restarts \in 0 .. MaxRestarts
    /\ provisioned \subseteq Names /\ excused \subseteq Names /\ wiped \in BOOLEAN

Init ==
    /\ obj = [o \in Objs |-> NoObj] /\ snap = obj
    /\ cluster \in {"notready", "ready"} /\ flag = FALSE
    /\ riak = [n \in Names |-> NoUser] /\ secured = FALSE
    /\ queued = {}
    /\ pc = [o \in Objs |-> "idle"] /\ stale = [o \in Objs |-> FALSE]
    /\ todo = [o \in Objs |-> {}] /\ expired = [o \in Objs |-> FALSE]
    /\ crt = [o \in Objs |-> NoCert]
    /\ edits = 0 /\ outages = 0 /\ restarts = 0
    /\ provisioned = {} /\ excused = {} /\ wiped = FALSE

-----------------------------------------------------------------------------
(* Passes *)

Busy == {o \in Objs : pc[o] # "idle"}
Name(o) == snap[o].name

Goto(o, l) == pc' = [pc EXCEPT ![o] = l]
EndPass(o) == /\ pc' = [pc EXCEPT ![o] = "idle"]
              /\ snap' = [snap EXCEPT ![o] = NoObj]
              /\ stale' = [stale EXCEPT ![o] = FALSE]
              /\ todo' = [todo EXCEPT ![o] = {}]
Requeue(o) == EndPass(o) /\ queued' = queued \cup {o}

\* What a pass writes reaches the object only if nobody changed it since the
\* pass read it; the pass goes on with what it wrote.
Write(o, v) == IF stale[o] THEN UNCHANGED obj ELSE obj' = [obj EXCEPT ![o] = v]

MutFailUserPhase(o) == Write(o, [snap[o] EXCEPT !.phase = "Error"]) /\ Requeue(o)
MutFailUserDrops(o) ==
    Write(o, [snap[o] EXCEPT !.phase = "Failed"]) /\ EndPass(o) /\ UNCHANGED queued
\* failUser: the phase is Failed if that can be written; Created stays.
FailUser(o) == Write(o, [snap[o] EXCEPT !.phase = "Failed"]) /\ Requeue(o)

\* Get of the RiakUser: not found, being deleted, or to be provisioned
StartPass(o) ==
    /\ o \in queued /\ pc[o] = "idle" /\ Cardinality(Busy) < Workers
    /\ queued' = queued \ {o}
    /\ IF ~obj[o].here
       THEN UNCHANGED <<pc, snap>>
       ELSE /\ Goto(o, IF obj[o].deleting THEN "delete" ELSE "admit")
            /\ snap' = [snap EXCEPT ![o] = obj[o]]
    /\ UNCHANGED <<obj, cluster, flag, riak, secured, stale, todo, crt, expired, boundVars, histVars>>

\* The finalizer and the first phase; a conflict ends the pass.  An object
\* without certificateRef fails for good.
Admit(o) ==
    /\ pc[o] = "admit"
    /\ LET v == [snap[o] EXCEPT !.final = TRUE,
                                !.phase = IF snap[o].cert = "none" THEN "Failed"
                                          ELSE IF @ = "" THEN "Creating" ELSE @]
       IN /\ Write(o, v)
          /\ IF v # snap[o] /\ stale[o] THEN Requeue(o)
             ELSE IF snap[o].cert = "none" THEN EndPass(o) /\ UNCHANGED queued
             ELSE /\ Goto(o, "cluster") /\ snap' = [snap EXCEPT ![o] = v]
                  /\ UNCHANGED <<stale, todo, queued>>
    /\ UNCHANGED <<cluster, flag, riak, secured, crt, expired, boundVars, histVars>>

\* reconcileUserCertificate creates the Certificate where an issuer is named
\* and there is none yet; an existing one is left as it is.
ReconcileUserCertificate(o) ==
    crt' = [crt EXCEPT ![o] = IF cluster = "ready" /\ snap[o].cert = "issuer" /\ @ = NoCert
                              THEN [st |-> NewCert, cn |-> Name(o)] ELSE @]

MutCheckCluster(o) ==
    /\ pc[o] = "cluster"
    /\ CASE cluster = "missing" -> FailUser(o)
         [] cluster = "notready" -> Requeue(o) /\ UNCHANGED obj
         [] cluster = "ready" -> /\ Goto(o, "create")
                                 /\ UNCHANGED <<obj, queued, snap, stale, todo>>
    /\ ReconcileUserCertificate(o)
    /\ UNCHANGED <<cluster, flag, riak, secured, expired, boundVars, histVars>>
\* Get of the RiakCluster: missing fails the user, not Ready waits.
CheckCluster(o) ==
    /\ pc[o] = "cluster"
    /\ CASE cluster = "missing" -> FailUser(o)
         [] cluster = "notready" -> Requeue(o) /\ UNCHANGED obj
         [] cluster = "ready" -> /\ Goto(o, IF flag THEN "create" ELSE "secure")
                                 /\ UNCHANGED <<obj, queued, snap, stale, todo>>
    /\ ReconcileUserCertificate(o)
    /\ UNCHANGED <<cluster, flag, riak, secured, expired, boundVars, histVars>>

\* The Certificate can be neither found nor created: said so, and repeated.
UserCertificateFails(o) ==
    /\ pc[o] = "cluster" /\ cluster = "ready" /\ snap[o].cert = "issuer"
    /\ Write(o, [snap[o] EXCEPT !.phase = "Failed", !.certReady = FALSE]) /\ Requeue(o)
    /\ UNCHANGED <<cluster, flag, riak, secured, crt, expired, boundVars, histVars>>

\* security enable, then the flag of the RiakCluster's status; a conflict
\* with the cluster controller's status write is retried.
EnableSecurity(o) ==
    /\ pc[o] = "secure" /\ cluster # "missing"
    /\ secured' = TRUE /\ Goto(o, "flag")
    /\ UNCHANGED <<obj, cluster, flag, riak, queued, snap, stale, todo, crt, expired, boundVars, histVars>>

RecordSecurity(o) ==
    /\ pc[o] = "flag" /\ cluster # "missing"
    /\ flag' = TRUE /\ Goto(o, "create")
    /\ UNCHANGED <<obj, cluster, riak, secured, queued, snap, stale, todo, crt, expired, boundVars, histVars>>

RecordSecurityFails(o) ==
    /\ pc[o] = "flag" /\ Requeue(o)
    /\ UNCHANGED <<obj, cluster, flag, riak, secured, crt, expired, boundVars, histVars>>

\* security add-user; an existing user is the goal
CreateUserForCert(o) ==
    /\ pc[o] = "create" /\ cluster # "missing"
    /\ riak' = [riak EXCEPT ![Name(o)].exists = TRUE]
    /\ Goto(o, "source")
    /\ UNCHANGED <<obj, cluster, flag, secured, queued, snap, stale, todo, crt, expired, boundVars, histVars>>

AddSecuritySource(o) ==
    /\ pc[o] = "source" /\ cluster # "missing" /\ riak[Name(o)].exists
    /\ riak' = [riak EXCEPT ![Name(o)].source = TRUE]
    /\ Goto(o, "grant") /\ todo' = [todo EXCEPT ![o] = GrantCalls(snap[o].grants)]
    /\ UNCHANGED <<obj, cluster, flag, secured, queued, snap, stale, crt, expired, boundVars, histVars>>

\* GrantUserPermissions: one call per target of the spec, then print-grants,
\* then one call per target on which Riak holds more.  A target that names no
\* bucket type fails the pass (CallFails).
GrantPermissions(o) ==
    /\ pc[o] = "grant" /\ cluster # "missing" /\ riak[Name(o)].exists
    /\ \E c \in todo[o] :
         /\ ~TargetFails(c.resource, c.bucket)
         /\ riak' = [riak EXCEPT ![Name(o)].grants = @ \cup Pairs(c)]
         /\ todo' = [todo EXCEPT ![o] = @ \ {c}]
    /\ UNCHANGED <<obj, cluster, flag, secured, queued, pc, snap, stale, crt, expired, boundVars, histVars>>

MutGetUserGrants(o) ==
    /\ pc[o] = "grant" /\ todo[o] = {} /\ cluster # "missing" /\ riak[Name(o)].exists
    /\ Goto(o, "revoke")
    /\ UNCHANGED <<obj, cluster, flag, riak, secured, queued, snap, stale, todo, crt, expired, boundVars, histVars>>
GetUserGrants(o) ==
    /\ pc[o] = "grant" /\ todo[o] = {} /\ cluster # "missing" /\ riak[Name(o)].exists
    /\ Goto(o, "revoke")
    /\ \E out \in {PrintGrants(riak[Name(o)].grants, Inherited, Width)} :
         todo' = [todo EXCEPT ![o] = RevokeCalls(parseDedicatedGrants(out), snap[o].grants)]
    /\ UNCHANGED <<obj, cluster, flag, riak, secured, queued, snap, stale, crt, expired, boundVars, histVars>>

RevokePermissions(o) ==
    /\ pc[o] = "revoke" /\ cluster # "missing" /\ riak[Name(o)].exists
    /\ \E c \in todo[o] :
         /\ riak' = [riak EXCEPT ![Name(o)].grants = @ \ Pairs(c)]
         /\ todo' = [todo EXCEPT ![o] = @ \ {c}]
    /\ UNCHANGED <<obj, cluster, flag, secured, queued, pc, snap, stale, crt, expired, boundVars, histVars>>

\* A riak-admin call is refused or times out: without effect, or with it.
CallFails(o) ==
    /\ pc[o] \in {"secure", "create", "source", "grant", "revoke"}
    /\ FailUser(o)
    /\ \/ UNCHANGED <<riak, secured>>
       \/ pc[o] = "secure" /\ cluster # "missing" /\ secured' = TRUE /\ UNCHANGED riak
       \/ /\ pc[o] = "create" /\ cluster # "missing" /\ UNCHANGED secured
          /\ riak' = [riak EXCEPT ![Name(o)].exists = TRUE]
       \/ /\ pc[o] = "source" /\ cluster # "missing" /\ riak[Name(o)].exists /\ UNCHANGED secured
          /\ riak' = [riak EXCEPT ![Name(o)].source = TRUE]
       \/ \E c \in todo[o] :
            /\ cluster # "missing" /\ riak[Name(o)].exists /\ UNCHANGED secured
            /\ ~TargetFails(c.resource, c.bucket)
            /\ riak' = [riak EXCEPT ![Name(o)].grants =
                            IF pc[o] = "grant" THEN @ \cup Pairs(c) ELSE @ \ Pairs(c)]
    /\ UNCHANGED <<cluster, flag, crt, expired, boundVars, histVars>>

\* verifyClientCert: the Secret holds a certificate in force, from a trusted
\* CA, for this username.
verifyClientCert(o) == crt[o].st = "usable" /\ crt[o].cn = Name(o)

\* Of a Certificate of cert-manager only its Ready condition is looked at.
userCertificateReady(o) ==
    IF snap[o].cert = "issuer" THEN crt[o].st = "usable" ELSE verifyClientCert(o)

MutCertRequeue(o) == ~userCertificateReady(o)
\* certRequeue: until the certificate is ready, and for an external one for ever
CertRequeue(o) == ~userCertificateReady(o) \/ snap[o].cert = "external"

\* markUserReady with the certificate's readiness; a conflict is retried.
MarkUserReady(o) ==
    /\ pc[o] = "revoke" /\ todo[o] = {}
    /\ Write(o, [snap[o] EXCEPT !.phase = "Ready", !.created = TRUE,
                                !.certReady = userCertificateReady(o)])
    /\ provisioned' = IF stale[o] THEN provisioned ELSE provisioned \cup {Name(o)}
    /\ IF CertRequeue(o) \/ stale[o] THEN Requeue(o) ELSE EndPass(o) /\ UNCHANGED queued
    /\ UNCHANGED <<cluster, flag, riak, secured, crt, expired, boundVars, excused, wiped>>

-----------------------------------------------------------------------------
(* Deletion *)

\* deleteRiakUser without a call: the user was never recorded as created, or
\* there is no Ready cluster to ask.
DeleteNothing(o) ==
    /\ pc[o] = "delete"
    /\ ~snap[o].created \/ cluster # "ready"
    /\ excused' = IF snap[o].created THEN excused \cup {Name(o)} ELSE excused
    /\ Goto(o, "unfinal")
    /\ UNCHANGED <<obj, cluster, flag, riak, secured, queued, snap, stale, todo, crt, expired, boundVars, provisioned, wiped>>

\* security del-user takes the grants and sources with it; an unknown user is
\* deleted already.
DeleteUser(o) ==
    /\ pc[o] = "delete" /\ snap[o].created /\ cluster = "ready"
    /\ riak' = [riak EXCEPT ![Name(o)] = NoUser]
    /\ provisioned' = provisioned \ {Name(o)}
    /\ Goto(o, "unfinal")
    /\ UNCHANGED <<obj, cluster, flag, secured, queued, snap, stale, todo, crt, expired, boundVars, excused, wiped>>

MutDeleteUserForgets(o) ==
    /\ pc[o] = "delete" /\ snap[o].created /\ cluster = "ready"
    /\ riak' \in {riak, [riak EXCEPT ![Name(o)] = NoUser]}
    /\ Goto(o, "unfinal")
    /\ excused' = IF expired[o] THEN excused \cup {Name(o)} ELSE excused
    /\ UNCHANGED <<obj, cluster, flag, secured, queued, snap, stale, todo, crt, expired, boundVars, provisioned, wiped>>
MutDeleteUserInsists(o) ==
    /\ pc[o] = "delete" /\ snap[o].created /\ cluster = "ready"
    /\ riak' \in {riak, [riak EXCEPT ![Name(o)] = NoUser]}
    /\ Requeue(o)
    /\ UNCHANGED <<obj, cluster, flag, secured, crt, expired, boundVars, histVars>>
\* The call fails, without effect or with it: retried, or given up on once the
\* grace period is over.
DeleteUserFails(o) ==
    /\ pc[o] = "delete" /\ snap[o].created /\ cluster = "ready"
    /\ riak' \in {riak, [riak EXCEPT ![Name(o)] = NoUser]}
    /\ IF expired[o]
       THEN /\ excused' = excused \cup {Name(o)} /\ Goto(o, "unfinal")
            /\ UNCHANGED <<queued, snap, stale, todo>>
       ELSE Requeue(o) /\ UNCHANGED excused
    /\ UNCHANGED <<obj, cluster, flag, secured, crt, expired, boundVars, provisioned, wiped>>

\* Without its last finalizer the object goes; a conflict is retried.
RemoveFinalizer(o) ==
    /\ pc[o] = "unfinal"
    /\ Write(o, NoObj)
    /\ IF stale[o] THEN Requeue(o) /\ UNCHANGED <<crt, expired>>
       ELSE /\ EndPass(o) /\ UNCHANGED queued
            /\ crt' = [crt EXCEPT ![o] = NoCert] /\ expired' = [expired EXCEPT ![o] = FALSE]
    /\ UNCHANGED <<cluster, flag, riak, secured, boundVars, histVars>>

-----------------------------------------------------------------------------
(* External: users, the RiakCluster, the operator process, time *)

Edit(o, v) ==
    /\ edits < MaxEdits /\ edits' = edits + 1
    /\ obj' = [obj EXCEPT ![o] = v]
    /\ queued' = queued \cup {o}
    /\ stale' = [stale EXCEPT ![o] = pc[o] # "idle"]
    /\ crt' = [crt EXCEPT ![o] = IF v.here THEN @ ELSE NoCert]
    /\ UNCHANGED <<cluster, flag, riak, secured, pc, snap, todo, expired, outages, restarts, histVars>>

\* Two objects never ask for one username: nothing in the code keeps them
\* from undoing each other's work.
Free(n) == \A o \in Objs : obj[o].here => obj[o].name # n

CreateObject(o, n, g, c) ==
    /\ ~obj[o].here /\ Free(n)
    /\ Edit(o, [NoObj EXCEPT !.here = TRUE, !.name = n, !.grants = g, !.cert = c])

EditGrants(o, g) ==
    /\ obj[o].here /\ g # obj[o].grants
    /\ Edit(o, [obj[o] EXCEPT !.grants = g])

Rename(o, n) ==
    /\ AllowRename /\ obj[o].here /\ n # obj[o].name /\ Free(n)
    /\ Edit(o, [obj[o] EXCEPT !.name = n])

\* An object without a finalizer goes at once.
DeleteObject(o) ==
    /\ obj[o].here /\ ~obj[o].deleting
    /\ Edit(o, IF obj[o].final THEN [obj[o] EXCEPT !.deleting = TRUE] ELSE NoObj)

GracePeriodEnds(o) ==
    /\ obj[o].deleting /\ ~expired[o]
    /\ expired' = [expired EXCEPT ![o] = TRUE]
    /\ UNCHANGED <<obj, cluster, flag, riak, secured, queued, passVars, crt, boundVars, histVars>>

\* A client can log in with the object's certificate.
Usable(o) == crt[o].st = "usable" /\ crt[o].cn = obj[o].name

\* cert-manager issues the Certificate, or someone provides the Secret, also
\* one for a new username.
Issue(o) ==
    /\ obj[o].here
    /\ \/ obj[o].cert = "issuer" /\ crt[o].st = "pending" /\ crt' = [crt EXCEPT ![o].st = "usable"]
       \/ /\ obj[o].cert = "external" /\ ~Usable(o)
          /\ crt' = [crt EXCEPT ![o] = [st |-> "usable", cn |-> obj[o].name]]
    /\ UNCHANGED <<obj, cluster, flag, riak, secured, queued, passVars, expired, boundVars, histVars>>

\* It expires, is replaced by another, or its CA is no longer trusted.
Lapse(o) ==
    /\ crt[o].st = "usable" /\ outages < MaxOutages /\ outages' = outages + 1
    /\ crt' = [crt EXCEPT ![o].st = "pending"]
    /\ UNCHANGED <<obj, cluster, flag, riak, secured, queued, passVars, expired, edits, restarts, histVars>>

\* A RiakCluster that is deleted takes its Riak with it; a new one of the
\* same name starts empty.  Only what goes wrong counts towards the bound.
ClusterChanges(c) ==
    /\ c # cluster
    /\ c = "missing" => AllowRecreate
    /\ cluster = "missing" => c = "notready"
    /\ IF cluster = "ready" \/ c = "missing"
       THEN outages < MaxOutages /\ outages' = outages + 1 ELSE UNCHANGED outages
    /\ cluster' = c /\ wiped' = (wiped \/ c = "missing")
    /\ IF c = "missing" THEN /\ riak' = [n \in Names |-> NoUser]
                             /\ secured' = FALSE /\ flag' = FALSE
                        ELSE UNCHANGED <<riak, secured, flag>>
    /\ UNCHANGED <<obj, queued, passVars, crt, expired, edits, restarts, provisioned, excused>>

\* Every pass is lost; the new process looks at every object.
OperatorRestart ==
    /\ restarts < MaxRestarts /\ restarts' = restarts + 1
    /\ pc' = [o \in Objs |-> "idle"] /\ snap' = [o \in Objs |-> NoObj]
    /\ stale' = [o \in Objs |-> FALSE] /\ todo' = [o \in Objs |-> {}]
    /\ queued' = {o \in Objs : obj[o].here}
    /\ UNCHANGED <<obj, cluster, flag, riak, secured, crt, expired, edits, outages, histVars>>

-----------------------------------------------------------------------------
Provision(o) ==
    \/ Admit(o) \/ CheckCluster(o) \/ EnableSecurity(o)
    \/ RecordSecurity(o) \/ RecordSecurityFails(o)
    \/ CreateUserForCert(o) \/ AddSecuritySource(o) \/ GetUserGrants(o)
    \/ GrantPermissions(o) \/ RevokePermissions(o) \/ MarkUserReady(o)

Deletion(o) == DeleteNothing(o) \/ DeleteUser(o) \/ DeleteUserFails(o) \/ RemoveFinalizer(o)

User(o) ==
    \/ \E n \in Names : \/ \E g \in GrantLists, c \in CertRefs : CreateObject(o, n, g, c)
                        \/ Rename(o, n)
    \/ \E g \in GrantLists : EditGrants(o, g)
    \/ DeleteObject(o) \/ GracePeriodEnds(o) \/ Issue(o) \/ Lapse(o)

Next ==
    \/ \E o \in Objs : StartPass(o) \/ Provision(o) \/ CallFails(o)
                           \/ UserCertificateFails(o) \/ Deletion(o) \/ User(o)
    \/ \E c \in {"missing", "notready", "ready"} : ClusterChanges(c)
    \/ OperatorRestart

Spec == Init /\ [][Next]_vars

(***************************************************************************)
(* Fairness.  A queued object gets a worker while there is one, and every  *)
(* pass goes on: its next call succeeds or fails.  What of these an object *)
(* can do next is never more than one of the four.                         *)
(***************************************************************************)
Fairness ==
    \A o \in Objs :
        /\ WF_vars(StartPass(o) \/ CallFails(o) \/ Provision(o) \/ Deletion(o))
        /\ WF_vars(GracePeriodEnds(o))
FairSpec == Spec /\ Fairness

\* From some time on the calls that provision a user succeed.  Of del-user
\* nothing is assumed.
Setback(o) == CallFails(o) \/ RecordSecurityFails(o) \/ UserCertificateFails(o)
SetbacksEnd == \A o \in Objs : <>[][~Setback(o)]_vars

-----------------------------------------------------------------------------
(* Properties *)

\* Nothing is left to do for the object.
Settled(o) == obj[o].here /\ ~obj[o].deleting /\ pc[o] = "idle" /\ o \notin queued

\* "phase: whether the Riak-side identity exists", "Riak matches spec.grants
\* exactly" (docs/crds/riakuser.md:70, 56): as long as the RiakCluster is not
\* deleted, when the operator is done with an object, whatever edits, conflicts
\* and failing calls came between, it is Ready and Riak holds its user with the
\* grants of the spec, no more and no fewer (Reconcile, GrantUserPermissions).
SettledMeansProvisioned ==
    ~wiped => \A o \in Objs : Settled(o) =>
        IF obj[o].cert = "none" THEN obj[o].phase = "Failed"
        ELSE /\ obj[o].phase = "Ready" /\ obj[o].created
             /\ riak[obj[o].name] =
                  [exists |-> TRUE, source |-> TRUE, grants |-> Asked(obj[o].grants)]

\* Users are only made on a cluster whose security is enabled, although the
\* flag that says so is written by workers that do not wait for each other
\* (riakuser_controller.go:200-217).
SecuredBeforeUsers == \A n \in Names : flag \/ riak[n].exists => secured

\* "a deleted RiakUser does not leave a working identity behind"
\* (riakuser_controller.go:64): a username that was recorded as Ready is gone
\* from Riak when its object is, unless the cluster could not be asked.
DeletedLeavesNothing ==
    \A n \in Names : riak[n].exists /\ n \in provisioned /\ n \notin excused =>
        \E o \in Objs : obj[o].here /\ obj[o].name = n

\* "never provisioned in Riak" (riakuser_controller.go:70) is what the code
\* takes an unset status.created to mean when it skips the deletion.
NotCreatedMeansAbsent ==
    \A o \in Objs : pc[o] \in {"delete", "unfinal"} /\ ~snap[o].created => ~riak[Name(o)].exists

\* A deletion ends even if Riak never answers ("an unreachable cluster can
\* never wedge deletion", riakuser_controller.go:60).
DeletionEnds == \A o \in Objs : obj[o].deleting ~> ~obj[o].deleting

\* With the cluster Ready and its calls succeeding from some time on, every
\* object becomes Ready with nothing left to do, or goes: no wake-up is lost
\* between edits, conflicts and failures (RequeueAfter and the errors returned
\* by Reconcile are all that brings an unchanged object back).
Served(o) == /\ obj[o].phase = IF obj[o].cert = "none" THEN "Failed" ELSE "Ready"
             /\ Settled(o) \/ obj[o].cert = "external" \/ ~Usable(o)
GetsServed ==
    <>[](cluster = "ready") /\ SetbacksEnd => \A o \in Objs : []<>(Served(o) \/ ~obj[o].here)

\* status.certificateReady comes to say what is true of the certificate,
\* however often it is issued, replaced and lapses ("so rotation or expiry
\* reaches the status", certRequeue), except that a Certificate of cert-manager
\* that was once seen Ready is not looked at again, nor is its CommonName after
\* a change of username.
Reported(o) == \/ obj[o].certReady = Usable(o)
               \/ obj[o].cert = "issuer" /\ obj[o].certReady
CertificateReported ==
    <>[](cluster = "ready") /\ SetbacksEnd =>
        \A o \in Objs : <>[](obj[o].here /\ obj[o].cert # "none" /\ ~obj[o].deleting => Reported(o))
=============================================================================
