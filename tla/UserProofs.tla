----------------------------- MODULE UserProofs -----------------------------
(***************************************************************************)
(* Proofs about UserLifecycle, for every set of objects, usernames and     *)
(* grants and every number of workers.                                     *)
(***************************************************************************)
EXTENDS UserLifecycle, TLAPS

\* A leaf is Zenon's unless it names SMT.
USE ZenonT(30)

-----------------------------------------------------------------------------
(* Grants *)

\* GrantUserPermissions, which makes one call for each target, asks for what
\* grants of the spec ask for.
LEMMA CallsHeld ==
    ASSUME NEW grants \in GrantLists \cup {{}}, NEW c \in GrantCalls(grants),
           ~TargetFails(c.resource, c.bucket)
    PROVE  Pairs(c) \subseteq Held
<1> DEFINE OnTarget(g) == {k \in grants : k.resource = g.resource /\ k.bucket = g.bucket}
           Alone(g) == [resource |-> g.resource, bucket |-> g.bucket,
                        tokens |-> riakKVPermissions(g.permission)]
<1>1. PICK g \in grants : /\ c.resource = g.resource /\ c.bucket = g.bucket
                         /\ c.tokens = permissionTokens({h.permission : h \in OnTarget(g)})
  <2> DEFINE Call(g) == [resource |-> g.resource, bucket |-> g.bucket,
                         tokens |-> permissionTokens({h.permission : h \in OnTarget(g)})]
  <2>1. PICK g \in grants : c = Call(g)
    BY DEF GrantCalls
  <2> QED
    BY <2>1
<1>2. PICK key : \A d : d.resource = c.resource /\ d.bucket = c.bucket => Pairs(d) = {key} \X d.tokens
  BY DEF Pairs
<1>3. ASSUME NEW x \in Pairs(c) PROVE x \in Asked(grants)
  <2>1. PICK t \in c.tokens : x = <<key, t>>
    BY <1>2, SMTT(30)
  <2>2. PICK h \in OnTarget(g) : t \in riakKVPermissions(h.permission)
    BY <1>1, <2>1 DEF permissionTokens
  <2>3. x \in Pairs(Alone(h))
    BY <1>1, <1>2, <2>1, <2>2
  <2> QED
    BY <1>1, <2>2, <2>3 DEF Asked
<1> QED
  BY <1>1, <1>3 DEF Held

(***************************************************************************)
(* The calls of a pass: those that grant cover what the spec asks for, and *)
(* those that revoke take away exactly what the user holds and the spec    *)
(* does not ask for.  The last section shows it, from what print-grants is *)
(* read as.                                                                *)
(***************************************************************************)
Exact(calls, held, grants) ==
    /\ \A c \in calls : ~TargetFails(c.resource, c.bucket) /\ Pairs(c) \subseteq held \ Asked(grants)
    /\ \A x \in held \ Asked(grants) : \E c \in calls : x \in Pairs(c)
CallsAreExact ==
    /\ \A grants \in GrantLists \cup {{}} : \A x \in Asked(grants) :
         \E c \in GrantCalls(grants) : ~TargetFails(c.resource, c.bucket) /\ x \in Pairs(c)
    /\ \A held \in SUBSET Held, grants \in GrantLists \cup {{}} :
         Exact(RevokeCalls(parseDedicatedGrants(PrintGrants(held, Inherited, Width)), grants), held, grants)

-----------------------------------------------------------------------------
(***************************************************************************)
(* Shapes: the type invariant but for the calls of a pass that revokes,    *)
(* which depend on what print-grants is read as.  A pass has an object     *)
(* that exists, and grants what its copy of the spec asks for.             *)
(***************************************************************************)
Shape ==
    /\ obj \in [Objs -> Objects] /\ snap \in [Objs -> Objects]
    /\ cluster \in {"missing", "notready", "ready"}
    /\ flag \in BOOLEAN /\ secured \in BOOLEAN
    /\ riak \in [Names -> RiakUsers]
    /\ queued \subseteq Objs
    /\ pc \in [Objs -> {"idle", "admit", "cluster", "delete", "unfinal"} \cup Calls]
    /\ stale \in [Objs -> BOOLEAN]
    /\ crt \in [Objs -> Certificates] /\ expired \in [Objs -> BOOLEAN]
    /\ provisioned \subseteq Names /\ excused \subseteq Names /\ wiped \in BOOLEAN
Bounded == edits \in 0 .. MaxEdits /\ outages \in 0 .. MaxOutages /\ restarts \in 0 .. MaxRestarts
TodoShape ==
    /\ todo = [o \in Objs |-> todo[o]]
    /\ \A o \in Objs : pc[o] = "grant" => todo[o] \subseteq GrantCalls(snap[o].grants)
Named ==
    /\ \A o \in Objs : obj[o].here => obj[o].name \in Names
    /\ \A o \in Objs : pc[o] # "idle" => snap[o].here /\ snap[o].name \in Names
ShapeInv == Shape /\ Bounded /\ TodoShape /\ Named

LEMMA BlankTypes ==
    /\ NoObj \in Objects /\ NoUser \in RiakUsers /\ NoCert \in Certificates
    /\ ~NoObj.here /\ ~NoObj.deleting /\ ~NoObj.final /\ ~NoObj.created
BY DEF NoObj, Objects, NoUser, RiakUsers, NoCert, Certificates

LEMMA PassData ==
    ASSUME ShapeInv, NEW o \in Objs
    PROVE  /\ obj[o] \in Objects /\ snap[o] \in Objects /\ Name(o) = snap[o].name
           /\ pc[o] # "idle" => Name(o) \in Names /\ riak[Name(o)] \in RiakUsers
BY DEF ShapeInv, Shape, Named, Name

LEMMA EndPassShape ==
    ASSUME ShapeInv, NEW o \in Objs, EndPass(o)
    PROVE  /\ snap' \in [Objs -> Objects] /\ stale' \in [Objs -> BOOLEAN]
           /\ pc' \in [Objs -> {"idle", "admit", "cluster", "delete", "unfinal"} \cup Calls]
           /\ pc'[o] = "idle" /\ snap'[o] = NoObj /\ ~stale'[o]
           /\ \A p \in Objs \ {o} : pc'[p] = pc[p] /\ snap'[p] = snap[p] /\ stale'[p] = stale[p]
           /\ TodoShape'
<1>1. /\ snap' \in [Objs -> Objects] /\ stale' \in [Objs -> BOOLEAN]
      /\ pc' \in [Objs -> {"idle", "admit", "cluster", "delete", "unfinal"} \cup Calls]
      /\ pc'[o] = "idle" /\ snap'[o] = NoObj /\ ~stale'[o]
      /\ \A p \in Objs \ {o} : pc'[p] = pc[p] /\ snap'[p] = snap[p] /\ stale'[p] = stale[p]
  BY BlankTypes DEF EndPass, ShapeInv, Shape
<1>2. todo' = [p \in Objs |-> todo'[p]] /\ \A p \in Objs \ {o} : todo'[p] = todo[p]
  BY DEF EndPass, ShapeInv, TodoShape
<1> QED
  BY <1>1, <1>2 DEF ShapeInv, TodoShape

LEMMA WriteShape ==
    ASSUME ShapeInv, NEW o \in Objs, NEW v \in Objects, Write(o, v)
    PROVE  /\ obj' \in [Objs -> Objects] /\ obj'[o] = (IF stale[o] THEN obj[o] ELSE v)
           /\ \A p \in Objs \ {o} : obj'[p] = obj[p]
BY DEF Write, ShapeInv, Shape

PassStep(o) == \/ StartPass(o) \/ Provision(o) \/ CallFails(o) \/ UserCertificateFails(o)
               \/ Deletion(o)

\* What Admit writes
Admitted(x) ==
    [x EXCEPT !.final = TRUE,
              !.phase = IF x.cert = "none" THEN "Failed" ELSE IF @ = "" THEN "Creating" ELSE @]

LEMMA AdmittedData ==
    ASSUME NEW x \in Objects
    PROVE  /\ Admitted(x) \in Objects /\ Admitted(x).final
           /\ Admitted(x).here = x.here /\ Admitted(x).deleting = x.deleting
           /\ Admitted(x).name = x.name /\ Admitted(x).grants = x.grants
           /\ Admitted(x).cert = x.cert /\ Admitted(x).created = x.created
           /\ x.cert = "none" => Admitted(x).phase = "Failed"
<1> DEFINE ph == IF x.cert = "none" THEN "Failed" ELSE IF x.phase = "" THEN "Creating" ELSE x.phase
<1>1. ph \in {"", "Creating", "Ready", "Failed"} /\ (x.cert = "none" => ph = "Failed")
  BY DEF Objects
<1>2. Admitted(x) = [x EXCEPT !.final = TRUE, !.phase = ph]
  BY DEF Admitted
<1> HIDE DEF ph
<1> QED
  BY <1>1, <1>2 DEF Objects

LEMMA AdmitCases ==
    ASSUME NEW o \in Objs, Admit(o)
    PROVE  /\ pc[o] = "admit" /\ Write(o, Admitted(snap[o]))
           /\ \/ Admitted(snap[o]) # snap[o] /\ stale[o] /\ Requeue(o)
              \/ /\ Admitted(snap[o]) = snap[o] \/ ~stale[o]
                 /\ snap[o].cert = "none" /\ EndPass(o) /\ UNCHANGED queued
              \/ /\ Admitted(snap[o]) = snap[o] \/ ~stale[o]
                 /\ snap[o].cert # "none" /\ Goto(o, "cluster")
                 /\ snap' = [snap EXCEPT ![o] = Admitted(snap[o])] /\ UNCHANGED <<stale, todo, queued>>
           /\ UNCHANGED <<cluster, flag, riak, secured, crt, expired, boundVars, histVars>>
<1> DEFINE v == Admitted(snap[o])
<1>1. /\ pc[o] = "admit" /\ Write(o, v)
      /\ IF v # snap[o] /\ stale[o] THEN Requeue(o)
         ELSE IF snap[o].cert = "none" THEN EndPass(o) /\ UNCHANGED queued
         ELSE /\ Goto(o, "cluster") /\ snap' = [snap EXCEPT ![o] = v]
              /\ UNCHANGED <<stale, todo, queued>>
      /\ UNCHANGED <<cluster, flag, riak, secured, crt, expired, boundVars, histVars>>
  BY DEF Admit, Admitted
<1> HIDE DEF v
<1> QED
  BY <1>1 DEF v

LEMMA ProvisionShape == ASSUME ShapeInv, NEW o \in Objs, Provision(o) PROVE Shape' /\ TodoShape'
<1>1. /\ Shape /\ TodoShape /\ obj[o] \in Objects /\ snap[o] \in Objects /\ Name(o) = snap[o].name
      /\ pc[o] # "idle" => Name(o) \in Names /\ riak[Name(o)] \in RiakUsers
  BY PassData DEF ShapeInv
<1>3. CASE Admit(o)
  <2> DEFINE v == Admitted(snap[o])
  <2>1. v \in Objects
    BY <1>1, AdmittedData
  <2>2. /\ pc[o] = "admit" /\ Write(o, v)
        /\ \/ Requeue(o)
           \/ EndPass(o) /\ UNCHANGED queued
           \/ Goto(o, "cluster") /\ snap' = [snap EXCEPT ![o] = v] /\ UNCHANGED <<stale, todo, queued>>
        /\ UNCHANGED <<cluster, flag, riak, secured, crt, expired, boundVars, histVars>>
    BY <1>3, AdmitCases
  <2> HIDE DEF v
  <2>3. CASE EndPass(o)
    <3>1. queued' \subseteq Objs
      BY <1>1, <2>2 DEF Requeue, Shape
    <3> QED
      BY <1>1, <2>1, <2>2, <2>3, <3>1, EndPassShape, WriteShape DEF Shape, histVars
  <2>4. CASE Goto(o, "cluster") /\ snap' = [snap EXCEPT ![o] = v] /\ UNCHANGED <<stale, todo, queued>>
    <3>1. Shape'
      BY <1>1, <2>1, <2>2, <2>4, WriteShape DEF Shape, Goto, histVars, Calls
    <3> QED
      BY <1>1, <2>4, <3>1 DEF TodoShape, Shape, Goto
  <2> QED
    BY <2>2, <2>3, <2>4 DEF Requeue
<1>4. ASSUME FailUser(o)
      PROVE  /\ obj' \in [Objs -> Objects] /\ snap' \in [Objs -> Objects]
             /\ pc' \in [Objs -> {"idle", "admit", "cluster", "delete", "unfinal"} \cup Calls]
             /\ stale' \in [Objs -> BOOLEAN] /\ queued' \subseteq Objs /\ TodoShape'
  <2>1. [snap[o] EXCEPT !.phase = "Failed"] \in Objects
    BY <1>1 DEF Objects
  <2> QED
    BY <1>1, <1>4, <2>1, EndPassShape, WriteShape DEF FailUser, Requeue, Shape
<1>5. CASE CheckCluster(o)
  <2>1. crt' \in [Objs -> Certificates]
    <3>1. [st |-> NewCert, cn |-> Name(o)] \in Certificates
      BY <1>1, <1>5, UserAssumption DEF CheckCluster, Certificates
    <3> QED
      BY <1>1, <1>5, <3>1 DEF CheckCluster, ReconcileUserCertificate, Shape
  <2>2. CASE cluster = "missing"
    BY <1>1, <1>4, <1>5, <2>1, <2>2 DEF CheckCluster, Shape, histVars
  <2>3. CASE cluster = "notready"
    <3>1. EndPass(o) /\ queued' = queued \cup {o} /\ UNCHANGED obj
      BY <1>5, <2>3 DEF CheckCluster, Requeue
    <3> QED
      BY <1>1, <1>5, <2>1, <3>1, EndPassShape DEF CheckCluster, Shape, histVars
  <2>4. CASE cluster = "ready"
    <3>1. Goto(o, IF flag THEN "create" ELSE "secure") /\ UNCHANGED <<obj, queued, snap, stale, todo>>
      BY <1>5, <2>4 DEF CheckCluster
    <3>2. Shape'
      BY <1>1, <1>5, <2>1, <3>1 DEF CheckCluster, Shape, Goto, histVars, Calls
    <3> QED
      BY <1>1, <3>1, <3>2 DEF TodoShape, Shape, Goto
  <2> QED
    BY <1>1, <2>2, <2>3, <2>4 DEF Shape
<1>6. CASE EnableSecurity(o) \/ RecordSecurity(o)
  <2>1. Shape'
    BY <1>1, <1>6 DEF EnableSecurity, RecordSecurity, Shape, Goto, histVars, Calls
  <2> QED
    BY <1>1, <1>6, <2>1 DEF EnableSecurity, RecordSecurity, TodoShape, Shape, Goto
<1>7. CASE RecordSecurityFails(o)
  BY <1>1, <1>7, EndPassShape DEF RecordSecurityFails, Requeue, Shape, histVars
<1>8. CASE CreateUserForCert(o)
  <2>1. riak' \in [Names -> RiakUsers]
    BY <1>1, <1>8 DEF CreateUserForCert, Shape, RiakUsers
  <2>2. Shape'
    BY <1>1, <1>8, <2>1 DEF CreateUserForCert, Shape, Goto, histVars, Calls
  <2> QED
    BY <1>1, <1>8, <2>2 DEF CreateUserForCert, TodoShape, Shape, Goto
<1>9. CASE AddSecuritySource(o)
  <2>1. riak' \in [Names -> RiakUsers]
    BY <1>1, <1>9 DEF AddSecuritySource, Shape, RiakUsers
  <2>2. Shape'
    BY <1>1, <1>9, <2>1 DEF AddSecuritySource, Shape, Goto, histVars, Calls
  <2>3. todo' = [p \in Objs |-> todo'[p]] /\ todo'[o] = GrantCalls(snap[o].grants)
        /\ \A p \in Objs \ {o} : todo'[p] = todo[p] /\ pc'[p] = pc[p]
    BY <1>1, <1>9 DEF AddSecuritySource, TodoShape, Goto, Shape
  <2> QED
    BY <1>1, <1>9, <2>2, <2>3 DEF AddSecuritySource, TodoShape
<1>10. CASE GrantPermissions(o)
  <2>1. PICK c \in todo[o] : /\ ~TargetFails(c.resource, c.bucket)
                             /\ riak' = [riak EXCEPT ![Name(o)].grants = @ \cup Pairs(c)]
                             /\ todo' = [todo EXCEPT ![o] = @ \ {c}]
    BY <1>10 DEF GrantPermissions
  <2>2. Pairs(c) \subseteq Held
    <3>1. c \in GrantCalls(snap[o].grants) /\ snap[o].grants \in GrantLists \cup {{}}
      BY <1>1, <1>10 DEF GrantPermissions, TodoShape, Objects
    <3> QED
      BY <2>1, <3>1, CallsHeld
  <2>3. riak' \in [Names -> RiakUsers]
    BY <1>1, <1>10, <2>1, <2>2 DEF GrantPermissions, Shape, RiakUsers
  <2>4. TodoShape'
    BY <1>1, <1>10, <2>1 DEF GrantPermissions, TodoShape
  <2> QED
    BY <1>1, <1>10, <2>3, <2>4 DEF GrantPermissions, Shape, histVars
<1>11. CASE GetUserGrants(o)
  <2>1. Shape'
    BY <1>1, <1>11 DEF GetUserGrants, Shape, Goto, histVars, Calls
  <2>2. /\ todo' = [p \in Objs |-> todo'[p]] /\ pc'[o] = "revoke"
        /\ \A p \in Objs \ {o} : todo'[p] = todo[p] /\ pc'[p] = pc[p]
    BY <1>1, <1>11 DEF GetUserGrants, TodoShape, Goto, Shape
  <2> QED
    BY <1>1, <1>11, <2>1, <2>2 DEF GetUserGrants, TodoShape
<1>12. CASE RevokePermissions(o)
  <2>1. PICK c \in todo[o] : /\ riak' = [riak EXCEPT ![Name(o)].grants = @ \ Pairs(c)]
                             /\ todo' = [todo EXCEPT ![o] = @ \ {c}]
    BY <1>12 DEF RevokePermissions
  <2>2. riak' \in [Names -> RiakUsers]
    BY <1>1, <1>12, <2>1 DEF RevokePermissions, Shape, RiakUsers
  <2>3. TodoShape'
    BY <1>1, <1>12, <2>1 DEF RevokePermissions, TodoShape
  <2> QED
    BY <1>1, <1>12, <2>2, <2>3 DEF RevokePermissions, Shape, histVars
<1>13. CASE MarkUserReady(o)
  <2>1. [snap[o] EXCEPT !.phase = "Ready", !.created = TRUE, !.certReady = userCertificateReady(o)] \in Objects
    <3>1. userCertificateReady(o) \in BOOLEAN
      BY DEF userCertificateReady, verifyClientCert
    <3> QED
      BY <1>1, <3>1 DEF Objects
  <2>2. EndPass(o) /\ queued' \subseteq Objs /\ provisioned' \subseteq Names
    BY <1>1, <1>13 DEF MarkUserReady, Requeue, Shape
  <2> QED
    BY <1>1, <1>13, <2>1, <2>2, EndPassShape, WriteShape DEF MarkUserReady, Shape
<1> QED
  BY <1>3, <1>5, <1>6, <1>7, <1>8, <1>9, <1>10, <1>11, <1>12, <1>13 DEF Provision

\* What a pass writes is its object, further on.
Kin(x, y) ==
    /\ x.here = y.here /\ x.deleting = y.deleting /\ x.name = y.name
    /\ x.grants = y.grants /\ x.cert = y.cert
    /\ (y.created => x.created) /\ (y.final => x.final)

LEMMA FailedData ==
    ASSUME NEW x \in Objects
    PROVE  /\ [x EXCEPT !.phase = "Failed"] \in Objects
           /\ Kin([x EXCEPT !.phase = "Failed"], x)
           /\ [x EXCEPT !.phase = "Failed", !.certReady = FALSE] \in Objects
           /\ Kin([x EXCEPT !.phase = "Failed", !.certReady = FALSE], x)
<1>1. [x EXCEPT !.phase = "Failed"] \in Objects /\ Kin([x EXCEPT !.phase = "Failed"], x)
  BY DEF Objects, Kin
<1>2. [x EXCEPT !.phase = "Failed", !.certReady = FALSE] \in Objects
  BY DEF Objects
<1>3. Kin([x EXCEPT !.phase = "Failed", !.certReady = FALSE], x)
  BY DEF Objects, Kin
<1> QED
  BY <1>1, <1>2, <1>3

LEMMA FailureShape == ASSUME ShapeInv, NEW o \in Objs, CallFails(o) \/ UserCertificateFails(o)
                      PROVE  Shape' /\ TodoShape'
<1>1. /\ Shape /\ TodoShape /\ obj[o] \in Objects /\ snap[o] \in Objects
      /\ pc[o] # "idle" => Name(o) \in Names /\ riak[Name(o)] \in RiakUsers
  BY PassData DEF ShapeInv
<1>2. /\ [snap[o] EXCEPT !.phase = "Failed"] \in Objects
      /\ [snap[o] EXCEPT !.phase = "Failed", !.certReady = FALSE] \in Objects
  BY <1>1, FailedData
<1>3. /\ obj' \in [Objs -> Objects] /\ EndPass(o) /\ queued' \subseteq Objs
  BY <1>1, <1>2, WriteShape DEF CallFails, UserCertificateFails, FailUser, Requeue, Shape
<1>4. riak' \in [Names -> RiakUsers] /\ secured' \in BOOLEAN
  <2>1. CASE UNCHANGED riak /\ secured' \in {TRUE, secured}
    BY <1>1, <2>1 DEF Shape
  <2>2. CASE /\ pc[o] # "idle" /\ UNCHANGED secured
             /\ \/ riak' = [riak EXCEPT ![Name(o)].exists = TRUE]
                \/ riak' = [riak EXCEPT ![Name(o)].source = TRUE]
    <3>1. /\ riak \in [Names -> RiakUsers] /\ Name(o) \in Names /\ riak[Name(o)] \in RiakUsers
          /\ secured' \in BOOLEAN
      BY <1>1, <2>2 DEF Shape
    <3>2. CASE riak' = [riak EXCEPT ![Name(o)].exists = TRUE]
      BY <3>1, <3>2 DEF RiakUsers
    <3>3. CASE riak' = [riak EXCEPT ![Name(o)].source = TRUE]
      BY <3>1, <3>3 DEF RiakUsers
    <3> QED
      BY <2>2, <3>2, <3>3
  <2>3. ASSUME NEW c \in todo[o], pc[o] \in Calls, ~TargetFails(c.resource, c.bucket), UNCHANGED secured,
               riak' = [riak EXCEPT ![Name(o)].grants =
                           IF pc[o] = "grant" THEN @ \cup Pairs(c) ELSE @ \ Pairs(c)]
        PROVE  riak' \in [Names -> RiakUsers] /\ secured' \in BOOLEAN
    <3>1. snap[o].grants \in GrantLists \cup {{}} /\ Name(o) \in Names /\ riak[Name(o)] \in RiakUsers
      BY <1>1, <2>3 DEF Objects, Calls
    <3>2. pc[o] = "grant" => Pairs(c) \subseteq Held
      BY <1>1, <2>3, <3>1, CallsHeld DEF TodoShape
    <3> QED
      BY <1>1, <2>3, <3>1, <3>2 DEF Shape, RiakUsers
  <2>4. CASE UserCertificateFails(o)
    BY <2>1, <2>4 DEF UserCertificateFails
  <2>5. CASE CallFails(o)
    <3>1. pc[o] \in Calls /\ pc[o] # "idle"
      BY <2>5 DEF CallFails, Calls
    <3> QED
      BY <2>1, <2>2, <2>3, <2>5, <3>1 DEF CallFails
  <2> QED
    BY <2>4, <2>5
<1> QED
  BY <1>1, <1>3, <1>4, EndPassShape DEF CallFails, UserCertificateFails, Shape, histVars

LEMMA DeletionShape == ASSUME ShapeInv, NEW o \in Objs, StartPass(o) \/ Deletion(o)
                       PROVE  Shape' /\ TodoShape'
<1>1. /\ Shape /\ TodoShape /\ obj[o] \in Objects /\ snap[o] \in Objects
      /\ pc[o] # "idle" => Name(o) \in Names /\ riak[Name(o)] \in RiakUsers
  BY PassData DEF ShapeInv
<1>2. CASE StartPass(o)
  <2>1. Shape'
    BY <1>1, <1>2 DEF StartPass, Goto, Shape, histVars
  <2>2. \A p \in Objs : pc'[p] = "grant" => pc[p] = "grant" /\ snap'[p] = snap[p]
    BY <1>1, <1>2, SMTT(30) DEF StartPass, Goto, Shape
  <2> QED
    BY <1>1, <1>2, <2>1, <2>2 DEF StartPass, TodoShape
<1>3. ASSUME Goto(o, "unfinal"), UNCHANGED <<snap, stale, todo>>
      PROVE  /\ pc' \in [Objs -> {"idle", "admit", "cluster", "delete", "unfinal"} \cup Calls]
             /\ TodoShape'
  BY <1>1, <1>3 DEF Goto, Shape, TodoShape
<1>4. CASE DeleteNothing(o)
  BY <1>1, <1>3, <1>4 DEF DeleteNothing, Shape
<1>5. CASE DeleteUser(o) \/ DeleteUserFails(o)
  <2>1. riak' \in [Names -> RiakUsers] /\ provisioned' \subseteq Names /\ excused' \subseteq Names
    BY <1>1, <1>5, BlankTypes DEF DeleteUser, DeleteUserFails, Shape
  <2>2. CASE Goto(o, "unfinal") /\ UNCHANGED <<snap, stale, todo, queued>>
    BY <1>1, <1>3, <1>5, <2>1, <2>2 DEF DeleteUser, DeleteUserFails, Shape
  <2>3. CASE EndPass(o) /\ queued' = queued \cup {o}
    BY <1>1, <1>5, <2>1, <2>3, EndPassShape DEF DeleteUser, DeleteUserFails, Shape
  <2> QED
    BY <1>5, <2>2, <2>3 DEF DeleteUser, DeleteUserFails, Requeue
<1>6. CASE RemoveFinalizer(o)
  <2>1. /\ obj' \in [Objs -> Objects] /\ EndPass(o) /\ queued' \subseteq Objs
        /\ crt' \in [Objs -> Certificates] /\ expired' \in [Objs -> BOOLEAN]
    BY <1>1, <1>6, BlankTypes, WriteShape DEF RemoveFinalizer, Requeue, Shape
  <2> QED
    BY <1>1, <1>6, <2>1, EndPassShape DEF RemoveFinalizer, Shape, histVars
<1> QED
  BY <1>2, <1>4, <1>5, <1>6 DEF Deletion

-----------------------------------------------------------------------------
(* The ways a step of a pass may end *)

LEMMA PassCases ==
    ASSUME ShapeInv, NEW o \in Objs, PassStep(o)
    PROVE  \/ StartPass(o)
           \/ Admit(o)
           \/ MarkUserReady(o)
           \/ RemoveFinalizer(o)
           \/ UNCHANGED <<obj, snap, stale, queued>> /\ pc'[o] # "idle" /\ pc[o] \notin {"idle", "admit"}
           \/ UNCHANGED obj /\ Requeue(o) /\ pc[o] \notin {"idle", "admit"}
           \/ /\ pc[o] \notin {"idle", "admit"} /\ Requeue(o)
              /\ \E v \in Objects : Kin(v, snap[o]) /\ Write(o, v)
<1>1. snap[o] \in Objects /\ pc \in [Objs -> {"idle", "admit", "cluster", "delete", "unfinal"} \cup Calls]
  BY PassData DEF ShapeInv, Shape
<1> DEFINE Failing == /\ pc[o] \notin {"idle", "admit"} /\ Requeue(o)
                      /\ \E v \in Objects : Kin(v, snap[o]) /\ Write(o, v)
           Going == UNCHANGED <<obj, snap, stale, queued>> /\ pc'[o] # "idle" /\ pc[o] \notin {"idle", "admit"}
           Ending == UNCHANGED obj /\ Requeue(o) /\ pc[o] \notin {"idle", "admit"}
<1>2. ASSUME FailUser(o), pc[o] \notin {"idle", "admit"} PROVE Failing
  BY <1>1, <1>2, FailedData DEF FailUser
<1>3. CASE UserCertificateFails(o)
  <2>1. Failing
    BY <1>1, <1>3, FailedData DEF UserCertificateFails
  <2> QED
    BY <2>1
<1>4. CASE CallFails(o)
  <2>1. Failing
    BY <1>2, <1>4 DEF CallFails
  <2> QED
    BY <2>1
<1>5. CASE CheckCluster(o)
  <2>1. cluster \in {"missing", "notready", "ready"}
    BY DEF ShapeInv, Shape
  <2>2. CASE cluster = "missing"
    <3>1. Failing
      BY <1>2, <1>5, <2>2 DEF CheckCluster
    <3> QED
      BY <3>1
  <2>3. CASE cluster = "notready"
    BY <1>5, <2>3 DEF CheckCluster
  <2>4. CASE cluster = "ready"
    <3>1. Going
      BY <1>1, <1>5, <2>4 DEF CheckCluster, Goto
    <3> QED
      BY <3>1
  <2> QED
    BY <2>1, <2>2, <2>3, <2>4
<1>6. CASE RecordSecurityFails(o)
  BY <1>6 DEF RecordSecurityFails
<1>7. CASE \/ EnableSecurity(o) \/ RecordSecurity(o) \/ CreateUserForCert(o) \/ AddSecuritySource(o)
           \/ GetUserGrants(o) \/ GrantPermissions(o) \/ RevokePermissions(o) \/ DeleteNothing(o)
           \/ DeleteUser(o)
  <2>1. Going
    BY <1>1, <1>7 DEF EnableSecurity, RecordSecurity, CreateUserForCert, AddSecuritySource,
         GetUserGrants, GrantPermissions, RevokePermissions, DeleteNothing, DeleteUser, Goto
  <2> QED
    BY <2>1
<1>8. CASE DeleteUserFails(o)
  <2>1. Going \/ Ending
    BY <1>1, <1>8 DEF DeleteUserFails, Goto
  <2> QED
    BY <2>1
<1> QED
  BY <1>3, <1>4, <1>5, <1>6, <1>7, <1>8 DEF PassStep, Provision, Deletion

\* A pass leaves other objects and passes alone, and touches no user of Riak
\* but its own.
LEMMA PassFrame ==
    ASSUME ShapeInv, NEW o \in Objs, PassStep(o)
    PROVE  /\ \A p \in Objs \ {o} : /\ obj'[p] = obj[p] /\ snap'[p] = snap[p] /\ pc'[p] = pc[p]
                                    /\ stale'[p] = stale[p] /\ todo'[p] = todo[p]
                                    /\ p \in queued' <=> p \in queued
           /\ \A n \in Names \ {Name(o)} : riak'[n] = riak[n]
           /\ UNCHANGED <<cluster, boundVars, wiped>>
<1>1. Shape /\ TodoShape
  BY DEF ShapeInv
<1>2. /\ UNCHANGED <<cluster, boundVars, wiped>>
      /\ \A p \in Objs \ {o} : p \in queued' <=> p \in queued
  <2>1. UNCHANGED <<cluster, boundVars, wiped>>
    BY DEF PassStep, StartPass, Provision, Admit, CheckCluster, EnableSecurity, RecordSecurity,
           RecordSecurityFails, CreateUserForCert, AddSecuritySource, GetUserGrants, GrantPermissions,
           RevokePermissions, MarkUserReady, CallFails, UserCertificateFails, Deletion, DeleteNothing,
           DeleteUser, DeleteUserFails, RemoveFinalizer, histVars
  <2>2. queued' \in {queued, queued \cup {o}, queued \ {o}}
    BY PassCases, AdmitCases DEF StartPass, MarkUserReady, RemoveFinalizer, Requeue
  <2> QED
    BY <2>1, <2>2
<1>3. \A n \in Names \ {Name(o)} : riak'[n] = riak[n]
  <2>1. CASE UNCHANGED riak
    BY <2>1
  <2>2. CASE \/ CreateUserForCert(o) \/ AddSecuritySource(o) \/ GrantPermissions(o)
             \/ RevokePermissions(o) \/ DeleteUser(o) \/ DeleteUserFails(o) \/ CallFails(o)
    BY <1>1, <2>2 DEF CreateUserForCert, AddSecuritySource, GrantPermissions, RevokePermissions,
         DeleteUser, DeleteUserFails, CallFails, Shape
  <2> QED
    BY <2>1, <2>2 DEF PassStep, StartPass, Provision, Admit, CheckCluster, EnableSecurity,
         RecordSecurity, RecordSecurityFails, GetUserGrants, MarkUserReady, UserCertificateFails,
         Deletion, DeleteNothing, RemoveFinalizer
<1>4. ASSUME NEW l, Goto(o, l) PROVE \A p \in Objs \ {o} : pc'[p] = pc[p]
  BY <1>1, <1>4 DEF Goto, Shape
<1>5. ASSUME EndPass(o)
      PROVE  \A p \in Objs \ {o} : /\ snap'[p] = snap[p] /\ pc'[p] = pc[p]
                                   /\ stale'[p] = stale[p] /\ todo'[p] = todo[p]
  BY <1>1, <1>5 DEF EndPass, Shape, TodoShape
<1>6. ASSUME NEW v, Write(o, v) PROVE \A p \in Objs \ {o} : obj'[p] = obj[p]
  BY <1>1, <1>6 DEF Write, Shape
<1>7. \A p \in Objs \ {o} : obj'[p] = obj[p] /\ snap'[p] = snap[p] /\ stale'[p] = stale[p]
  <2>1. CASE StartPass(o)
    BY <1>1, <2>1 DEF StartPass, Shape
  <2>2. CASE Admit(o)
    BY <1>1, <1>5, <1>6, <2>2, AdmitCases DEF Requeue, Shape
  <2>3. CASE MarkUserReady(o)
    BY <1>5, <1>6, <2>3 DEF MarkUserReady, Requeue
  <2>4. CASE RemoveFinalizer(o)
    BY <1>5, <1>6, <2>4 DEF RemoveFinalizer, Requeue
  <2> QED
    BY <1>5, <1>6, <2>1, <2>2, <2>3, <2>4, PassCases DEF Requeue
<1>8. \A p \in Objs \ {o} : pc'[p] = pc[p] /\ todo'[p] = todo[p]
  <2>1. CASE StartPass(o)
    BY <1>4, <2>1 DEF StartPass
  <2>2. CASE Admit(o)
    BY <1>4, <1>5, <2>2, AdmitCases DEF Requeue
  <2>3. CASE CheckCluster(o)
    <3>1. cluster \in {"missing", "notready", "ready"}
      BY <1>1 DEF Shape
    <3> QED
      BY <1>4, <1>5, <2>3, <3>1 DEF CheckCluster, FailUser, Requeue
  <2>4. CASE \/ EnableSecurity(o) \/ RecordSecurity(o) \/ CreateUserForCert(o) \/ DeleteNothing(o)
             \/ DeleteUser(o)
    BY <1>4, <2>4 DEF EnableSecurity, RecordSecurity, CreateUserForCert, DeleteNothing, DeleteUser
  <2>5. CASE AddSecuritySource(o) \/ GetUserGrants(o) \/ GrantPermissions(o) \/ RevokePermissions(o)
    <3>1. \A p \in Objs \ {o} : todo'[p] = todo[p]
      BY <1>1, <2>5 DEF AddSecuritySource, GetUserGrants, GrantPermissions, RevokePermissions, TodoShape
    <3> QED
      BY <1>4, <2>5, <3>1 DEF AddSecuritySource, GetUserGrants, GrantPermissions, RevokePermissions
  <2>6. CASE \/ RecordSecurityFails(o) \/ MarkUserReady(o) \/ RemoveFinalizer(o)
             \/ CallFails(o) \/ UserCertificateFails(o)
    BY <1>5, <2>6 DEF RecordSecurityFails, MarkUserReady, RemoveFinalizer, CallFails,
         UserCertificateFails, FailUser, Requeue
  <2>7. CASE DeleteUserFails(o)
    BY <1>4, <1>5, <2>7 DEF DeleteUserFails, Requeue
  <2> QED
    BY <2>1, <2>2, <2>3, <2>4, <2>5, <2>6, <2>7 DEF PassStep, Provision, Deletion
<1> QED
  BY <1>2, <1>3, <1>7, <1>8

\* What becomes of the object and of the copy of a pass that is under way
LEMMA PassObject ==
    ASSUME ShapeInv, NEW o \in Objs, PassStep(o), pc[o] # "idle"
    PROVE  /\ \/ obj'[o] = obj[o]
              \/ ~stale[o] /\ Kin(obj'[o], snap[o])
              \/ ~stale[o] /\ RemoveFinalizer(o) /\ obj'[o] = NoObj
           /\ \/ pc'[o] = "idle" /\ snap'[o] = NoObj /\ ~stale'[o]
              \/ /\ pc'[o] # "idle" /\ Kin(snap'[o], snap[o]) /\ stale'[o] = stale[o]
                 /\ ~stale[o] => \/ obj'[o] = snap'[o]
                                 \/ obj'[o] = obj[o] /\ snap'[o] = snap[o]
<1>1. obj[o] \in Objects /\ snap[o] \in Objects /\ Kin(snap[o], snap[o])
  BY PassData DEF Kin
<1>2. CASE StartPass(o)
  BY <1>2 DEF StartPass
<1>3. CASE Admit(o)
  <2>1. Admitted(snap[o]) \in Objects /\ Kin(Admitted(snap[o]), snap[o])
    BY <1>1, AdmittedData DEF Kin
  <2>2. Write(o, Admitted(snap[o])) /\ obj'[o] = IF stale[o] THEN obj[o] ELSE Admitted(snap[o])
    BY <1>3, <2>1, AdmitCases, WriteShape
  <2>3. CASE EndPass(o)
    BY <2>1, <2>2, <2>3, EndPassShape
  <2>4. CASE ~EndPass(o)
    <3>1. /\ pc' = [pc EXCEPT ![o] = "cluster"] /\ snap' = [snap EXCEPT ![o] = Admitted(snap[o])]
          /\ UNCHANGED stale
      BY <1>3, <2>4, AdmitCases DEF Requeue, Goto
    <3>2. pc'[o] = "cluster" /\ snap'[o] = Admitted(snap[o])
      BY <3>1 DEF ShapeInv, Shape
    <3> QED
      BY <2>1, <2>2, <3>1, <3>2
  <2> QED
    BY <2>3, <2>4
<1>4. ASSUME EndPass(o), NEW v \in Objects, Write(o, v)
      PROVE  /\ obj'[o] = (IF stale[o] THEN obj[o] ELSE v)
             /\ pc'[o] = "idle" /\ snap'[o] = NoObj /\ ~stale'[o]
  BY <1>4, EndPassShape, WriteShape
<1>5. CASE MarkUserReady(o)
  <2> DEFINE v == [snap[o] EXCEPT !.phase = "Ready", !.created = TRUE, !.certReady = userCertificateReady(o)]
  <2>1. v \in Objects /\ Kin(v, snap[o])
    <3>1. userCertificateReady(o) \in BOOLEAN
      BY DEF userCertificateReady, verifyClientCert
    <3>2. v \in Objects
      BY <1>1, <3>1 DEF Objects
    <3> QED
      BY <1>1, <3>2 DEF Objects, Kin
  <2>2. EndPass(o) /\ Write(o, v)
    BY <1>5 DEF MarkUserReady, Requeue
  <2> HIDE DEF v
  <2> QED
    BY <1>4, <2>1, <2>2
<1>6. CASE RemoveFinalizer(o)
  BY <1>4, <1>6, BlankTypes DEF RemoveFinalizer, Requeue
<1>7. CASE UNCHANGED <<obj, snap, stale, queued>> /\ pc'[o] # "idle"
  BY <1>1, <1>7
<1>8. CASE UNCHANGED obj /\ Requeue(o)
  BY <1>8, EndPassShape DEF Requeue
<1>9. CASE Requeue(o) /\ \E v \in Objects : Kin(v, snap[o]) /\ Write(o, v)
  BY <1>4, <1>9 DEF Requeue
<1> QED
  BY <1>2, <1>3, <1>5, <1>6, <1>7, <1>8, <1>9, PassCases

LEMMA PassShape == ASSUME ShapeInv, NEW o \in Objs, PassStep(o) PROVE ShapeInv'
<1>1. Shape' /\ TodoShape'
  BY ProvisionShape, FailureShape, DeletionShape DEF PassStep
<1>2. Bounded'
  BY PassFrame DEF ShapeInv, Bounded, boundVars
<1>3. \A p \in Objs \ {o} : obj'[p] = obj[p] /\ snap'[p] = snap[p] /\ pc'[p] = pc[p]
  BY PassFrame
<1>4. CASE pc[o] # "idle"
  <2>1. obj'[o].here => obj'[o].name \in Names
    BY <1>4, PassObject, BlankTypes DEF ShapeInv, Named, Kin
  <2>2. pc'[o] # "idle" => snap'[o].here /\ snap'[o].name \in Names
    BY <1>4, PassObject DEF ShapeInv, Named, Kin
  <2> QED
    BY <1>1, <1>2, <1>3, <2>1, <2>2 DEF ShapeInv, Named
<1>5. CASE pc[o] = "idle"
  <2>1. StartPass(o)
    BY <1>5, PassCases, AdmitCases DEF MarkUserReady, RemoveFinalizer
  <2>2. UNCHANGED obj /\ (pc'[o] # "idle" => snap'[o] = obj[o] /\ obj[o].here)
    BY <1>5, <2>1 DEF StartPass, ShapeInv, Shape
  <2> QED
    BY <1>1, <1>2, <1>3, <2>2 DEF ShapeInv, Named
<1> QED
  BY <1>4, <1>5

\* What an edit of the user changes
LEMMA EditFrame ==
    ASSUME ShapeInv, NEW o \in Objs, NEW v, Edit(o, v)
    PROVE  /\ obj'[o] = v /\ o \in queued' /\ stale'[o] = (pc[o] # "idle")
           /\ \A p \in Objs \ {o} : /\ obj'[p] = obj[p] /\ stale'[p] = stale[p]
                                    /\ p \in queued' <=> p \in queued
           /\ UNCHANGED <<cluster, flag, riak, secured, pc, snap, todo, histVars>>
BY DEF Edit, ShapeInv, Shape

LEMMA EditShape ==
    ASSUME ShapeInv, NEW o \in Objs, NEW v \in Objects, Edit(o, v), v.here => v.name \in Names
    PROVE  ShapeInv'
<1>1. Shape'
  BY BlankTypes DEF Edit, ShapeInv, Shape, histVars
<1>2. Bounded'
  BY UserAssumption, SMTT(30) DEF Edit, ShapeInv, Bounded
<1>3. TodoShape'
  BY EditFrame DEF ShapeInv, TodoShape
<1>4. Named'
  BY EditFrame, SMTT(30) DEF ShapeInv, Named
<1> QED
  BY <1>1, <1>2, <1>3, <1>4 DEF ShapeInv

\* An edit creates an object, changes its grants or name, marks it as being
\* deleted, or removes one that has no finalizer.
LEMMA EditCases ==
    ASSUME ShapeInv, NEW o \in Objs, User(o)
    PROVE  \/ /\ UNCHANGED <<obj, cluster, flag, riak, secured, queued, passVars, edits, restarts, histVars>>
              /\ crt' \in [Objs -> Certificates] /\ expired' \in [Objs -> BOOLEAN]
              /\ outages' \in 0 .. MaxOutages
           \/ \E v \in Objects :
                /\ Edit(o, v)
                /\ v.here => v.name \in Names
                /\ \/ ~obj[o].here /\ ~v.deleting /\ ~v.created /\ Free(v.name)
                   \/ obj[o].here /\ ~obj[o].final /\ v = NoObj
                   \/ /\ obj[o].here /\ v.here /\ v.final = obj[o].final /\ v.created = obj[o].created
                      /\ v.name = obj[o].name \/ (AllowRename /\ Free(v.name))
                      /\ v.deleting => obj[o].deleting \/ obj[o].final
<1>1. obj[o] \in Objects /\ Shape /\ Bounded /\ Named
  BY PassData DEF ShapeInv
<1> DEFINE Edited ==
      \E v \in Objects :
        /\ Edit(o, v)
        /\ v.here => v.name \in Names
        /\ \/ ~obj[o].here /\ ~v.deleting /\ ~v.created /\ Free(v.name)
           \/ obj[o].here /\ ~obj[o].final /\ v = NoObj
           \/ /\ obj[o].here /\ v.here /\ v.final = obj[o].final /\ v.created = obj[o].created
              /\ v.name = obj[o].name \/ (AllowRename /\ Free(v.name))
              /\ v.deleting => obj[o].deleting \/ obj[o].final
<1>2. ASSUME NEW n \in Names, NEW g \in GrantLists, NEW c \in CertRefs, CreateObject(o, n, g, c) PROVE Edited
  <2> DEFINE v == [NoObj EXCEPT !.here = TRUE, !.name = n, !.grants = g, !.cert = c]
  <2>1. v \in Objects /\ ~v.deleting /\ ~v.created /\ v.name = n
    BY BlankTypes, UserAssumption DEF Objects
  <2> QED
    BY <1>2, <2>1 DEF CreateObject
<1>3. ASSUME NEW n \in Names, Rename(o, n) PROVE Edited
  <2> DEFINE v == [obj[o] EXCEPT !.name = n]
  <2>1. /\ v \in Objects /\ v.name = n /\ v.here = obj[o].here /\ v.final = obj[o].final
        /\ v.created = obj[o].created /\ v.deleting = obj[o].deleting
    BY <1>1 DEF Objects
  <2> QED
    BY <1>3, <2>1 DEF Rename
<1>4. ASSUME NEW g \in GrantLists, EditGrants(o, g) PROVE Edited
  <2> DEFINE v == [obj[o] EXCEPT !.grants = g]
  <2>1. /\ v \in Objects /\ v.name = obj[o].name /\ v.here = obj[o].here /\ v.final = obj[o].final
        /\ v.created = obj[o].created /\ v.deleting = obj[o].deleting
    BY <1>1 DEF Objects
  <2> QED
    BY <1>1, <1>4, <2>1 DEF EditGrants, Named
<1>5. CASE DeleteObject(o)
  <2> DEFINE v == [obj[o] EXCEPT !.deleting = TRUE]
  <2>1. /\ v \in Objects /\ v.name = obj[o].name /\ v.here = obj[o].here /\ v.final = obj[o].final
        /\ v.created = obj[o].created
    BY <1>1 DEF Objects
  <2>2. Edited
    BY <1>1, <1>5, <2>1, BlankTypes DEF DeleteObject, Named
  <2> QED
    BY <2>2
<1>6. CASE GracePeriodEnds(o) \/ Issue(o) \/ Lapse(o)
  <2>1. UNCHANGED <<obj, cluster, flag, riak, secured, queued, passVars, edits, restarts, histVars>>
    BY <1>6 DEF GracePeriodEnds, Issue, Lapse, boundVars
  <2>2. crt' \in [Objs -> Certificates]
    <3>1. crt \in [Objs -> Certificates] /\ crt[o] \in Certificates
      BY <1>1 DEF Shape
    <3>2. [st |-> "usable", cn |-> obj[o].name] \in Certificates
      BY <1>1 DEF Objects, Certificates
    <3>3. CASE Issue(o)
      BY <3>1, <3>2, <3>3, SMTT(30) DEF Issue, Certificates
    <3>4. CASE Lapse(o)
      BY <3>1, <3>4 DEF Lapse, Certificates
    <3> QED
      BY <1>6, <3>1, <3>3, <3>4 DEF GracePeriodEnds
  <2>3. expired' \in [Objs -> BOOLEAN]
    BY <1>1, <1>6 DEF GracePeriodEnds, Issue, Lapse, Shape
  <2>4. outages' \in 0 .. MaxOutages
    BY <1>1, <1>6, UserAssumption, SMTT(30) DEF GracePeriodEnds, Issue, Lapse, Bounded, boundVars
  <2> QED
    BY <2>1, <2>2, <2>3, <2>4
<1> QED
  BY <1>2, <1>3, <1>4, <1>5, <1>6 DEF User

LEMMA StepShape == ASSUME ShapeInv, [Next]_vars PROVE ShapeInv'
<1>1. ASSUME NEW o \in Objs, User(o) PROVE ShapeInv'
  <2>1. CASE /\ UNCHANGED <<obj, cluster, flag, riak, secured, queued, passVars, edits, restarts, histVars>>
             /\ crt' \in [Objs -> Certificates] /\ expired' \in [Objs -> BOOLEAN]
             /\ outages' \in 0 .. MaxOutages
    BY <2>1 DEF ShapeInv, Shape, Bounded, TodoShape, Named, passVars, histVars
  <2> QED
    BY <1>1, <2>1, EditCases, EditShape
<1>2. ASSUME NEW c \in {"missing", "notready", "ready"}, ClusterChanges(c) PROVE ShapeInv'
  <2>1. Shape'
    BY <1>2, BlankTypes DEF ClusterChanges, ShapeInv, Shape, passVars
  <2>2. Bounded'
    BY <1>2, UserAssumption, SMTT(30) DEF ClusterChanges, ShapeInv, Bounded
  <2> QED
    BY <1>2, <2>1, <2>2 DEF ClusterChanges, ShapeInv, TodoShape, Named, passVars
<1>3. CASE OperatorRestart
  <2>1. Shape'
    BY <1>3, BlankTypes DEF OperatorRestart, ShapeInv, Shape, histVars
  <2>2. Bounded'
    BY <1>3, UserAssumption, SMTT(30) DEF OperatorRestart, ShapeInv, Bounded
  <2> QED
    BY <1>3, <2>1, <2>2 DEF OperatorRestart, ShapeInv, TodoShape, Named
<1>4. CASE UNCHANGED vars
  BY <1>4 DEF vars, passVars, boundVars, histVars, ShapeInv, Shape, Bounded, TodoShape, Named
<1> QED
  BY <1>1, <1>2, <1>3, <1>4, PassShape DEF Next, PassStep

LEMMA ShapeInvariant == Spec => []ShapeInv
<1>1. Init => ShapeInv
  <2> SUFFICES ASSUME Init PROVE ShapeInv
    OBVIOUS
  <2>1. Shape
    BY BlankTypes DEF Init, Shape
  <2>2. Bounded
    BY UserAssumption, SMTT(30) DEF Init, Bounded
  <2> QED
    BY <2>1, <2>2, BlankTypes DEF Init, ShapeInv, TodoShape, Named
<1> QED
  BY <1>1, StepShape, PTL DEF Spec

-----------------------------------------------------------------------------
(***************************************************************************)
(* Security first.  Until the RiakCluster is deleted, security once        *)
(* enabled stays so, and a pass gets past enabling it only by doing so or  *)
(* by reading the flag that an earlier pass wrote after doing so.          *)
(***************************************************************************)
Past == {"flag", "create", "source", "grant", "revoke"}
Unsecured == ~flag /\ (\A n \in Names : ~riak[n].exists) /\ \A o \in Objs : pc[o] \notin Past
SecuredInv ==
    /\ wiped => AllowRecreate
    /\ ~wiped => cluster # "missing" /\ (secured \/ Unsecured)

LEMMA PassKeepsSecured == ASSUME ShapeInv, SecuredInv, NEW o \in Objs, PassStep(o) PROVE SecuredInv'
<1>1. UNCHANGED <<cluster, wiped>>
  BY PassFrame
<1> SUFFICES ASSUME ~wiped PROVE secured' \/ Unsecured'
  BY <1>1 DEF SecuredInv
<1>2. secured => secured'
  BY DEF PassStep, StartPass, Provision, Admit, CheckCluster, EnableSecurity, RecordSecurity,
         RecordSecurityFails, CreateUserForCert, AddSecuritySource, GetUserGrants, GrantPermissions,
         RevokePermissions, MarkUserReady, CallFails, UserCertificateFails, Deletion, DeleteNothing,
         DeleteUser, DeleteUserFails, RemoveFinalizer
<1> SUFFICES ASSUME ~secured' PROVE Unsecured'
  OBVIOUS
<1>3. Unsecured /\ ~secured /\ Shape
  BY <1>2 DEF SecuredInv, ShapeInv
<1>4. pc[o] \notin Past
  BY <1>3 DEF Unsecured
<1>5. ~flag'
  BY <1>3, <1>4 DEF Unsecured, Past, PassStep, StartPass, Provision, Admit, CheckCluster, EnableSecurity,
         RecordSecurity, RecordSecurityFails, CreateUserForCert, AddSecuritySource, GetUserGrants,
         GrantPermissions, RevokePermissions, MarkUserReady, CallFails, UserCertificateFails,
         Deletion, DeleteNothing, DeleteUser, DeleteUserFails, RemoveFinalizer
<1>6. \A n \in Names : ~riak'[n].exists
  <2>1. CASE UNCHANGED riak
    BY <1>3, <2>1 DEF Unsecured
  <2>2. CASE DeleteUser(o) \/ DeleteUserFails(o)
    <3>1. riak' \in {riak, [riak EXCEPT ![Name(o)] = NoUser]} /\ ~NoUser.exists
      BY <2>2 DEF DeleteUser, DeleteUserFails, NoUser
    <3> QED
      BY <1>3, <3>1 DEF Unsecured, Shape
  <2>3. CASE CallFails(o)
    <3>1. pc[o] = "secure"
      BY <1>4, <2>3 DEF CallFails, Past
    <3>2. \A n \in Names : ~riak[n].exists
      BY <1>3 DEF Unsecured
    <3>3. Name(o) \in Names
      BY <3>1, PassData
    <3> QED
      BY <2>1, <2>3, <3>1, <3>2, <3>3 DEF CallFails
  <2> QED
    BY <1>4, <2>1, <2>2, <2>3 DEF Past, PassStep, StartPass, Provision, Admit, CheckCluster,
         EnableSecurity, RecordSecurity, RecordSecurityFails, CreateUserForCert, AddSecuritySource,
         GetUserGrants, GrantPermissions, RevokePermissions, MarkUserReady, UserCertificateFails,
         Deletion, DeleteNothing, RemoveFinalizer
<1>7. pc'[o] \notin Past
  <2>1. ASSUME EndPass(o) PROVE pc'[o] \notin Past
    BY <2>1, EndPassShape DEF Past
  <2>2. ASSUME NEW l \in {"admit", "cluster", "delete", "unfinal", "secure"}, Goto(o, l)
        PROVE  pc'[o] \notin Past
    BY <1>3, <2>2 DEF Goto, Shape, Past
  <2>3. CASE StartPass(o)
    BY <1>4, <2>2, <2>3 DEF StartPass
  <2>4. CASE Admit(o)
    BY <2>1, <2>2, <2>4, AdmitCases DEF Requeue
  <2>5. CASE CheckCluster(o)
    <3>1. cluster \in {"missing", "notready", "ready"} /\ ~flag
      BY <1>3 DEF Shape, Unsecured
    <3> QED
      BY <2>1, <2>2, <2>5, <3>1 DEF CheckCluster, FailUser, Requeue
  <2>6. CASE CallFails(o) \/ UserCertificateFails(o)
    BY <2>1, <2>6 DEF CallFails, UserCertificateFails, FailUser, Requeue
  <2>7. CASE DeleteNothing(o) \/ DeleteUser(o) \/ DeleteUserFails(o) \/ RemoveFinalizer(o)
    BY <2>1, <2>2, <2>7 DEF DeleteNothing, DeleteUser, DeleteUserFails, RemoveFinalizer, Requeue
  <2>8. ~EnableSecurity(o)
    BY DEF EnableSecurity
  <2> QED
    BY <1>4, <2>3, <2>4, <2>5, <2>6, <2>7, <2>8 DEF Past, PassStep, Provision, RecordSecurity,
         RecordSecurityFails, CreateUserForCert, AddSecuritySource, GetUserGrants, GrantPermissions,
         RevokePermissions, MarkUserReady, Deletion
<1> QED
  BY <1>3, <1>5, <1>6, <1>7, PassFrame DEF Unsecured

LEMMA StepKeepsSecured == ASSUME ShapeInv, SecuredInv, [Next]_vars PROVE SecuredInv'
<1>1. ASSUME UNCHANGED <<cluster, flag, riak, secured, pc, wiped>> PROVE SecuredInv'
  BY <1>1 DEF SecuredInv, Unsecured
<1>2. ASSUME NEW o \in Objs, User(o) PROVE SecuredInv'
  BY <1>1, <1>2, EditCases, EditFrame DEF passVars, histVars
<1>3. ASSUME NEW c \in {"missing", "notready", "ready"}, ClusterChanges(c) PROVE SecuredInv'
  BY <1>3 DEF ClusterChanges, SecuredInv, Unsecured, passVars
<1>4. CASE OperatorRestart
  BY <1>4 DEF OperatorRestart, SecuredInv, Unsecured, Past, histVars
<1>5. CASE UNCHANGED vars
  BY <1>1, <1>5 DEF vars, passVars, histVars
<1> QED
  BY <1>2, <1>3, <1>4, <1>5, PassKeepsSecured DEF Next, PassStep

LEMMA SecuredInvariant == Spec => []SecuredInv
<1>1. Init => SecuredInv
  BY BlankTypes, SMTT(30) DEF Init, SecuredInv, Unsecured, Past, NoUser
<1> QED
  BY <1>1, ShapeInvariant, StepKeepsSecured, PTL DEF Spec

\* For every number of objects and workers: as long as the RiakCluster is not
\* deleted and created anew, no user is made on a cluster without security,
\* though each pass checks a flag that another is about to write
\* (riakuser_controller.go:200-217).
THEOREM UsersAreSecured == ASSUME ~AllowRecreate PROVE Spec => []SecuredBeforeUsers
<1>1. SecuredInv => SecuredBeforeUsers
  BY DEF SecuredInv, Unsecured, SecuredBeforeUsers
<1> QED
  BY <1>1, SecuredInvariant, PTL

-----------------------------------------------------------------------------
(***************************************************************************)
(* Whose user is whose, as long as usernames are not edited.  A pass that  *)
(* has seen the finalizer has its object to itself: it cannot go, and so   *)
(* no other object can take its username, however old the pass's copy is.  *)
(***************************************************************************)
FreshInv == \A o \in Objs : pc[o] # "idle" /\ ~stale[o] => obj[o] = snap[o]
WaitsInv == \A o \in Objs : stale[o] => pc[o] # "idle" /\ o \in queued
DistinctInv == \A o, p \in Objs : obj[o].here /\ obj[p].here /\ obj[o].name = obj[p].name => o = p
FinalInv == \A o \in Objs : obj[o].deleting \/ obj[o].created => obj[o].final
AttachedInv ==
    \A o \in Objs : pc[o] # "idle" /\ snap[o].final =>
        /\ obj[o].here /\ obj[o].final /\ obj[o].name = snap[o].name
        /\ obj[o].created => snap[o].created
AdmittedInv == \A o \in Objs : pc[o] \notin {"idle", "admit"} => snap[o].final
IdentInv == FreshInv /\ WaitsInv /\ DistinctInv /\ FinalInv /\ AttachedInv /\ AdmittedInv

LEMMA PassKeepsIdent == ASSUME ShapeInv, IdentInv, NEW o \in Objs, PassStep(o) PROVE IdentInv'
<1>1. \A p \in Objs \ {o} : /\ obj'[p] = obj[p] /\ snap'[p] = snap[p] /\ pc'[p] = pc[p]
                            /\ stale'[p] = stale[p]
                            /\ p \in queued' <=> p \in queued
  BY PassFrame
<1>2. CASE pc[o] = "idle"
  <2>1. StartPass(o)
    BY <1>2, PassCases, AdmitCases DEF MarkUserReady, RemoveFinalizer
  <2>2. /\ UNCHANGED <<obj, stale>> /\ ~stale[o]
        /\ \/ pc'[o] = "idle"
           \/ snap'[o] = obj[o] /\ obj[o].here /\ (pc'[o] = "admit" \/ obj[o].deleting)
    BY <2>1 DEF StartPass, Goto, ShapeInv, Shape, IdentInv, WaitsInv
  <2>3. FreshInv' /\ WaitsInv'
    BY <1>1, <2>2 DEF IdentInv, FreshInv, WaitsInv
  <2>4. DistinctInv' /\ FinalInv'
    BY <2>2 DEF IdentInv, DistinctInv, FinalInv
  <2>5. AttachedInv' /\ AdmittedInv'
    BY <1>1, <2>2 DEF IdentInv, AttachedInv, AdmittedInv, FinalInv
  <2> QED
    BY <2>3, <2>4, <2>5 DEF IdentInv
<1>3. CASE pc[o] # "idle"
  <2>1. ~StartPass(o)
    BY <1>3 DEF StartPass
  <2>2. o \in queued => o \in queued'
    BY <2>1, PassCases, AdmitCases DEF MarkUserReady, RemoveFinalizer, Requeue
  <2>3. /\ snap[o].here /\ snap[o] \in Objects
        /\ ~stale[o] => obj[o] = snap[o]
    BY <1>3, PassData DEF ShapeInv, Named, IdentInv, FreshInv
  <2>4. /\ \/ obj'[o] = obj[o]
           \/ ~stale[o] /\ Kin(obj'[o], snap[o])
           \/ ~stale[o] /\ obj'[o] = NoObj
        /\ \/ pc'[o] = "idle" /\ snap'[o] = NoObj /\ ~stale'[o]
           \/ /\ pc'[o] # "idle" /\ Kin(snap'[o], snap[o]) /\ stale'[o] = stale[o]
              /\ ~stale[o] => \/ obj'[o] = snap'[o]
                              \/ obj'[o] = obj[o] /\ snap'[o] = snap[o]
    BY <1>3, PassObject
  <2>5. CASE Admit(o)
    <3>1. /\ Admitted(snap[o]) \in Objects /\ Admitted(snap[o]).final
          /\ Admitted(snap[o]).here /\ Admitted(snap[o]).name = snap[o].name
          /\ Admitted(snap[o]).created = snap[o].created
      BY <2>3, AdmittedData
    <3>2. obj'[o] = IF stale[o] THEN obj[o] ELSE Admitted(snap[o])
      BY <2>5, <3>1, AdmitCases, WriteShape
    <3>3. CASE EndPass(o)
      <4>1. pc'[o] = "idle" /\ ~stale'[o]
        BY <3>3, EndPassShape
      <4>2. FreshInv' /\ WaitsInv'
        BY <1>1, <2>3, <3>1, <3>2, <4>1 DEF IdentInv, FreshInv, WaitsInv
      <4>3. DistinctInv'
        BY <1>1, <2>3, <3>1, <3>2, SMTT(30) DEF IdentInv, DistinctInv
      <4>4. FinalInv'
        BY <1>1, <2>3, <3>1, <3>2 DEF IdentInv, FinalInv
      <4>5. AttachedInv' /\ AdmittedInv'
        BY <1>1, <2>3, <3>1, <3>2, <4>1 DEF IdentInv, AttachedInv, AdmittedInv
      <4> QED
        BY <4>2, <4>3, <4>4, <4>5 DEF IdentInv
    <3>4. CASE ~EndPass(o)
      <4>1. /\ Admitted(snap[o]) = snap[o] \/ ~stale[o]
            /\ snap' = [snap EXCEPT ![o] = Admitted(snap[o])] /\ UNCHANGED stale
        BY <2>5, <3>4, AdmitCases DEF Requeue
      <4>2. snap'[o] = Admitted(snap[o])
        BY <4>1 DEF ShapeInv, Shape
      <4>3. obj'[o].here /\ obj'[o].final /\ obj'[o].name = snap'[o].name /\ (obj'[o].created => snap'[o].created)
        BY <1>3, <3>1, <3>2, <4>1, <4>2 DEF IdentInv, AttachedInv
      <4>4. pc'[o] # "idle" /\ stale'[o] = stale[o] /\ (~stale[o] => obj'[o] = snap'[o])
        <5>1. pc'[o] = "cluster"
          BY <2>5, <3>4, AdmitCases DEF Requeue, Goto, ShapeInv, Shape
        <5> QED
          BY <3>2, <4>1, <4>2, <5>1
      <4>7. FreshInv'
        BY <1>1, <4>4 DEF IdentInv, FreshInv
      <4>8. WaitsInv'
        BY <1>1, <2>2, <4>4 DEF IdentInv, WaitsInv
      <4>5. DistinctInv' /\ FinalInv'
        BY <1>1, <2>3, <3>1, <3>2, <4>3, SMTT(30) DEF IdentInv, DistinctInv, FinalInv
      <4>6. AttachedInv' /\ AdmittedInv'
        BY <1>1, <3>1, <4>2, <4>3 DEF IdentInv, AttachedInv, AdmittedInv
      <4> QED
        BY <4>5, <4>6, <4>7, <4>8 DEF IdentInv
    <3> QED
      BY <3>3, <3>4
  <2>6. CASE ~Admit(o)
    <3>1. pc[o] # "admit" /\ snap[o].final
      <4>1. pc[o] # "admit"
        BY <2>1, <2>6, PassCases DEF MarkUserReady, RemoveFinalizer
      <4> QED
        BY <1>3, <4>1 DEF IdentInv, AdmittedInv
    <3>2. pc'[o] # "idle" => obj'[o] = obj[o] /\ snap'[o] = snap[o]
      <4>1. ASSUME EndPass(o) PROVE pc'[o] = "idle"
        BY <4>1, EndPassShape
      <4> QED
        BY <2>1, <2>6, <4>1, PassCases DEF MarkUserReady, RemoveFinalizer, Requeue
    <3>3. FreshInv' /\ WaitsInv'
      BY <1>1, <1>3, <2>2, <2>3, <2>4 DEF IdentInv, FreshInv, WaitsInv
    <3>4. DistinctInv' /\ FinalInv'
      <4>1. /\ obj'[o].here => obj[o].here /\ obj'[o].name = obj[o].name
            /\ obj'[o].deleting \/ obj'[o].created => obj'[o].final
        <5>1. CASE obj'[o] = obj[o]
          BY <5>1 DEF IdentInv, FinalInv
        <5>2. CASE ~stale[o] /\ Kin(obj'[o], snap[o])
          BY <2>3, <3>1, <5>2 DEF Kin
        <5>3. CASE obj'[o] = NoObj
          BY <5>3, BlankTypes
        <5> QED
          BY <2>4, <5>1, <5>2, <5>3
      <4> QED
        BY <1>1, <4>1, SMTT(30) DEF IdentInv, DistinctInv, FinalInv
    <3>5. AttachedInv' /\ AdmittedInv'
      BY <1>1, <1>3, <3>1, <3>2, SMTT(30) DEF IdentInv, AttachedInv, AdmittedInv
    <3> QED
      BY <3>3, <3>4, <3>5 DEF IdentInv
  <2> QED
    BY <2>5, <2>6
<1> QED
  BY <1>2, <1>3

LEMMA StepKeepsIdent == ASSUME ~AllowRename, ShapeInv, IdentInv, [Next]_vars PROVE IdentInv'
<1>1. ASSUME UNCHANGED <<obj, snap, pc, stale, queued>> PROVE IdentInv'
  BY <1>1 DEF IdentInv, FreshInv, WaitsInv, DistinctInv, FinalInv, AttachedInv, AdmittedInv
<1>2. ASSUME NEW o \in Objs, NEW v \in Objects, Edit(o, v),
             \/ ~obj[o].here /\ ~v.deleting /\ ~v.created /\ Free(v.name)
             \/ obj[o].here /\ ~obj[o].final /\ v = NoObj
             \/ /\ obj[o].here /\ v.here /\ v.final = obj[o].final /\ v.created = obj[o].created
                /\ v.name = obj[o].name
                /\ v.deleting => obj[o].deleting \/ obj[o].final
      PROVE  IdentInv'
  <2>1. /\ obj'[o] = v /\ o \in queued' /\ stale'[o] = (pc[o] # "idle")
        /\ \A p \in Objs \ {o} : /\ obj'[p] = obj[p] /\ stale'[p] = stale[p]
                                 /\ p \in queued' <=> p \in queued
        /\ UNCHANGED <<pc, snap>>
    BY <1>2, EditFrame
  <2>2. FreshInv' /\ WaitsInv'
    BY <2>1 DEF IdentInv, FreshInv, WaitsInv
  <2>3. DistinctInv' /\ FinalInv'
    <3>1. CASE ~obj[o].here /\ ~v.deleting /\ ~v.created /\ Free(v.name)
      BY <2>1, <3>1, SMTT(30) DEF IdentInv, DistinctInv, FinalInv, Free
    <3>2. CASE v = NoObj
      BY <2>1, <3>2, BlankTypes DEF IdentInv, DistinctInv, FinalInv
    <3>3. CASE /\ obj[o].here /\ v.here /\ v.final = obj[o].final
               /\ v.created = obj[o].created /\ v.name = obj[o].name
               /\ v.deleting => obj[o].deleting \/ obj[o].final
      BY <2>1, <3>3, SMTT(30) DEF IdentInv, DistinctInv, FinalInv
    <3> QED
      BY <1>2, <3>1, <3>2, <3>3
  <2>4. AttachedInv' /\ AdmittedInv'
    BY <1>2, <2>1 DEF IdentInv, AttachedInv, AdmittedInv
  <2> QED
    BY <2>2, <2>3, <2>4 DEF IdentInv
<1>3. ASSUME NEW o \in Objs, User(o) PROVE IdentInv'
  BY <1>1, <1>2, <1>3, EditCases DEF passVars
<1>4. CASE OperatorRestart
  BY <1>4 DEF OperatorRestart, IdentInv, FreshInv, WaitsInv, DistinctInv, FinalInv, AttachedInv, AdmittedInv
<1> QED
  BY <1>1, <1>3, <1>4, PassKeepsIdent DEF Next, PassStep, ClusterChanges, vars, passVars

LEMMA IdentInvariant == ASSUME ~AllowRename PROVE Spec => []IdentInv
<1>1. Init => IdentInv
  BY BlankTypes DEF Init, IdentInv, FreshInv, WaitsInv, DistinctInv, FinalInv, AttachedInv, AdmittedInv
<1> QED
  BY <1>1, ShapeInvariant, StepKeepsIdent, PTL DEF Spec

(***************************************************************************)
(* A username that is recorded as Ready has an object that says so, until  *)
(* it is deleted in Riak or given up on.                                   *)
(***************************************************************************)
OwedInv ==
    /\ \A n \in provisioned \ excused : \E o \in Objs : obj[o].here /\ obj[o].name = n /\ obj[o].created
    /\ \A o \in Objs : pc[o] = "unfinal" /\ snap[o].created => Name(o) \in excused \/ Name(o) \notin provisioned

LEMMA PassKeepsOwed == ASSUME ShapeInv, IdentInv, OwedInv, NEW o \in Objs, PassStep(o) PROVE OwedInv'
<1>1. /\ \A p \in Objs \ {o} : obj'[p] = obj[p] /\ snap'[p] = snap[p] /\ pc'[p] = pc[p]
      /\ obj[o] \in Objects /\ snap[o] \in Objects
  BY PassFrame, PassData
<1>2. ASSUME NEW n \in (provisioned \ excused), n \in provisioned', n \notin excused'
      PROVE  \E p \in Objs : obj'[p].here /\ obj'[p].name = n /\ obj'[p].created
  <2>1. PICK w \in Objs : obj[w].here /\ obj[w].name = n /\ obj[w].created
    BY <1>2 DEF OwedInv
  <2>2. CASE obj'[w] = obj[w]
    BY <2>1, <2>2
  <2>3. CASE obj'[w] # obj[w]
    <3>1. w = o
      BY <1>1, <2>3
    <3>2. pc[o] # "idle"
      <4>1. ~StartPass(o)
        BY <2>3 DEF StartPass
      <4> QED
        BY <4>1, PassCases DEF Admit, MarkUserReady, RemoveFinalizer
    <3>3. \/ ~stale[o] /\ Kin(obj'[o], snap[o])
          \/ ~stale[o] /\ RemoveFinalizer(o) /\ obj'[o] = NoObj
      BY <2>3, <3>1, <3>2, PassObject
    <3>4. obj[o] = snap[o]
      BY <3>2, <3>3 DEF IdentInv, FreshInv
    <3>5. ~RemoveFinalizer(o)
      BY <1>2, <2>1, <3>1, <3>4 DEF RemoveFinalizer, OwedInv, Name
    <3> QED
      BY <2>1, <3>1, <3>3, <3>4, <3>5 DEF Kin
  <2> QED
    BY <2>2, <2>3
<1>3. CASE MarkUserReady(o)
  <2>1. /\ provisioned' = IF stale[o] THEN provisioned ELSE provisioned \cup {Name(o)}
        /\ UNCHANGED excused /\ pc[o] = "revoke" /\ pc'[o] = "idle"
    BY <1>3, EndPassShape DEF MarkUserReady, Requeue
  <2>2. snap[o].final /\ snap[o].here
    BY <2>1 DEF IdentInv, AdmittedInv, ShapeInv, Named
  <2>3. ~stale[o] => obj'[o].here /\ obj'[o].name = Name(o) /\ obj'[o].created
    <3>1. PICK v : /\ v = [snap[o] EXCEPT !.phase = "Ready", !.created = TRUE, !.certReady = userCertificateReady(o)]
                   /\ Write(o, v)
      BY <1>3 DEF MarkUserReady
    <3>2. v.here = snap[o].here /\ v.name = snap[o].name /\ v.created
      BY <1>1, <3>1 DEF Objects
    <3>3. ~stale[o] => obj'[o] = v
      BY <3>1 DEF Write, ShapeInv, Shape
    <3> QED
      BY <2>2, <3>2, <3>3 DEF Name
  <2>4. \A n \in provisioned' \ excused' : \E p \in Objs : obj'[p].here /\ obj'[p].name = n /\ obj'[p].created
    BY <1>2, <2>1, <2>3
  <2>5. ASSUME NEW p \in Objs, pc'[p] = "unfinal", snap'[p].created
        PROVE  snap'[p].name \in excused' \/ snap'[p].name \notin provisioned'
    <3>1. p # o /\ snap'[p] = snap[p] /\ pc[p] = "unfinal"
      BY <1>1, <2>1, <2>5
    <3>2. snap[p].final /\ obj[p].here /\ obj[p].name = snap[p].name
      BY <3>1 DEF IdentInv, AdmittedInv, AttachedInv
    <3>3. obj[o].here /\ obj[o].name = snap[o].name
      BY <2>1, <2>2 DEF IdentInv, AttachedInv
    <3>4. snap[p].name # Name(o)
      BY <3>1, <3>2, <3>3 DEF IdentInv, DistinctInv, Name
    <3>5. snap[p].name \in excused \/ snap[p].name \notin provisioned
      BY <2>5, <3>1 DEF OwedInv, Name
    <3> QED
      BY <2>1, <3>1, <3>4, <3>5
  <2> QED
    BY <2>4, <2>5 DEF OwedInv, Name
<1>4. CASE ~MarkUserReady(o)
  <2>1. provisioned' \subseteq provisioned /\ excused \subseteq excused'
    BY <1>4 DEF PassStep, StartPass, Provision, Admit, CheckCluster, EnableSecurity, RecordSecurity,
         RecordSecurityFails, CreateUserForCert, AddSecuritySource, GetUserGrants, GrantPermissions,
         RevokePermissions, CallFails, UserCertificateFails, Deletion, DeleteNothing,
         DeleteUser, DeleteUserFails, RemoveFinalizer, histVars
  <2>2. ASSUME pc'[o] = "unfinal", snap'[o].created
        PROVE  snap'[o].name \in excused' \/ snap'[o].name \notin provisioned'
    <3>1. DeleteNothing(o) \/ DeleteUser(o) \/ (DeleteUserFails(o) /\ expired[o])
      <4>1. ~EndPass(o) /\ pc \in [Objs -> {"idle", "admit", "cluster", "delete", "unfinal"} \cup Calls]
        BY <2>2, EndPassShape DEF ShapeInv, Shape
      <4>2. CASE Provision(o)
        <5>1. cluster \in {"missing", "notready", "ready"} /\ ~Admit(o)
          BY <2>2, <4>1, AdmitCases DEF ShapeInv, Shape, Requeue, Goto
        <5> QED
          BY <1>4, <2>2, <4>1, <4>2, <5>1 DEF Provision, CheckCluster, EnableSecurity, RecordSecurity,
             RecordSecurityFails, CreateUserForCert, AddSecuritySource, GetUserGrants, GrantPermissions,
             RevokePermissions, FailUser, Goto, Requeue
      <4>3. CASE StartPass(o)
        BY <2>2, <4>1, <4>3 DEF StartPass, Goto
      <4> QED
        BY <4>1, <4>2, <4>3 DEF PassStep, CallFails, FailUser, UserCertificateFails, Deletion,
           DeleteUserFails, RemoveFinalizer, Requeue
    <3>2. UNCHANGED snap /\ (snap[o].created => Name(o) \in excused' \/ Name(o) \notin provisioned')
      BY <3>1 DEF DeleteNothing, DeleteUser, DeleteUserFails
    <3> QED
      BY <2>2, <3>2 DEF Name
  <2> QED
    BY <1>1, <1>2, <2>1, <2>2 DEF OwedInv, Name
<1> QED
  BY <1>3, <1>4

LEMMA StepKeepsOwed == ASSUME ~AllowRename, ShapeInv, IdentInv, OwedInv, [Next]_vars PROVE OwedInv'
<1>1. ASSUME UNCHANGED <<obj, snap, provisioned, excused>>, UNCHANGED pc \/ \A o \in Objs : pc'[o] = "idle" PROVE OwedInv'
  BY <1>1 DEF OwedInv, Name
<1>2. ASSUME NEW o \in Objs, NEW v \in Objects, Edit(o, v),
             \/ ~obj[o].here /\ ~v.deleting /\ ~v.created /\ Free(v.name)
             \/ obj[o].here /\ ~obj[o].final /\ v = NoObj
             \/ /\ obj[o].here /\ v.here /\ v.final = obj[o].final /\ v.created = obj[o].created
                /\ v.name = obj[o].name
                /\ v.deleting => obj[o].deleting \/ obj[o].final
      PROVE  OwedInv'
  <2>1. /\ obj'[o] = v /\ (\A p \in Objs \ {o} : obj'[p] = obj[p])
        /\ UNCHANGED <<pc, snap, provisioned, excused>>
    BY <1>2, EditFrame DEF Edit, histVars
  <2>2. obj[o].here /\ obj[o].created => v.here /\ v.name = obj[o].name /\ v.created
    BY <1>2 DEF IdentInv, FinalInv
  <2> QED
    BY <2>1, <2>2, SMTT(30) DEF OwedInv, Name
<1>3. ASSUME NEW o \in Objs, User(o) PROVE OwedInv'
  <2>1. UNCHANGED histVars
    BY <1>3 DEF User, CreateObject, Rename, EditGrants, DeleteObject, GracePeriodEnds, Issue, Lapse, Edit
  <2> QED
    BY <1>1, <1>2, <1>3, <2>1, EditCases DEF passVars, histVars
<1>4. CASE OperatorRestart
  BY <1>4 DEF OperatorRestart, OwedInv, histVars
<1> QED
  BY <1>1, <1>3, <1>4, PassKeepsOwed DEF Next, PassStep, ClusterChanges, vars, passVars, histVars

\* "a deleted RiakUser does not leave a working identity behind": as long as
\* usernames are not edited, whatever passes, edits, conflicts and failing
\* calls come between, a username that was recorded as Ready is gone from Riak
\* when its object is, unless the cluster could not be asked (deleteRiakUser).
THEOREM DeletedUsersAreGone == ASSUME ~AllowRename PROVE Spec => []DeletedLeavesNothing
<1>1. Init => OwedInv
  BY DEF Init, OwedInv
<1>2. OwedInv => DeletedLeavesNothing
  BY DEF OwedInv, DeletedLeavesNothing
<1> QED
  BY <1>1, <1>2, ShapeInvariant, IdentInvariant, StepKeepsOwed, PTL DEF Spec

-----------------------------------------------------------------------------
(***************************************************************************)
(* The calls of a pass.  Only the passes that grant and revoke keep a list *)
(* of calls, and what is revoked is something a user can hold.             *)
(***************************************************************************)
TodoInv ==
    /\ \A o \in Objs : pc[o] \notin {"grant", "revoke"} => todo[o] = {}
    /\ \A o \in Objs : pc[o] = "revoke" =>
         \A c \in todo[o] : ~TargetFails(c.resource, c.bucket) /\ Pairs(c) \subseteq Held

\* The steps of a pass that has a user in Riak to work on, and all others
LEMMA PassCalls ==
    ASSUME ShapeInv, NEW o \in Objs, PassStep(o)
    PROVE  \/ /\ pc'[o] \notin {"source", "grant", "revoke"}
              /\ todo'[o] = {} \/ (todo'[o] = todo[o] /\ pc[o] \notin {"grant", "revoke"})
           \/ CreateUserForCert(o) \/ AddSecuritySource(o)
           \/ GrantPermissions(o) \/ GetUserGrants(o) \/ RevokePermissions(o)
<1> DEFINE Off == /\ pc'[o] \notin {"source", "grant", "revoke"}
                  /\ todo'[o] = {} \/ (todo'[o] = todo[o] /\ pc[o] \notin {"grant", "revoke"})
<1>1. pc \in [Objs -> {"idle", "admit", "cluster", "delete", "unfinal"} \cup Calls] /\ DOMAIN todo = Objs
      /\ cluster \in {"missing", "notready", "ready"}
  <2>1. DOMAIN [p \in Objs |-> todo[p]] = Objs
    OBVIOUS
  <2> QED
    BY <2>1 DEF ShapeInv, Shape, TodoShape
<1>2. ASSUME EndPass(o) PROVE Off
  BY <1>1, <1>2 DEF EndPass
<1>3. ASSUME NEW l \in {"admit", "cluster", "secure", "flag", "create", "delete", "unfinal"}, Goto(o, l),
             UNCHANGED todo, pc[o] \notin {"grant", "revoke"} PROVE Off
  BY <1>1, <1>3 DEF Goto
<1>4. CASE StartPass(o)
  <2>1. CASE obj[o].here
    BY <1>3, <1>4, <2>1 DEF StartPass
  <2>2. CASE ~obj[o].here
    BY <1>4, <2>2 DEF StartPass
  <2> QED
    BY <2>1, <2>2
<1>5. CASE Admit(o)
  BY <1>2, <1>3, <1>5, AdmitCases DEF Requeue, Admit
<1>6. CASE CheckCluster(o)
  <2>1. CASE cluster = "ready"
    <3>1. PICK l \in {"secure", "create"} : Goto(o, l) /\ UNCHANGED todo /\ pc[o] = "cluster"
      BY <1>6, <2>1 DEF CheckCluster
    <3> QED
      BY <1>3, <3>1
  <2>2. CASE cluster # "ready"
    <3>1. EndPass(o)
      BY <1>1, <1>6, <2>2 DEF CheckCluster, Requeue, FailUser
    <3> QED
      BY <1>2, <3>1
  <2> QED
    BY <2>1, <2>2
<1>7. CASE EnableSecurity(o) \/ RecordSecurity(o) \/ RecordSecurityFails(o) \/ MarkUserReady(o)
  BY <1>2, <1>3, <1>7 DEF EnableSecurity, RecordSecurity, RecordSecurityFails, MarkUserReady, Requeue
<1>8. CASE CallFails(o) \/ UserCertificateFails(o)
  BY <1>2, <1>8 DEF CallFails, UserCertificateFails, FailUser, Requeue
<1>9. CASE Deletion(o)
  BY <1>2, <1>3, <1>9 DEF Deletion, DeleteNothing, DeleteUser, DeleteUserFails, RemoveFinalizer, Requeue
<1> QED
  BY <1>4, <1>5, <1>6, <1>7, <1>8, <1>9 DEF PassStep, Provision

LEMMA PassKeepsTodo ==
    ASSUME CallsAreExact, ShapeInv, TodoInv, NEW o \in Objs, PassStep(o) PROVE TodoInv'
<1>1. \A p \in Objs \ {o} : pc'[p] = pc[p] /\ todo'[p] = todo[p]
  BY PassFrame
<1>2. /\ pc \in [Objs -> {"idle", "admit", "cluster", "delete", "unfinal"} \cup Calls]
      /\ todo = [p \in Objs |-> todo[p]]
  BY DEF ShapeInv, Shape, TodoShape
<1>3. ASSUME pc'[o] \notin {"grant", "revoke"} PROVE todo'[o] = {}
  BY <1>2, <1>3, PassCalls DEF TodoInv, CreateUserForCert, AddSecuritySource, GrantPermissions, GetUserGrants,
     RevokePermissions, Goto
<1>4. ASSUME pc'[o] = "revoke", NEW c \in todo'[o]
      PROVE  ~TargetFails(c.resource, c.bucket) /\ Pairs(c) \subseteq Held
  <2>1. GetUserGrants(o) \/ RevokePermissions(o)
    BY <1>2, <1>4, PassCalls DEF CreateUserForCert, AddSecuritySource, GrantPermissions, Goto
  <2>2. CASE RevokePermissions(o)
    BY <1>2, <1>4, <2>2 DEF RevokePermissions, TodoInv
  <2>3. CASE GetUserGrants(o)
    <3>1. riak[Name(o)].grants \in SUBSET Held /\ snap[o].grants \in GrantLists \cup {{}}
      BY <2>3, PassData DEF GetUserGrants, RiakUsers, Objects
    <3>2. todo'[o] = RevokeCalls(parseDedicatedGrants(PrintGrants(riak[Name(o)].grants, Inherited, Width)), snap[o].grants)
      BY <1>2, <2>3 DEF GetUserGrants
    <3>3. ~TargetFails(c.resource, c.bucket) /\ Pairs(c) \subseteq riak[Name(o)].grants \ Asked(snap[o].grants)
      <4>1. Exact(todo'[o], riak[Name(o)].grants, snap[o].grants)
        BY <3>1, <3>2 DEF CallsAreExact
      <4> QED
        BY <1>4, <4>1 DEF Exact
    <3> QED
      BY <3>1, <3>3
  <2> QED
    BY <2>1, <2>2, <2>3
<1> QED
  BY <1>1, <1>3, <1>4 DEF TodoInv

LEMMA StepKeepsTodo == ASSUME CallsAreExact, ShapeInv, TodoInv, [Next]_vars PROVE TodoInv'
<1>1. ASSUME UNCHANGED <<pc, todo>> PROVE TodoInv'
  BY <1>1 DEF TodoInv
<1>2. ASSUME NEW o \in Objs, User(o) PROVE TodoInv'
  BY <1>1, <1>2, EditCases, EditFrame DEF passVars
<1>3. CASE OperatorRestart
  BY <1>3 DEF OperatorRestart, TodoInv
<1> QED
  BY <1>1, <1>2, <1>3, PassKeepsTodo DEF Next, PassStep, ClusterChanges, vars, passVars

LEMMA TodoInvariant == ASSUME CallsAreExact PROVE Spec => []TodoInv
<1>1. Init => TodoInv
  BY DEF Init, TodoInv
<1> QED
  BY <1>1, ShapeInvariant, StepKeepsTodo, PTL DEF Spec

LEMMA TypesKept == ASSUME CallsAreExact PROVE Spec => []TypeOK
<1>1. ASSUME ShapeInv, TodoInv PROVE TypeOK
  <2>1. ASSUME NEW o \in Objs, NEW c \in todo[o] PROVE TargetFails(c.resource, c.bucket) \/ Pairs(c) \subseteq Held
    <3>1. CASE pc[o] = "grant"
      <4>1. c \in GrantCalls(snap[o].grants) /\ snap[o].grants \in GrantLists \cup {{}}
        BY <1>1, <2>1, <3>1, PassData DEF ShapeInv, TodoShape, Objects
      <4> QED
        BY <4>1, CallsHeld
    <3>2. CASE pc[o] # "grant"
      BY <1>1, <2>1, <3>2 DEF TodoInv
    <3> QED
      BY <3>1, <3>2
  <2> QED
    BY <1>1, <2>1 DEF TypeOK, ShapeInv, Shape, Bounded
<1> QED
  BY <1>1, ShapeInvariant, TodoInvariant, PTL

-----------------------------------------------------------------------------
(***************************************************************************)
(* What a pass has done so far.  While it grants, what Riak holds and what *)
(* is still to be granted cover the spec; while it revokes, Riak holds     *)
(* what the spec asks for and what is still to be revoked.                 *)
(***************************************************************************)
Ordered(calls) == UNION {Pairs(c) : c \in {d \in calls : ~TargetFails(d.resource, d.bucket)}}
Called(o) ==
    /\ pc[o] \in {"source", "grant", "revoke"} => riak[Name(o)].exists
    /\ pc[o] \in {"grant", "revoke"} => riak[Name(o)].source
    /\ pc[o] \in Calls \cup {"cluster"} => snap[o].cert # "none"
    /\ pc[o] = "grant" => Asked(snap[o].grants) \subseteq riak[Name(o)].grants \cup Ordered(todo[o])
    /\ pc[o] = "revoke" => /\ Asked(snap[o].grants) \subseteq riak[Name(o)].grants \ Ordered(todo[o])
                           /\ riak[Name(o)].grants \subseteq Asked(snap[o].grants) \cup Ordered(todo[o])
Done(o) ==
    Settled(o) =>
        IF obj[o].cert = "none" THEN obj[o].phase = "Failed"
        ELSE /\ obj[o].phase = "Ready" /\ obj[o].created
             /\ riak[obj[o].name] =
                  [exists |-> TRUE, source |-> TRUE, grants |-> Asked(obj[o].grants)]
ProvisionInv == ~wiped => \A o \in Objs : Called(o) /\ Done(o)

\* A call that is made leaves the others.
LEMMA OrderedLess ==
    ASSUME NEW calls, NEW c \in calls, ~TargetFails(c.resource, c.bucket)
    PROVE  /\ Pairs(c) \subseteq Ordered(calls)
           /\ Ordered(calls) \subseteq Pairs(c) \cup Ordered(calls \ {c})
           /\ Ordered(calls \ {c}) \subseteq Ordered(calls)
BY DEF Ordered

\* No pass touches the Riak user of another object that exists.
LEMMA OwnUser ==
    ASSUME ShapeInv, IdentInv, NEW o \in Objs, PassStep(o), NEW p \in Objs \ {o}, obj[p].here
    PROVE  riak'[obj[p].name] = riak[obj[p].name]
<1>1. obj[p].name \in Names
  BY DEF ShapeInv, Named
<1>2. CASE pc[o] \in {"idle", "admit"}
  <2>1. StartPass(o) \/ Admit(o)
    BY <1>2, PassCases DEF MarkUserReady, RemoveFinalizer
  <2> QED
    BY <2>1 DEF StartPass, Admit
<1>3. CASE pc[o] \notin {"idle", "admit"}
  <2>1. obj[o].here /\ obj[o].name = Name(o)
    BY <1>3 DEF IdentInv, AdmittedInv, AttachedInv, Name
  <2>2. obj[p].name # Name(o)
    BY <2>1 DEF IdentInv, DistinctInv
  <2> QED
    BY <1>1, <2>2, PassFrame
<1> QED
  BY <1>2, <1>3

LEMMA OthersCalled ==
    ASSUME ShapeInv, IdentInv, NEW o \in Objs, PassStep(o), NEW p \in Objs \ {o}, Called(p), Done(p)
    PROVE  Called(p)' /\ Done(p)'
<1>1. /\ obj'[p] = obj[p] /\ snap'[p] = snap[p] /\ pc'[p] = pc[p] /\ todo'[p] = todo[p]
      /\ p \in queued' <=> p \in queued
  BY PassFrame
<1>2. ASSUME pc[p] \notin {"idle", "admit"} PROVE riak'[snap[p].name] = riak[snap[p].name]
  <2>1. obj[p].here /\ obj[p].name = snap[p].name
    BY <1>2 DEF IdentInv, AdmittedInv, AttachedInv
  <2>2. riak'[obj[p].name] = riak[obj[p].name]
    BY <2>1, OwnUser
  <2> QED
    BY <2>1, <2>2
<1>3. Called(p)'
  <2>1. CASE pc[p] \in {"idle", "admit"}
    BY <1>1, <2>1 DEF Called, Calls
  <2>2. CASE pc[p] \notin {"idle", "admit"}
    BY <1>1, <1>2, <2>2 DEF Called, Name
  <2> QED
    BY <2>1, <2>2
<1>4. Done(p)'
  BY <1>1, OwnUser DEF Done, Settled
<1> QED
  BY <1>3, <1>4

\* What each call does to the user of its pass
LEMMA OwnCalled ==
    ASSUME CallsAreExact, ShapeInv, TodoInv, NEW o \in Objs, PassStep(o), Called(o)
    PROVE  Called(o)'
<1>1. /\ pc \in [Objs -> {"idle", "admit", "cluster", "delete", "unfinal"} \cup Calls]
      /\ todo = [p \in Objs |-> todo[p]] /\ riak \in [Names -> RiakUsers] /\ snap[o] \in Objects
  BY PassData DEF ShapeInv, Shape, TodoShape
<1>2. ASSUME pc'[o] \in Calls \cup {"cluster"} PROVE snap'[o].cert # "none"
  <2>1. pc[o] # "idle"
    BY <1>1, <1>2, PassCases, AdmitCases DEF StartPass, Goto, Calls, Admit, MarkUserReady, RemoveFinalizer
  <2>2. snap'[o].cert = snap[o].cert
    BY <1>2, <2>1, PassObject DEF Kin, Calls
  <2>3. CASE Admit(o)
    <3>1. ~EndPass(o)
      BY <1>2, EndPassShape DEF Calls
    <3> QED
      BY <2>2, <2>3, <3>1 DEF Admit, Requeue
  <2>4. CASE ~Admit(o)
    <3>1. pc[o] \in Calls \cup {"cluster"}
      <4>1. ASSUME EndPass(o) PROVE FALSE
        BY <1>2, <4>1, EndPassShape DEF Calls
      <4>2. ~StartPass(o) /\ ~Deletion(o)
        BY <1>1, <1>2, <2>1, <4>1 DEF StartPass, Deletion, DeleteNothing, DeleteUser, DeleteUserFails, RemoveFinalizer,
           Requeue, Goto, Calls
      <4> QED
        BY <2>4, <4>2 DEF PassStep, Provision, CheckCluster, EnableSecurity, RecordSecurity, RecordSecurityFails,
           CreateUserForCert, AddSecuritySource, GetUserGrants, GrantPermissions, RevokePermissions, MarkUserReady,
           CallFails, UserCertificateFails, Calls
    <3> QED
      BY <2>2, <3>1 DEF Called
  <2> QED
    BY <2>3, <2>4
<1>3. CASE pc'[o] \notin {"source", "grant", "revoke"}
  BY <1>2, <1>3 DEF Called
<1>5. pc[o] # "idle" => riak[Name(o)] \in RiakUsers /\ Name(o) \in Names
  BY PassData
<1>6. CASE CreateUserForCert(o)
  <2>1. pc'[o] = "source" /\ riak'[snap'[o].name].exists
    BY <1>1, <1>5, <1>6 DEF CreateUserForCert, Goto, RiakUsers, Name
  <2> QED
    BY <1>2, <2>1 DEF Called, Name
<1>7. CASE AddSecuritySource(o)
  <2>1. /\ pc'[o] = "grant" /\ riak'[snap'[o].name].exists /\ riak'[snap'[o].name].source
        /\ snap'[o] = snap[o] /\ todo'[o] = GrantCalls(snap[o].grants)
    BY <1>1, <1>5, <1>7 DEF AddSecuritySource, Goto, RiakUsers, Name
  <2>2. Asked(snap'[o].grants) \subseteq Ordered(todo'[o])
    <3>1. snap[o].grants \in GrantLists \cup {{}}
      BY <1>1 DEF Objects
    <3>2. \A x \in Asked(snap[o].grants) :
            \E c \in GrantCalls(snap[o].grants) : ~TargetFails(c.resource, c.bucket) /\ x \in Pairs(c)
      BY <3>1 DEF CallsAreExact
    <3> QED
      BY <2>1, <3>2 DEF Ordered
  <2> QED
    BY <1>2, <2>1, <2>2 DEF Called, Name
<1>8. CASE GrantPermissions(o)
  <2>1. PICK c \in todo[o] : /\ ~TargetFails(c.resource, c.bucket)
                             /\ riak' = [riak EXCEPT ![Name(o)].grants = @ \cup Pairs(c)]
                             /\ todo' = [todo EXCEPT ![o] = @ \ {c}]
    BY <1>8 DEF GrantPermissions
  <2>2. /\ pc[o] = "grant" /\ pc'[o] = "grant" /\ snap'[o] = snap[o] /\ todo'[o] = todo[o] \ {c}
        /\ UNCHANGED snap
    BY <1>1, <1>8, <2>1 DEF GrantPermissions
  <2>3. /\ riak'[snap'[o].name].exists = riak[Name(o)].exists /\ riak'[snap'[o].name].source = riak[Name(o)].source
        /\ riak'[snap'[o].name].grants = riak[Name(o)].grants \cup Pairs(c)
    BY <1>1, <1>5, <2>1, <2>2 DEF RiakUsers, Name
  <2>4. Asked(snap[o].grants) \subseteq riak[Name(o)].grants \cup Pairs(c) \cup Ordered(todo[o] \ {c})
    BY <2>1, <2>2, OrderedLess DEF Called
  <2> QED
    BY <1>2, <2>2, <2>3, <2>4 DEF Called, Name
<1>9. CASE GetUserGrants(o)
  <2>1. /\ pc[o] = "grant" /\ pc'[o] = "revoke" /\ snap'[o] = snap[o] /\ todo[o] = {} /\ UNCHANGED <<riak, snap>>
        /\ todo'[o] = RevokeCalls(parseDedicatedGrants(PrintGrants(riak[Name(o)].grants, Inherited, Width)), snap[o].grants)
    BY <1>1, <1>9 DEF GetUserGrants, Goto
  <2>2. riak[Name(o)].grants \in SUBSET Held /\ snap[o].grants \in GrantLists \cup {{}}
    BY <1>1, <1>5, <2>1 DEF RiakUsers, Objects
  <2>3. Asked(snap[o].grants) \subseteq riak[Name(o)].grants
    BY <2>1 DEF Called, Ordered
  <2>4. /\ \A c \in todo'[o] : /\ ~TargetFails(c.resource, c.bucket)
                               /\ Pairs(c) \subseteq riak[Name(o)].grants \ Asked(snap[o].grants)
        /\ \A x \in riak[Name(o)].grants \ Asked(snap[o].grants) : \E c \in todo'[o] : x \in Pairs(c)
    <3>1. Exact(todo'[o], riak[Name(o)].grants, snap[o].grants)
      BY <2>1, <2>2 DEF CallsAreExact
    <3> QED
      BY <3>1 DEF Exact
  <2>5. Ordered(todo'[o]) = riak[Name(o)].grants \ Asked(snap[o].grants)
    BY <2>4 DEF Ordered
  <2> QED
    BY <1>2, <2>1, <2>3, <2>5 DEF Called, Name
<1>10. CASE RevokePermissions(o)
  <2>1. PICK c \in todo[o] : /\ riak' = [riak EXCEPT ![Name(o)].grants = @ \ Pairs(c)]
                             /\ todo' = [todo EXCEPT ![o] = @ \ {c}]
    BY <1>10 DEF RevokePermissions
  <2>2. /\ pc[o] = "revoke" /\ pc'[o] = "revoke" /\ snap'[o] = snap[o] /\ todo'[o] = todo[o] \ {c}
        /\ UNCHANGED snap
    BY <1>1, <1>10, <2>1 DEF RevokePermissions
  <2>3. /\ riak'[snap'[o].name].exists = riak[Name(o)].exists /\ riak'[snap'[o].name].source = riak[Name(o)].source
        /\ riak'[snap'[o].name].grants = riak[Name(o)].grants \ Pairs(c)
    BY <1>1, <1>5, <2>1, <2>2 DEF RiakUsers, Name
  <2>4. ~TargetFails(c.resource, c.bucket)
    BY <2>2 DEF TodoInv
  <2>5. /\ Asked(snap[o].grants) \subseteq (riak[Name(o)].grants \ Pairs(c)) \ Ordered(todo[o] \ {c})
        /\ riak[Name(o)].grants \ Pairs(c) \subseteq Asked(snap[o].grants) \cup Ordered(todo[o] \ {c})
    BY <2>2, <2>4, OrderedLess DEF Called
  <2> QED
    BY <1>2, <2>2, <2>3, <2>5 DEF Called, Name
<1> QED
  BY <1>3, <1>6, <1>7, <1>8, <1>9, <1>10, PassCalls

LEMMA OwnDone ==
    ASSUME ShapeInv, TodoInv, IdentInv, NEW o \in Objs, PassStep(o), Called(o)
    PROVE  Done(o)'
<1>1. snap[o] \in Objects /\ pc \in [Objs -> {"idle", "admit", "cluster", "delete", "unfinal"} \cup Calls]
  BY PassData DEF ShapeInv, Shape
<1> SUFFICES ASSUME obj'[o].here, ~obj'[o].deleting, pc'[o] = "idle", o \notin queued'
             PROVE  IF obj'[o].cert = "none" THEN obj'[o].phase = "Failed"
                    ELSE /\ obj'[o].phase = "Ready" /\ obj'[o].created
                         /\ riak'[obj'[o].name] =
                              [exists |-> TRUE, source |-> TRUE, grants |-> Asked(obj'[o].grants)]
  BY DEF Done, Settled
<1>2. ~Requeue(o)
  BY DEF Requeue
<1>3. CASE StartPass(o)
  BY <1>1, <1>3 DEF StartPass, Goto
<1>4. CASE Admit(o)
  <2>1. PICK v : v = Admitted(snap[o])
    OBVIOUS
  <2>2. v \in Objects /\ v.cert = snap[o].cert /\ (snap[o].cert = "none" => v.phase = "Failed")
    BY <1>1, <2>1, AdmittedData
  <2>3. snap[o].cert = "none" /\ UNCHANGED queued
    <3>1. ~(Goto(o, "cluster") /\ snap' = [snap EXCEPT ![o] = v])
      BY <1>1 DEF Goto
    <3> QED
      BY <1>2, <1>4, <2>1, <3>1 DEF Admit, Admitted
  <2>4. ~stale[o]
    BY <2>3 DEF IdentInv, WaitsInv
  <2>5. obj'[o] = v
    BY <1>4, <2>1, <2>2, <2>4, AdmitCases, WriteShape
  <2> QED
    BY <2>2, <2>3, <2>5
<1>5. CASE MarkUserReady(o)
  <2>1. pc[o] = "revoke" /\ todo[o] = {} /\ ~stale[o] /\ UNCHANGED riak
    BY <1>2, <1>5 DEF MarkUserReady
  <2>2. PICK v : v = [snap[o] EXCEPT !.phase = "Ready", !.created = TRUE, !.certReady = userCertificateReady(o)]
    OBVIOUS
  <2>3. v.phase = "Ready" /\ v.created /\ v.cert = snap[o].cert /\ v.name = snap[o].name /\ v.grants = snap[o].grants
    BY <1>1, <2>2 DEF Objects
  <2>4. obj'[o] = v
    BY <1>5, <2>1, <2>2 DEF MarkUserReady, Write, ShapeInv, Shape
  <2>5. riak[Name(o)] \in RiakUsers
    BY <2>1, PassData
  <2>6. riak[Name(o)].exists /\ riak[Name(o)].source /\ riak[Name(o)].grants = Asked(snap[o].grants) /\ snap[o].cert # "none"
    <3>1. Ordered(todo[o]) = {}
      BY <2>1 DEF Ordered
    <3> QED
      BY <2>1, <3>1 DEF Called, Calls
  <2>7. riak[Name(o)] = [exists |-> TRUE, source |-> TRUE, grants |-> Asked(snap[o].grants)]
    BY <2>5, <2>6 DEF RiakUsers
  <2> QED
    BY <2>1, <2>3, <2>4, <2>6, <2>7 DEF Name
<1>6. CASE RemoveFinalizer(o)
  <2>1. obj'[o] = NoObj
    BY <1>2, <1>6 DEF RemoveFinalizer, Write, ShapeInv, Shape
  <2> QED
    BY <2>1, BlankTypes
<1> QED
  BY <1>2, <1>3, <1>4, <1>5, <1>6, PassCases

LEMMA StepKeepsProvision ==
    ASSUME CallsAreExact, ~AllowRename, ShapeInv, TodoInv, IdentInv, ProvisionInv, [Next]_vars
    PROVE  ProvisionInv'
<1>1. ASSUME NEW o \in Objs, PassStep(o) PROVE ProvisionInv'
  <2>1. UNCHANGED wiped
    BY <1>1, PassFrame
  <2>2. ASSUME ~wiped, NEW p \in Objs PROVE Called(p)' /\ Done(p)'
    <3>1. Called(p) /\ Done(p) /\ Called(o)
      BY <2>2 DEF ProvisionInv
    <3>2. CASE p = o
      BY <1>1, <3>1, <3>2, OwnCalled, OwnDone
    <3>3. CASE p # o
      BY <1>1, <3>1, <3>3, OthersCalled
    <3> QED
      BY <3>2, <3>3
  <2> QED
    BY <2>1, <2>2 DEF ProvisionInv
<1>2. ASSUME UNCHANGED <<obj, riak, queued, passVars>>, wiped => wiped' PROVE ProvisionInv'
  <2>1. ~wiped' => ~wiped
    BY <1>2
  <2>2. \A o \in Objs : (Called(o) => Called(o)') /\ (Done(o) => Done(o)')
    BY <1>2 DEF Called, Done, Settled, Name, passVars
  <2> QED
    BY <2>1, <2>2 DEF ProvisionInv
<1>3. ASSUME NEW o \in Objs, User(o) PROVE ProvisionInv'
  <2>1. ASSUME NEW v \in Objects, Edit(o, v) PROVE ProvisionInv'
    <3>1. /\ o \in queued'
          /\ \A p \in Objs \ {o} : /\ obj'[p] = obj[p]
                                   /\ p \in queued' <=> p \in queued
          /\ UNCHANGED <<riak, pc, snap, todo, wiped>>
      BY <2>1, EditFrame DEF histVars
    <3>2. \A p \in Objs : (Called(p) => Called(p)') /\ (Done(p) => Done(p)')
      BY <3>1 DEF Called, Done, Settled, Name
    <3> QED
      BY <3>1, <3>2 DEF ProvisionInv
  <2> QED
    BY <1>2, <1>3, <2>1, EditCases DEF histVars
<1>4. CASE OperatorRestart
  <2>1. /\ \A o \in Objs : pc'[o] = "idle"
        /\ queued' = {o \in Objs : obj[o].here} /\ UNCHANGED obj
    BY <1>4 DEF OperatorRestart
  <2> QED
    BY <2>1 DEF ProvisionInv, Called, Done, Settled, Calls
<1>5. ASSUME NEW c \in {"missing", "notready", "ready"}, ClusterChanges(c) PROVE ProvisionInv'
  <2>1. CASE c = "missing"
    BY <1>5, <2>1 DEF ClusterChanges, ProvisionInv
  <2>2. CASE c # "missing"
    BY <1>2, <1>5, <2>2 DEF ClusterChanges
  <2> QED
    BY <2>1, <2>2
<1> QED
  BY <1>1, <1>2, <1>3, <1>4, <1>5, SMTT(30) DEF Next, PassStep, vars, histVars

LEMMA ProvisionKept ==
    ASSUME CallsAreExact, ~AllowRename PROVE Spec => []SettledMeansProvisioned
<1>1. Init => ProvisionInv
  <2>1. Init => \A o \in Objs : pc[o] = "idle" /\ obj[o] = NoObj
    BY DEF Init
  <2>2. ASSUME NEW o \in Objs, pc[o] = "idle", obj[o] = NoObj PROVE Called(o) /\ Done(o)
    BY <2>2, BlankTypes DEF Called, Done, Settled, Calls
  <2> QED
    BY <2>1, <2>2 DEF ProvisionInv
<1>2. ProvisionInv => SettledMeansProvisioned
  BY DEF ProvisionInv, Done, SettledMeansProvisioned
<1> QED
  BY <1>1, <1>2, ShapeInvariant, TodoInvariant, IdentInvariant, StepKeepsProvision, PTL DEF Spec

-----------------------------------------------------------------------------
(***************************************************************************)
(* What GrantsProofs shows of print-grants and of the calls made from it,  *)
(* for the grants of the objects.                                          *)
(***************************************************************************)
INSTANCE GrantsProofs

LEMMA ListsAreNamed == WellNamed(UNION GrantLists) /\ \A gs \in GrantLists \cup {{}} : WellNamed(gs)
BY GrantAssumption DEF WellNamed

LEMMA HeldIsAsked == Held \subseteq Asked(UNION GrantLists)
BY DEF Held, Asked

(***************************************************************************)
(* What print-grants says a user holds is read as it is held: the          *)
(* round trip of GetUserGrants, for everything users can hold              *)
(* (executor.go:460-506).                                                  *)
(***************************************************************************)
THEOREM UsersAreReadBack == ParsesBack
<1> SUFFICES ASSUME NEW held \in SUBSET Held
             PROVE  parseDedicatedGrants(PrintGrants(held, Inherited, Width)) =
                      {[key |-> h[1], tokens |-> {x[2] : x \in {y \in held : y[1] = h[1]}}] : h \in held}
  BY DEF ParsesBack
<1>1. held \in SUBSET Asked(UNION GrantLists)
  BY HeldIsAsked
<1>2. IsFiniteSet(UNION GrantLists) /\ IsFiniteSet(Inherited) /\ Width \in Nat \ {0}
  BY GrantAssumption, UserAssumption
<1> QED
  BY <1>1, <1>2, ListsAreNamed, GrantsAreReadBack

\* GrantUserPermissions makes the calls it means to make.
LEMMA ExactCalls == CallsAreExact
<1>1. ASSUME NEW grants \in GrantLists \cup {{}}, NEW x \in Asked(grants)
      PROVE  \E c \in GrantCalls(grants) : ~TargetFails(c.resource, c.bucket) /\ x \in Pairs(c)
  BY <1>1, CallsAsk
<1>2. ASSUME NEW held \in SUBSET Held, NEW grants \in GrantLists \cup {{}}
      PROVE  Exact(RevokeCalls(parseDedicatedGrants(PrintGrants(held, Inherited, Width)), grants), held, grants)
  <2>1. held \in SUBSET Asked(UNION GrantLists)
    BY HeldIsAsked
  <2>2. IsFiniteSet(UNION GrantLists) /\ IsFiniteSet(Inherited) /\ Width \in Nat \ {0}
    BY GrantAssumption, UserAssumption
  <2>3. PICK calls : calls = RevokeCalls(parseDedicatedGrants(PrintGrants(held, Inherited, Width)), grants)
    OBVIOUS
  <2>4. TakeExcess(calls, held, grants)
    BY <2>1, <2>2, <2>3, ListsAreNamed, RevocationIsExact
  <2> QED
    BY <2>3, <2>4 DEF TakeExcess, Exact
<1> QED
  BY <1>1, <1>2 DEF CallsAreExact

\* The objects, Riak's users, the certificates, the counters and the calls a
\* pass has still to make always have the shape the code gives them; what is
\* revoked from a user is something the grants of a spec can give
\* (GrantUserPermissions).
THEOREM UserTypeCorrect == Spec => []TypeOK
BY ExactCalls, TypesKept

\* "Riak matches spec.grants exactly": as long as the RiakCluster is not
\* deleted and usernames are not edited, when the operator is done with an
\* object it is Ready and Riak holds its user with the grants of its spec, no
\* more and no fewer, for any number of objects and workers and whatever edits,
\* conflicts, restarts and failing calls came between (Reconcile,
\* GrantUserPermissions, markUserReady).
THEOREM SettledUsersAreProvisioned ==
    ASSUME ~AllowRename PROVE Spec => []SettledMeansProvisioned
BY ExactCalls, ProvisionKept
=============================================================================
