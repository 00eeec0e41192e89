---------------------------- MODULE BucketProofs ----------------------------
(***************************************************************************)
(* Proofs about BucketLifecycle, for every set of objects, types and specs *)
(* and every number of workers.                                            *)
(***************************************************************************)
EXTENDS BucketLifecycle, TLAPS

\* A leaf is Zenon's unless it names SMT.
USE ZenonT(30)

-----------------------------------------------------------------------------
(* Type correctness *)

\* The two parsers: what both read is the same number.
LEMMA TextNumbers ==
    ASSUME NEW t \in Texts
    PROVE  /\ JSONNumber(t) \in Int /\ ParseInt32(t) \in 0 .. Int32Max
           /\ JSONNumber(t) >= 0 =>
                IF ParseInt32(t) # 0 THEN ParseInt32(t) = JSONNumber(t)
                ELSE JSONNumber(t) = 0 \/ JSONNumber(t) > Int32Max \/ t.form = "decimal"
BY BucketAssumption, SMTT(30) DEF Texts, Unset, JSONNumber, ParseInt32

LEMMA SpecTypes ==
    ASSUME NEW s \in Specs \cup {NoSpec}
    PROVE  /\ s \in BucketSpecs /\ s.nval <= Int32Max /\ s.rf <= Int32Max /\ Int32Max \in Nat
           /\ EffectiveProperties(s) \in Settings /\ SentProperties(s) \in Properties
           /\ EffectiveNVal(s) \in 0 .. Int32Max
<1>1. s \in BucketSpecs /\ s.nval <= Int32Max /\ s.rf <= Int32Max /\ Int32Max \in Nat
  <2>1. CASE s \in Specs
    BY <2>1, BucketAssumption
  <2>2. CASE s = NoSpec
    BY <2>2, BucketAssumption, SMTT(30) DEF NoSpec, BucketSpecs, Texts, Flags
  <2> QED
    BY <2>1, <2>2
<1>2. TypedNVal(s) \in Nat /\ TypedNVal(s) <= Int32Max /\ s.raw \in Texts
  BY <1>1 DEF TypedNVal, BucketSpecs
<1>3. EffectiveProperties(s) \in Settings
  <2>1. TypedNVal(s) > 0 => [form |-> "digits", n |-> TypedNVal(s)] \in Texts
    BY <1>2, SMTT(30) DEF Texts
  <2>2. (IF s.multi THEN "true" ELSE s.rawMulti) \in Flags
    BY <1>1 DEF BucketSpecs, Flags
  <2> QED
    BY <1>2, <2>1, <2>2 DEF EffectiveProperties, Settings
<1>4. SentProperties(s) \in Properties
  BY <1>3, TextNumbers DEF SentProperties, Parsed, Settings, Properties
<1>5. EffectiveNVal(s) \in 0 .. Int32Max
  BY <1>1, <1>2, TextNumbers, SMTT(30) DEF EffectiveNVal
<1> QED
  BY <1>1, <1>3, <1>4, <1>5

LEMMA NoObjType == NoObj \in Objects /\ NoProps \in Properties
BY BucketAssumption, SMTT(30)
   DEF NoObj, Objects, NoSettings, Settings, Texts, NoProps, Properties, Flags

LEMMA PassData ==
    ASSUME TypeOK, NEW o \in Objs
    PROVE  /\ obj[o] \in Objects /\ snap[o] \in Objects
           /\ obj[o].spec \in Specs \cup {NoSpec} /\ snap[o].spec \in Specs \cup {NoSpec}
           /\ BucketType(o) \in Types /\ Props(o) \in Properties
<1>1. obj[o] \in Objects /\ snap[o] \in Objects
  BY DEF TypeOK
<1>2. obj[o].spec \in Specs \cup {NoSpec} /\ snap[o].spec \in Specs \cup {NoSpec}
  BY <1>1 DEF Objects
<1> QED
  BY <1>1, <1>2, SpecTypes DEF BucketType, Props, BucketSpecs

LEMMA OverlayType ==
    ASSUME NEW old \in Properties, NEW new \in Properties PROVE Overlay(old, new) \in Properties
BY DEF Overlay, Properties

LEMMA EndPassType ==
    ASSUME TypeOK, NEW o \in Objs, EndPass(o)
    PROVE  /\ snap' \in [Objs -> Objects] /\ pc' \in [Objs -> Labels]
           /\ stale' \in [Objs -> BOOLEAN]
BY NoObjType DEF EndPass, TypeOK, Labels

LEMMA TryWriteType ==
    ASSUME TypeOK, NEW o \in Objs, NEW v \in Objects, TryWrite(o, v)
    PROVE  obj' \in [Objs -> Objects]
BY DEF TryWrite, TypeOK

LEMMA PassType == ASSUME TypeOK, NEW o \in Objs, Pass(o) PROVE TypeOK'
<1>1. snap[o] \in Objects /\ BucketType(o) \in Types /\ Props(o) \in Properties
  BY PassData
<1>2. CASE RemoveFinalizer(o)
  BY <1>2, EndPassType, NoObjType DEF RemoveFinalizer, TypeOK, boundVars
<1>3. CASE AddFinalizer(o)
  BY <1>1, <1>3 DEF AddFinalizer, Write, Goto, TypeOK, boundVars, Objects, Labels
<1>4. CASE InitStatus(o)
  BY <1>1, <1>4 DEF InitStatus, Write, Goto, TypeOK, boundVars, Objects, Labels
<1>5. CASE ApiFails(o)
  BY <1>5, EndPassType DEF ApiFails, Requeue, TypeOK, boundVars
<1>6. ASSUME FailBucket(o)
      PROVE  /\ obj' \in [Objs -> Objects] /\ snap' \in [Objs -> Objects]
             /\ pc' \in [Objs -> Labels] /\ stale' \in [Objs -> BOOLEAN] /\ queued' \subseteq Objs
  <2>1. [snap[o] EXCEPT !.phase = "Failed", !.ready = "false"] \in Objects
    BY <1>1 DEF Objects, Flags
  <2> QED
    BY <1>6, <2>1, EndPassType, TryWriteType DEF FailBucket, Requeue, TypeOK
<1>7. CASE CheckCluster(o)
  <2>1. [snap[o] EXCEPT !.ready = "false"] \in Objects
    BY <1>1 DEF Objects, Flags
  <2>2. CASE cluster = "missing"
    BY <1>6, <1>7, <2>2 DEF CheckCluster, TypeOK, boundVars
  <2>3. CASE cluster = "notready"
    BY <1>7, <2>1, <2>3, EndPassType, TryWriteType DEF CheckCluster, Requeue, TypeOK, boundVars
  <2>4. CASE cluster = "ready"
    BY <1>7, <2>4 DEF CheckCluster, Goto, TypeOK, boundVars, Labels
  <2> QED
    BY <2>2, <2>3, <2>4 DEF TypeOK
<1>8. CASE Create(o)
  <2>1. riak' \in [Types -> BucketTypes]
    BY <1>1, <1>8, SMTT(30) DEF Create, TypeOK, BucketTypes
  <2>2. pc' \in [Objs -> Labels] /\ UNCHANGED queued
    BY <1>8 DEF Create, Goto, TypeOK, Labels
  <2> QED
    BY <1>8, <2>1, <2>2 DEF Create, TypeOK, boundVars
<1>9. CASE Activate(o)
  BY <1>1, <1>9 DEF Activate, Goto, TypeOK, BucketTypes, boundVars, Labels
<1>10. CASE Update(o)
  <2>1. Overlay(riak[BucketType(o)].props, Props(o)) \in Properties
    BY <1>1, OverlayType DEF TypeOK, BucketTypes
  <2>2. riak' \in [Types -> BucketTypes]
    BY <1>1, <1>10, <2>1 DEF Update, TypeOK, BucketTypes
  <2> QED
    BY <1>10, <2>2 DEF Update, Goto, TypeOK, boundVars, Labels
<1>11. CASE CallFails(o)
  <2>1. Overlay(riak[BucketType(o)].props, Props(o)) \in Properties
    BY <1>1, OverlayType DEF TypeOK, BucketTypes
  <2>2. riak' \in [Types -> BucketTypes]
    BY <1>1, <1>11, <2>1, SMTT(30) DEF CallFails, TypeOK, BucketTypes
  <2> QED
    BY <1>6, <1>11, <2>2 DEF CallFails, TypeOK, boundVars
<1>12. CASE Record(o)
  <2>1. /\ EffectiveNVal(snap[o].spec) \in 0 .. Int32Max
        /\ EffectiveProperties(snap[o].spec) \in Settings
    BY <1>1, SpecTypes DEF Objects
  <2>2. [snap[o] EXCEPT !.phase = "Ready", !.ready = "true", !.bucketType = BucketType(o),
                        !.properties = EffectiveProperties(snap[o].spec),
                        !.nVal = EffectiveNVal(snap[o].spec)] \in Objects
    BY <1>1, <2>1 DEF Objects, Flags
  <2> QED
    BY <1>12, <2>2, EndPassType DEF Record, TypeOK, boundVars
<1> QED
  BY <1>2, <1>3, <1>4, <1>5, <1>7, <1>8, <1>9, <1>10, <1>11, <1>12 DEF Pass

LEMMA EditType ==
    ASSUME TypeOK, NEW o \in Objs, NEW v \in Objects, Edit(o, v) PROVE TypeOK'
BY BucketAssumption, SMTT(30) DEF Edit, TypeOK

LEMMA UserType == ASSUME TypeOK, NEW o \in Objs, User(o) PROVE TypeOK'
<1>1. obj[o] \in Objects
  BY DEF TypeOK
<1>2. ASSUME NEW s \in Specs, CreateObject(o, s) PROVE TypeOK'
  <2>1. [NoObj EXCEPT !.here = TRUE, !.spec = s] \in Objects
    BY NoObjType DEF Objects
  <2> QED
    BY <1>2, <2>1, EditType DEF CreateObject
<1>3. ASSUME NEW s \in Specs, EditSpec(o, s) PROVE TypeOK'
  <2>1. [obj[o] EXCEPT !.spec = s] \in Objects
    BY <1>1 DEF Objects
  <2> QED
    BY <1>3, <2>1, EditType DEF EditSpec
<1>4. CASE DeleteObject(o)
  <2>1. [obj[o] EXCEPT !.deleting = TRUE] \in Objects
    BY <1>1 DEF Objects
  <2> QED
    BY <1>4, <2>1, EditType, NoObjType DEF DeleteObject
<1> QED
  BY <1>2, <1>3, <1>4 DEF User

LEMMA StepType == ASSUME TypeOK, [Next]_vars PROVE TypeOK'
<1>1. ASSUME NEW o \in Objs, StartPass(o) PROVE TypeOK'
  BY <1>1 DEF StartPass, TypeOK, boundVars, Labels
<1>2. ASSUME NEW c \in {"notready", "ready"}, ClusterChanges(c) PROVE TypeOK'
  BY <1>2, BucketAssumption, SMTT(30) DEF ClusterChanges, TypeOK, passVars
<1>3. CASE OperatorRestart
  BY <1>3, NoObjType, BucketAssumption, SMTT(30) DEF OperatorRestart, TypeOK, Labels
<1>4. CASE UNCHANGED vars
  BY <1>4 DEF vars, passVars, boundVars, TypeOK
<1> QED
  BY <1>1, <1>2, <1>3, <1>4, PassType, UserType DEF Next

\* Every variable keeps its shape for every instance: in particular status.nVal
\* never leaves 32 bits whatever n_val a spec's properties ask for
\* (effectiveBucketProperties), and no pass leaves Reconcile's steps.
THEOREM BucketTypeCorrect == Spec => []TypeOK
<1>1. Init => TypeOK
  <2> SUFFICES ASSUME Init PROVE TypeOK
    OBVIOUS
  <2>1. \A t \in Types : riak[t] \in BucketTypes
    BY NoObjType DEF Init, BucketTypes
  <2>2. riak \in [Types -> BucketTypes]
    BY <2>1 DEF Init
  <2>3. edits \in 0 .. MaxEdits /\ outages \in 0 .. MaxOutages /\ restarts \in 0 .. MaxRestarts
    BY BucketAssumption, SMTT(30) DEF Init
  <2>4. /\ obj \in [Objs -> Objects] /\ snap \in [Objs -> Objects]
        /\ pc \in [Objs -> Labels] /\ stale \in [Objs -> BOOLEAN]
    BY NoObjType DEF Init, Labels
  <2> QED
    BY <2>2, <2>3, <2>4 DEF Init, TypeOK
<1> QED
  BY <1>1, StepType, PTL DEF Spec

-----------------------------------------------------------------------------
(***************************************************************************)
(* What the status says.  An object, and a pass's copy of it, that is      *)
(* Ready names an active type and the n_val that was sent; so a pass that  *)
(* fails later may write its copy back.  A type never leaves "active", and *)
(* a pass gets to "record" only by activating its type or by finding it    *)
(* active, with properties Riak has accepted.                              *)
(***************************************************************************)
Reports(k, t) ==
    IF k # 0 THEN k = JSONNumber(t)
    ELSE JSONNumber(t) = 0 \/ JSONNumber(t) > Int32Max \/ t.form = "decimal"

Truthful(x) ==
    x.phase = "Ready" =>
        riak[x.bucketType].state = "active" /\ Reports(x.nVal, x.properties.n_val)

PassTruthful(o) ==
    /\ Truthful(obj[o]) /\ Truthful(snap[o])
    /\ pc[o] \in {"update", "record"} => riak[BucketType(o)].state = "active"
    /\ pc[o] \in {"activate", "update", "record"} => Accepts(Props(o))

TruthInv == \A o \in Objs : PassTruthful(o)

\* The n_val of accepted properties is what effectiveBucketProperties reports.
LEMMA NValOfSpec ==
    ASSUME NEW s \in Specs \cup {NoSpec}, Accepts(SentProperties(s))
    PROVE  Reports(EffectiveNVal(s), EffectiveProperties(s).n_val)
<1>1. TypedNVal(s) \in Nat /\ s.raw \in Texts
  BY SpecTypes DEF TypedNVal, BucketSpecs
<1>2. CASE TypedNVal(s) > 0
  <2>1. EffectiveProperties(s).n_val = [form |-> "digits", n |-> TypedNVal(s)]
    BY <1>2 DEF EffectiveProperties
  <2>2. JSONNumber(EffectiveProperties(s).n_val) = TypedNVal(s)
    BY <2>1, SMTT(30) DEF JSONNumber
  <2> QED
    BY <1>1, <1>2, <2>2, SMTT(30) DEF EffectiveNVal, Reports
<1>3. CASE ~(TypedNVal(s) > 0)
  <2>1. EffectiveProperties(s).n_val = s.raw /\ EffectiveNVal(s) = ParseInt32(s.raw)
    BY <1>3 DEF EffectiveProperties, EffectiveNVal
  <2>2. JSONNumber(s.raw) >= 0
    BY <2>1 DEF Accepts, SentProperties, Parsed
  <2> QED
    BY <1>1, <2>1, <2>2, TextNumbers DEF Reports
<1> QED
  BY <1>2, <1>3

LEMMA NoObjBlank == NoObj.phase # "Ready" /\ ~NoObj.here
BY DEF NoObj

\* Active types stay active.
ActiveStays == \A t \in Types : riak[t].state = "active" => riak'[t].state = "active"

LEMMA StaysTruthful ==
    ASSUME ActiveStays, NEW x \in Objects, Truthful(x) PROVE Truthful(x)'
BY DEF ActiveStays, Truthful, Objects

LEMMA OthersTruthful ==
    ASSUME TypeOK, TruthInv, ActiveStays, NEW o \in Objs, NEW p \in Objs \ {o},
           obj'[p] = obj[p], snap'[p] = snap[p], pc'[p] = pc[p]
    PROVE  PassTruthful(p)'
<1>1. obj[p] \in Objects /\ snap[p] \in Objects
  BY DEF TypeOK
<1>2. Truthful(obj[p])' /\ Truthful(snap[p])'
  BY <1>1, StaysTruthful DEF TruthInv, PassTruthful, Truthful
<1>3. BucketType(p)' = BucketType(p) /\ Props(p)' = Props(p) /\ BucketType(p) \in Types
  BY <1>1, SpecTypes DEF BucketType, Props, Objects, BucketSpecs
<1> QED
  BY <1>2, <1>3 DEF TruthInv, PassTruthful, ActiveStays, Accepts

LEMMA RiakStays == ASSUME TypeOK, [Next]_vars PROVE ActiveStays
<1>1. ASSUME NEW o \in Objs, Pass(o) PROVE ActiveStays
  <2>1. BucketType(o) \in Types
    BY PassData
  <2>2. CASE UNCHANGED riak
    BY <2>2 DEF ActiveStays
  <2>3. CASE Create(o) \/ Activate(o) \/ Update(o) \/ CallFails(o)
    BY <2>1, <2>3, SMTT(30) DEF Create, Activate, Update, CallFails, ActiveStays, TypeOK, BucketTypes
  <2> QED
    BY <1>1, <2>2, <2>3 DEF Pass, RemoveFinalizer, AddFinalizer, InitStatus, ApiFails, CheckCluster,
                            Record, Write
<1>2. CASE UNCHANGED riak
  BY <1>2 DEF ActiveStays
<1> QED
  BY <1>1, <1>2 DEF Next, StartPass, User, CreateObject, EditSpec, DeleteObject, Edit,
                    ClusterChanges, OperatorRestart, vars

\* A pass that ends leaves a truthful object if what it last wrote was.
LEMMA EndsTruthful ==
    ASSUME TypeOK, NEW o \in Objs, EndPass(o), Truthful(obj[o])'
    PROVE  PassTruthful(o)'
<1>1. pc'[o] = "idle" /\ snap'[o] = NoObj
  BY DEF EndPass, TypeOK
<1>2. Truthful(snap[o])'
  BY <1>1, NoObjBlank DEF Truthful
<1> QED
  BY <1>1, <1>2 DEF PassTruthful

LEMMA PassKeepsTruth == ASSUME TypeOK, TruthInv, ActiveStays, NEW o \in Objs, Pass(o) PROVE TruthInv'
<1>1. \A p \in Objs \ {o} : obj'[p] = obj[p] /\ snap'[p] = snap[p] /\ pc'[p] = pc[p]
  BY DEF Pass, RemoveFinalizer, AddFinalizer, InitStatus, ApiFails, CheckCluster, Create, Activate,
         Update, CallFails, Record, Write, TryWrite, FailBucket, Requeue, EndPass, Goto, TypeOK
<1>2. \A p \in Objs \ {o} : PassTruthful(p)'
  BY <1>1, OthersTruthful
<1>3. obj[o] \in Objects /\ snap[o] \in Objects /\ BucketType(o) \in Types
  BY PassData
<1>4. PassTruthful(o) /\ \A x \in Objects : Truthful(x) => Truthful(x)'
  BY StaysTruthful DEF TruthInv
<1>5. ASSUME UNCHANGED <<obj, snap>>,
             pc'[o] \in {"update", "record"} => riak'[BucketType(o)].state = "active",
             pc'[o] \in {"activate", "update", "record"} => Accepts(Props(o))
      PROVE  PassTruthful(o)'
  <2>1. BucketType(o)' = BucketType(o) /\ Props(o)' = Props(o)
    BY <1>5 DEF BucketType, Props
  <2> QED
    BY <1>3, <1>4, <1>5, <2>1 DEF PassTruthful, Truthful, Accepts
<1>6. CASE RemoveFinalizer(o)
  <2>1. obj'[o] = NoObj /\ EndPass(o)
    BY <1>6 DEF RemoveFinalizer, TypeOK
  <2> QED
    BY <1>2, <2>1, EndsTruthful, NoObjBlank DEF Truthful, TruthInv
<1>7. CASE AddFinalizer(o) \/ InitStatus(o)
  <2>1. PICK v \in Objects :
          /\ obj'[o] = v /\ snap'[o] = v /\ UNCHANGED riak
          /\ \/ v.phase = "Creating"
             \/ /\ v.phase = snap[o].phase /\ v.bucketType = snap[o].bucketType
                /\ v.properties = snap[o].properties /\ v.nVal = snap[o].nVal
    <3>1. [snap[o] EXCEPT !.final = TRUE] \in Objects /\ [snap[o] EXCEPT !.phase = "Creating"] \in Objects
      BY <1>3 DEF Objects
    <3>2. CASE AddFinalizer(o)
      BY <1>3, <1>7, <3>1, <3>2 DEF Objects, AddFinalizer, Write, TypeOK
    <3>3. CASE InitStatus(o)
      BY <1>3, <1>7, <3>1, <3>3 DEF InitStatus, Write, TypeOK, Objects
    <3> QED
      BY <1>7, <3>2, <3>3
  <2>2. Truthful(obj[o])' /\ Truthful(snap[o])'
    BY <1>3, <1>4, <2>1 DEF PassTruthful, Truthful
  <2>3. pc'[o] \in {"init", "cluster"}
    BY <1>7 DEF AddFinalizer, InitStatus, Goto, TypeOK
  <2> QED
    BY <1>2, <2>2, <2>3 DEF PassTruthful, TruthInv
<1>8. CASE ApiFails(o)
  BY <1>2, <1>3, <1>4, <1>8, EndsTruthful DEF ApiFails, Requeue, TruthInv, PassTruthful, Truthful
<1>9. ASSUME FailBucket(o) PROVE PassTruthful(o)'
  <2>1. obj'[o] = obj[o] \/ obj'[o].phase = "Failed"
    <3>1. [snap[o] EXCEPT !.phase = "Failed", !.ready = "false"].phase = "Failed"
      BY <1>3 DEF Objects
    <3> QED
      BY <1>9, <3>1 DEF FailBucket, TryWrite, TypeOK
  <2>2. Truthful(obj[o])'
    BY <1>3, <1>4, <2>1 DEF Truthful, PassTruthful
  <2> QED
    BY <1>9, <2>2, EndsTruthful DEF FailBucket, Requeue
<1>10. CASE CheckCluster(o)
  <2>1. CASE cluster = "missing"
    BY <1>2, <1>9, <1>10, <2>1 DEF CheckCluster, TruthInv
  <2>2. CASE cluster = "notready"
    <3>1. EndPass(o) /\ UNCHANGED riak
          /\ (obj'[o] = obj[o] \/ obj'[o] = [snap[o] EXCEPT !.ready = "false"])
      BY <1>3, <1>10, <2>2 DEF CheckCluster, Requeue, TryWrite, TypeOK, Objects
    <3>2. Truthful(obj[o])'
      BY <1>3, <1>4, <3>1 DEF Truthful, PassTruthful, Objects
    <3> QED
      BY <1>2, <3>1, <3>2, EndsTruthful DEF TruthInv
  <2>3. CASE cluster = "ready"
    BY <1>2, <1>5, <1>10, <2>3 DEF CheckCluster, Goto, TypeOK, TruthInv
  <2> QED
    BY <2>1, <2>2, <2>3 DEF TypeOK
<1>11. CASE Create(o)
  <2>1. Accepts(Props(o)) /\ UNCHANGED <<obj, snap>>
    BY <1>11 DEF Create
  <2>2. pc'[o] \in {"update", "record"} => riak'[BucketType(o)].state = "active"
    BY <1>11 DEF Create, Goto, TypeOK
  <2> QED
    BY <1>2, <1>5, <2>1, <2>2 DEF TruthInv
<1>12. CASE Activate(o)
  <2>1. UNCHANGED <<obj, snap>> /\ riak'[BucketType(o)].state = "active" /\ Accepts(Props(o))
    BY <1>3, <1>4, <1>12 DEF Activate, TypeOK, BucketTypes, PassTruthful
  <2> QED
    BY <1>2, <1>5, <2>1 DEF TruthInv
<1>13. CASE Update(o)
  <2>1. UNCHANGED <<obj, snap>> /\ riak'[BucketType(o)].state = "active" /\ Accepts(Props(o))
    BY <1>3, <1>4, <1>13 DEF Update, PassTruthful, ActiveStays
  <2> QED
    BY <1>2, <1>5, <2>1 DEF TruthInv
<1>14. CASE CallFails(o)
  BY <1>2, <1>9, <1>14 DEF CallFails, TruthInv
<1>15. CASE Record(o)
  <2>1. /\ obj'[o].bucketType = BucketType(o)
        /\ obj'[o].properties = EffectiveProperties(snap[o].spec)
        /\ obj'[o].nVal = EffectiveNVal(snap[o].spec) /\ EndPass(o)
    BY <1>3, <1>15 DEF Record, TypeOK, Objects
  <2>2. riak'[BucketType(o)].state = "active" /\ Accepts(Props(o))
    BY <1>3, <1>4, <1>15 DEF Record, PassTruthful
  <2>3. Reports(EffectiveNVal(snap[o].spec), EffectiveProperties(snap[o].spec).n_val)
    BY <1>3, <2>2, NValOfSpec DEF Props, Objects
  <2>4. Truthful(obj[o])'
    BY <2>1, <2>2, <2>3 DEF Truthful
  <2> QED
    BY <1>2, <2>1, <2>4, EndsTruthful DEF TruthInv
<1> QED
  BY <1>6, <1>7, <1>8, <1>10, <1>11, <1>12, <1>13, <1>14, <1>15 DEF Pass

LEMMA EditKeepsTruth ==
    ASSUME TypeOK, TruthInv, NEW o \in Objs, NEW v \in Objects, Edit(o, v), Truthful(v)
    PROVE  TruthInv'
<1>1. UNCHANGED <<riak, pc, snap>> /\ obj'[o] = v /\ \A p \in Objs \ {o} : obj'[p] = obj[p]
  BY DEF Edit, TypeOK
<1>2. \A p \in Objs : BucketType(p)' = BucketType(p) /\ Props(p)' = Props(p)
  BY <1>1 DEF BucketType, Props
<1> QED
  BY <1>1, <1>2, SMTT(30) DEF TruthInv, PassTruthful, Truthful, Accepts

LEMMA StepKeepsTruth == ASSUME TypeOK, TruthInv, [Next]_vars PROVE TruthInv'
<1>1. ActiveStays
  BY RiakStays
<1>2. ASSUME NEW o \in Objs, StartPass(o) PROVE TruthInv'
  <2>1. UNCHANGED <<obj, riak>> /\ \A p \in Objs \ {o} : snap'[p] = snap[p] /\ pc'[p] = pc[p]
    BY <1>2 DEF StartPass, TypeOK
  <2>2. \A p \in Objs \ {o} : PassTruthful(p)'
    BY <1>1, <2>1, OthersTruthful
  <2>3. pc'[o] \notin {"activate", "update", "record"} /\ snap'[o] \in {obj[o], snap[o]}
    BY <1>2 DEF StartPass, TypeOK
  <2>4. PassTruthful(o)'
    BY <2>1, <2>3 DEF TruthInv, PassTruthful, Truthful
  <2> QED
    BY <2>2, <2>4 DEF TruthInv
<1>3. ASSUME NEW o \in Objs, User(o) PROVE TruthInv'
  <2>1. obj[o] \in Objects /\ Truthful(obj[o])
    BY PassData DEF TruthInv, PassTruthful
  <2>2. ASSUME NEW s \in Specs, CreateObject(o, s) PROVE TruthInv'
    <3>1. /\ [NoObj EXCEPT !.here = TRUE, !.spec = s] \in Objects
          /\ [NoObj EXCEPT !.here = TRUE, !.spec = s].phase = NoObj.phase
      BY NoObjType DEF Objects
    <3> QED
      BY <2>2, <3>1, EditKeepsTruth, NoObjBlank DEF CreateObject, Truthful
  <2>3. ASSUME NEW s \in Specs, EditSpec(o, s) PROVE TruthInv'
    <3>1. [obj[o] EXCEPT !.spec = s] \in Objects /\ Truthful([obj[o] EXCEPT !.spec = s])
      BY <2>1 DEF Objects, Truthful
    <3> QED
      BY <2>3, <3>1, EditKeepsTruth DEF EditSpec
  <2>4. CASE DeleteObject(o)
    <3>1. [obj[o] EXCEPT !.deleting = TRUE] \in Objects /\ Truthful([obj[o] EXCEPT !.deleting = TRUE])
      BY <2>1 DEF Objects, Truthful
    <3>2. Truthful(NoObj)
      BY NoObjBlank DEF Truthful
    <3> QED
      BY <2>4, <3>1, <3>2, EditKeepsTruth, NoObjType DEF DeleteObject
  <2> QED
    BY <1>3, <2>2, <2>3, <2>4 DEF User
<1>4. ASSUME UNCHANGED <<obj, riak, pc, snap>> PROVE TruthInv'
  BY <1>4 DEF TruthInv, PassTruthful, Truthful, BucketType, Props, Accepts
<1>5. CASE OperatorRestart
  <2>1. UNCHANGED <<obj, riak>> /\ \A o \in Objs : pc'[o] = "idle" /\ snap'[o] = NoObj
    BY <1>5 DEF OperatorRestart
  <2> QED
    BY <2>1, NoObjBlank DEF TruthInv, PassTruthful, Truthful
<1> QED
  BY <1>1, <1>2, <1>3, <1>4, <1>5, PassKeepsTruth DEF Next, ClusterChanges, vars, passVars

LEMMA TruthInvariant == Spec => [](TypeOK /\ TruthInv)
<1>1. Init => TruthInv
  BY NoObjBlank, SMTT(30) DEF Init, TruthInv, PassTruthful, Truthful
<1> QED
  BY <1>1, StepKeepsTruth, BucketTypeCorrect, PTL DEF Spec

\* For every number of objects, types and workers: a bucket type that a Ready
\* object names is active in Riak, though another worker may be creating it
\* again, and a pass that fails writes back a copy read earlier (CreateBucket,
\* failBucket).
THEOREM RecordedTypesAreActive == Spec => []RecordedIsActive
<1>1. TruthInv => RecordedIsActive
  BY DEF TruthInv, PassTruthful, Truthful, RecordedIsActive
<1> QED
  BY <1>1, TruthInvariant, PTL

\* For every spec, whichever field n_val comes from and however its text is
\* spelled: a status.nVal that is not 0 is the n_val Riak was sent, and a 0
\* means that none was sent, that it does not fit 32 bits, or that JSON alone
\* reads its text (effectiveBucketProperties, CreateBucket).
THEOREM ReportedNValIsSent == Spec => []NValReported
<1>1. TruthInv => NValReported
  BY DEF TruthInv, PassTruthful, Truthful, Reports, NValReported
<1> QED
  BY <1>1, TruthInvariant, PTL

-----------------------------------------------------------------------------
(***************************************************************************)
(* What is applied.  While no two passes over one type have run at once,   *)
(* the type of a pass changes under no other pass's hands, so at "record"  *)
(* it carries what the pass asks for.  It keeps doing so when a pass over  *)
(* another object updates it later: that pass works on a copy of its       *)
(* object, perhaps an outdated one, but on one that was compatible with    *)
(* every object settled now.                                               *)
(***************************************************************************)
Agree(s, t) ==
    s.type = t.type =>
        Overlay(SentProperties(s), SentProperties(t)) = Overlay(SentProperties(t), SentProperties(s))

\* A pass whose object nobody changed has the object as it is.
FreshInv == \A o \in Objs : pc[o] # "idle" /\ ~stale[o] => obj[o] = snap[o]
SpecsInv == \A o, p \in Objs : o # p /\ obj[o].here /\ obj[p].here => Agree(obj[o].spec, obj[p].spec)
ApartInv ==
    ~overlapped => \A o, p \in Objs :
        o # p /\ pc[o] # "idle" /\ pc[p] # "idle" => BucketType(o) # BucketType(p)

Applied(o) ==
    LET t == obj[o].spec.type
        p == EffectiveProperties(obj[o].spec) IN
    /\ obj[o].phase = "Ready" /\ obj[o].ready = "true"
    /\ obj[o].bucketType = t /\ obj[o].properties = p
    /\ riak[t].state = "active" /\ Carries(riak[t].props, Parsed(p))

PassApplied(o) ==
    /\ Settled(o) => Applied(o)
    /\ pc[o] \in {"activate", "record"} => Carries(riak[BucketType(o)].props, Props(o))
    /\ \A p \in Objs : Settled(o) /\ pc[p] # "idle" => Agree(obj[o].spec, snap[p].spec)
AppliedInv == ~overlapped => \A o \in Objs : PassApplied(o)

\* Updating with properties that agree loses none of those carried.
LEMMA OverlayKeeps ==
    ASSUME NEW props \in Properties, NEW a \in Properties, NEW b \in Properties,
           Carries(props, a), Overlay(a, b) = Overlay(b, a)
    PROVE  Carries(Overlay(props, b), a)
BY SMTT(30) DEF Carries, Overlay, Properties

LEMMA OverlayCarries ==
    ASSUME NEW props \in Properties, NEW a \in Properties
    PROVE  /\ Carries(Overlay(props, a), a) /\ Carries(a, a)
           /\ a = NoProps => Carries(props, a)
BY SMTT(30) DEF Carries, Overlay, Properties, NoProps

\* A pass leaves other objects and passes alone, works on one spec to its end,
\* and writes no spec; only Record ends it with nothing left to do.
LEMMA PassShape ==
    ASSUME TypeOK, FreshInv, NEW o \in Objs, Pass(o)
    PROVE  /\ \A p \in Objs \ {o} : /\ obj'[p] = obj[p] /\ snap'[p] = snap[p]
                                    /\ pc'[p] = pc[p] /\ stale'[p] = stale[p]
           /\ \A p \in Objs \ {o} : p \in queued' <=> p \in queued
           /\ pc[o] # "idle" /\ UNCHANGED overlapped
           /\ pc'[o] # "idle" => snap'[o].spec = snap[o].spec
           /\ pc'[o] # "idle" /\ ~stale'[o] => obj'[o] = snap'[o]
           /\ obj'[o].here => obj[o].here /\ obj'[o].spec = obj[o].spec
           /\ Settled(o)' => Record(o)
<1>1. obj[o] \in Objects /\ snap[o] \in Objects
  BY PassData
<1>2. /\ \A p \in Objs \ {o} : /\ obj'[p] = obj[p] /\ snap'[p] = snap[p]
                               /\ pc'[p] = pc[p] /\ stale'[p] = stale[p]
      /\ \A p \in Objs \ {o} : p \in queued' <=> p \in queued
      /\ pc[o] # "idle" /\ UNCHANGED overlapped
  BY DEF Pass, RemoveFinalizer, AddFinalizer, InitStatus, ApiFails, CheckCluster, Create, Activate,
         Update, CallFails, Record, Write, TryWrite, FailBucket, Requeue, EndPass, Goto, TypeOK
<1>3. ASSUME UNCHANGED <<obj, snap, stale>>, pc'[o] # "idle"
      PROVE  /\ pc'[o] # "idle" => snap'[o].spec = snap[o].spec
             /\ pc'[o] # "idle" /\ ~stale'[o] => obj'[o] = snap'[o]
             /\ obj'[o].here => obj[o].here /\ obj'[o].spec = obj[o].spec
             /\ Settled(o)' => Record(o)
  BY <1>2, <1>3 DEF FreshInv, Settled
<1>4. ASSUME EndPass(o), obj'[o].here => obj[o].here /\ obj'[o].spec = obj[o].spec,
             Settled(o)' => Record(o)
      PROVE  /\ pc'[o] # "idle" => snap'[o].spec = snap[o].spec
             /\ pc'[o] # "idle" /\ ~stale'[o] => obj'[o] = snap'[o]
             /\ obj'[o].here => obj[o].here /\ obj'[o].spec = obj[o].spec
             /\ Settled(o)' => Record(o)
  BY <1>4 DEF EndPass, TypeOK
<1>5. ~stale[o] => obj[o] = snap[o]
  BY <1>2 DEF FreshInv
<1>6. ASSUME Requeue(o) PROVE EndPass(o) /\ ~Settled(o)'
  BY <1>6 DEF Requeue, Settled
<1>7. CASE RemoveFinalizer(o)
  <2>1. obj'[o] = NoObj /\ EndPass(o)
    BY <1>7 DEF RemoveFinalizer, TypeOK
  <2>2. ~obj'[o].here /\ ~Settled(o)'
    BY <2>1, NoObjBlank DEF Settled
  <2> QED
    BY <1>2, <1>4, <2>1, <2>2
<1>8. CASE AddFinalizer(o) \/ InitStatus(o)
  <2>1. PICK v \in {[snap[o] EXCEPT !.final = TRUE], [snap[o] EXCEPT !.phase = "Creating"]} : Write(o, v)
    BY <1>8 DEF AddFinalizer, InitStatus
  <2>2. v.spec = snap[o].spec /\ v.here = snap[o].here
    BY <1>1, <2>1 DEF Objects
  <2>3. obj'[o] = v /\ snap'[o] = v /\ ~stale[o]
    BY <2>1 DEF Write, TypeOK
  <2>4. pc'[o] # "idle"
    BY <1>8 DEF AddFinalizer, InitStatus, Goto, TypeOK
  <2> QED
    BY <1>2, <1>5, <2>2, <2>3, <2>4 DEF Settled
<1>9. CASE ApiFails(o)
  BY <1>2, <1>4, <1>6, <1>9 DEF ApiFails
<1>10. ASSUME NEW v, v.spec = snap[o].spec, v.here = snap[o].here, TryWrite(o, v)
       PROVE  obj'[o].here => obj[o].here /\ obj'[o].spec = obj[o].spec
  BY <1>1, <1>5, <1>10 DEF TryWrite, TypeOK
<1>11. ASSUME FailBucket(o) PROVE obj'[o].here => obj[o].here /\ obj'[o].spec = obj[o].spec
  <2>1. /\ [snap[o] EXCEPT !.phase = "Failed", !.ready = "false"].spec = snap[o].spec
        /\ [snap[o] EXCEPT !.phase = "Failed", !.ready = "false"].here = snap[o].here
    BY <1>1 DEF Objects
  <2> QED
    BY <1>10, <1>11, <2>1 DEF FailBucket
<1>12. CASE CheckCluster(o)
  <2>1. CASE cluster = "missing"
    BY <1>2, <1>4, <1>6, <1>11, <1>12, <2>1 DEF CheckCluster, FailBucket
  <2>2. CASE cluster = "notready"
    <3>1. /\ [snap[o] EXCEPT !.ready = "false"].spec = snap[o].spec
          /\ [snap[o] EXCEPT !.ready = "false"].here = snap[o].here
      BY <1>1 DEF Objects
    <3> QED
      BY <1>2, <1>4, <1>6, <1>10, <1>12, <2>2, <3>1 DEF CheckCluster
  <2>3. CASE cluster = "ready"
    BY <1>2, <1>3, <1>12, <2>3 DEF CheckCluster, Goto, TypeOK
  <2> QED
    BY <2>1, <2>2, <2>3 DEF TypeOK
<1>13. CASE Create(o) \/ Activate(o) \/ Update(o)
  BY <1>2, <1>3, <1>13 DEF Create, Activate, Update, Goto, TypeOK
<1>14. CASE CallFails(o)
  BY <1>2, <1>4, <1>6, <1>11, <1>14 DEF CallFails, FailBucket
<1>15. CASE Record(o)
  <2>1. EndPass(o) /\ obj'[o].spec = snap[o].spec /\ obj'[o].here = snap[o].here /\ ~stale[o]
    BY <1>1, <1>15 DEF Record, TypeOK, Objects
  <2> QED
    BY <1>2, <1>4, <1>5, <1>15, <2>1
<1> QED
  BY <1>7, <1>8, <1>9, <1>12, <1>13, <1>14, <1>15 DEF Pass

\* A pass touches its own type only, and once that is active adds to it at most.
LEMMA PassRiak ==
    ASSUME TypeOK, NEW o \in Objs, Pass(o)
    PROVE  /\ \A t \in Types \ {BucketType(o)} : riak'[t] = riak[t]
           /\ riak[BucketType(o)].state = "active" =>
                /\ riak'[BucketType(o)].state = "active"
                /\ riak'[BucketType(o)].props \in {riak[BucketType(o)].props,
                       Overlay(riak[BucketType(o)].props, Props(o))}
<1>1. BucketType(o) \in Types
  BY PassData
<1>2. CASE UNCHANGED riak
  BY <1>2
<1>3. CASE Create(o) \/ Activate(o) \/ Update(o) \/ CallFails(o)
  BY <1>1, <1>3, SMTT(30) DEF Create, Activate, Update, CallFails, TypeOK, BucketTypes
<1> QED
  BY <1>2, <1>3 DEF Pass, RemoveFinalizer, AddFinalizer, InitStatus, ApiFails, CheckCluster,
                          Record, Write

AppliedIInv == FreshInv /\ SpecsInv /\ ApartInv /\ AppliedInv

LEMMA PassKeepsApplied ==
    ASSUME TypeOK, TruthInv, AppliedIInv, NEW o \in Objs, Pass(o)
    PROVE  AppliedIInv'
<1>1. FreshInv /\ SpecsInv /\ ApartInv /\ AppliedInv
  BY DEF AppliedIInv
<1>2. /\ \A p \in Objs \ {o} : /\ obj'[p] = obj[p] /\ snap'[p] = snap[p]
                               /\ pc'[p] = pc[p] /\ stale'[p] = stale[p]
      /\ \A p \in Objs \ {o} : p \in queued' <=> p \in queued
      /\ pc[o] # "idle" /\ UNCHANGED overlapped
  BY <1>1, PassShape
<1>3. /\ pc'[o] # "idle" => snap'[o].spec = snap[o].spec
      /\ pc'[o] # "idle" /\ ~stale'[o] => obj'[o] = snap'[o]
      /\ obj'[o].here => obj[o].here /\ obj'[o].spec = obj[o].spec
      /\ Settled(o)' => Record(o)
  BY <1>1, PassShape
<1>4. FreshInv'
  BY <1>1, <1>2, <1>3 DEF FreshInv
<1>5. SpecsInv'
  BY <1>1, <1>2, <1>3 DEF SpecsInv
<1>6. ApartInv'
  BY <1>1, <1>2, <1>3, SMTT(30) DEF ApartInv, BucketType
<1>7. ASSUME ~overlapped PROVE \A p \in Objs : PassApplied(p)'
  <2>1. \A p \in Objs : PassApplied(p)
    BY <1>1, <1>7 DEF AppliedInv
  <2>2. snap[o].spec \in Specs \cup {NoSpec} /\ BucketType(o) \in Types /\ Props(o) \in Properties
    BY PassData
  <2>3. riak[BucketType(o)].props \in Properties /\ riak \in [Types -> BucketTypes]
    BY <2>2 DEF TypeOK, BucketTypes
  <2>4. ASSUME NEW p \in Objs \ {o} PROVE PassApplied(p)'
    <3>1. /\ Settled(p)' <=> Settled(p)
          /\ BucketType(p)' = BucketType(p) /\ Props(p)' = Props(p)
          /\ obj'[p] = obj[p] /\ snap'[p] = snap[p] /\ pc'[p] = pc[p]
      BY <1>2 DEF Settled, BucketType, Props
    <3>2. PassApplied(p) /\ obj[p].spec \in Specs \cup {NoSpec} /\ BucketType(p) \in Types
      BY <2>1, PassData
    <3>3. ASSUME Settled(p) PROVE Applied(p)'
      <4> DEFINE t == obj[p].spec.type
                 a == SentProperties(obj[p].spec)
      <4>1. t \in Types /\ a \in Properties
        BY <3>2, SpecTypes DEF BucketSpecs
      <4>2. Applied(p) /\ Agree(obj[p].spec, snap[o].spec)
        BY <1>2, <3>2, <3>3 DEF PassApplied
      <4>3. riak[t].state = "active" /\ Carries(riak[t].props, a)
        BY <4>2 DEF Applied, SentProperties
      <4>4. riak'[t].state = "active" /\ Carries(riak'[t].props, a)
        <5>1. CASE t # BucketType(o)
          BY <4>1, <4>3, <5>1, PassRiak
        <5>2. CASE t = BucketType(o)
          <6>1. Overlay(a, Props(o)) = Overlay(Props(o), a)
            BY <4>2, <5>2 DEF Agree, BucketType, Props
          <6>2. Carries(Overlay(riak[t].props, Props(o)), a)
            BY <2>2, <2>3, <4>1, <4>3, <5>2, <6>1, OverlayKeeps
          <6> QED
            BY <4>3, <5>2, <6>2, PassRiak
        <5> QED
          BY <5>1, <5>2
      <4> QED
        BY <3>1, <4>2, <4>4 DEF Applied, SentProperties
    <3>4. ASSUME pc[p] \in {"activate", "record"}
          PROVE  Carries(riak'[BucketType(p)].props, Props(p))
      <4>1. BucketType(p) # BucketType(o)
        BY <1>1, <1>2, <1>7, <3>4 DEF ApartInv
      <4> QED
        BY <3>2, <3>4, <4>1, PassRiak DEF PassApplied
    <3>5. ASSUME NEW q \in Objs, Settled(p), pc'[q] # "idle" PROVE Agree(obj[p].spec, snap'[q].spec)
      BY <1>2, <1>3, <3>2, <3>5 DEF PassApplied
    <3> QED
      BY <3>1, <3>3, <3>4, <3>5 DEF PassApplied
  <2>5. CASE pc'[o] # "idle"
    <3>1. ASSUME pc'[o] \in {"activate", "record"} PROVE Carries(riak'[BucketType(o)].props, Props(o))
      <4>1. Create(o) \/ Activate(o) \/ Update(o)
        BY <2>5, <3>1 DEF Pass, RemoveFinalizer, AddFinalizer, InitStatus, ApiFails, CheckCluster,
               CallFails, Record, FailBucket, Requeue, EndPass, Goto, TypeOK
      <4>2. CASE Create(o)
        <5>1. CASE riak[BucketType(o)].state # "active"
          BY <2>2, <2>3, <4>2, <5>1, OverlayCarries, SMTT(30) DEF Create
        <5>2. CASE riak[BucketType(o)].state = "active"
          <6>1. Props(o) = NoProps /\ UNCHANGED riak
            BY <3>1, <4>2, <5>2 DEF Create, Goto, TypeOK
          <6> QED
            BY <2>2, <2>3, <6>1, OverlayCarries
        <5> QED
          BY <5>1, <5>2
      <4>3. CASE Activate(o)
        <5>1. riak'[BucketType(o)].props = riak[BucketType(o)].props
          BY <2>2, <2>3, <4>3 DEF Activate, BucketTypes
        <5> QED
          BY <2>1, <4>3, <5>1 DEF Activate, PassApplied
      <4>4. CASE Update(o)
        <5>1. riak'[BucketType(o)].props = Overlay(riak[BucketType(o)].props, Props(o))
          BY <2>2, <2>3, <4>4 DEF Update, BucketTypes
        <5> QED
          BY <2>2, <2>3, <5>1, OverlayCarries
      <4> QED
        BY <4>1, <4>2, <4>3, <4>4
    <3>2. BucketType(o)' = BucketType(o) /\ Props(o)' = Props(o)
      BY <1>3, <2>5 DEF BucketType, Props
    <3>3. ~Settled(o)'
      BY <2>5 DEF Settled
    <3>4. PassApplied(o)'
      BY <3>1, <3>2, <3>3 DEF PassApplied
    <3> QED
      BY <2>4, <3>4
  <2>6. CASE pc'[o] = "idle" /\ ~Record(o)
    BY <1>3, <2>4, <2>6 DEF PassApplied
  <2>7. CASE Record(o)
    <3>1. /\ obj'[o].phase = "Ready" /\ obj'[o].ready = "true" /\ obj'[o].spec = snap[o].spec
          /\ obj'[o].bucketType = BucketType(o)
          /\ obj'[o].properties = EffectiveProperties(snap[o].spec)
      BY <2>7, PassData DEF Record, TypeOK, Objects
    <3>2. pc'[o] = "idle" /\ pc[o] = "record" /\ UNCHANGED riak
      BY <2>7 DEF Record, EndPass, TypeOK
    <3>3. riak[BucketType(o)].state = "active" /\ Carries(riak[BucketType(o)].props, Props(o))
      BY <2>1, <3>2 DEF TruthInv, PassTruthful, PassApplied
    <3>4. Applied(o)'
      BY <3>1, <3>2, <3>3 DEF Applied, BucketType, Props, SentProperties
    <3>5. ASSUME NEW p \in Objs, pc'[p] # "idle" PROVE Agree(obj'[o].spec, snap'[p].spec)
      <4>1. p # o /\ snap'[p] = snap[p] /\ BucketType(p) # BucketType(o)
        BY <1>1, <1>2, <1>7, <3>2, <3>5 DEF ApartInv
      <4> QED
        BY <3>1, <4>1 DEF Agree, BucketType
    <3> QED
      BY <2>4, <3>2, <3>4, <3>5 DEF PassApplied
  <2> QED
    BY <2>5, <2>6, <2>7
<1> QED
  BY <1>2, <1>4, <1>5, <1>6, <1>7 DEF AppliedIInv, AppliedInv

LEMMA EditKeepsApplied ==
    ASSUME TypeOK, AppliedIInv, NEW o \in Objs, NEW v, Edit(o, v),
           v.here => \A p \in Objs \ {o} : obj[p].here => Agree(v.spec, obj[p].spec)
    PROVE  AppliedIInv'
<1>1. FreshInv /\ SpecsInv /\ ApartInv /\ AppliedInv
  BY DEF AppliedIInv
<1>2. /\ UNCHANGED <<riak, pc, snap, overlapped>>
      /\ obj'[o] = v /\ stale'[o] = (pc[o] # "idle") /\ o \in queued'
      /\ \A p \in Objs \ {o} : /\ obj'[p] = obj[p] /\ stale'[p] = stale[p]
                               /\ p \in queued' <=> p \in queued
  BY DEF Edit, TypeOK
<1>3. FreshInv'
  BY <1>1, <1>2 DEF FreshInv
<1>4. SpecsInv'
  BY <1>1, <1>2, SMTT(30) DEF SpecsInv, Agree
<1>5. ApartInv'
  BY <1>1, <1>2 DEF ApartInv, BucketType
<1>6. ASSUME ~overlapped, NEW p \in Objs PROVE PassApplied(p)'
  <2>1. /\ Settled(p)' => Settled(p) /\ p # o
        /\ BucketType(p)' = BucketType(p) /\ Props(p)' = Props(p)
    BY <1>2 DEF Settled, BucketType, Props
  <2> QED
    BY <1>1, <1>2, <1>6, <2>1 DEF AppliedInv, PassApplied, Applied
<1> QED
  BY <1>2, <1>3, <1>4, <1>5, <1>6 DEF AppliedIInv, AppliedInv

LEMMA UserKeepsApplied ==
    ASSUME TypeOK, AppliedIInv, NEW o \in Objs, User(o) PROVE AppliedIInv'
<1>1. obj[o] \in Objects
  BY PassData
<1>2. ASSUME NEW s, Compatible(o, s)
      PROVE  \A p \in Objs \ {o} : obj[p].here => Agree(s, obj[p].spec)
  BY <1>2 DEF Compatible, Agree
<1>3. ASSUME NEW s \in Specs, CreateObject(o, s) PROVE AppliedIInv'
  <2>1. [NoObj EXCEPT !.here = TRUE, !.spec = s].spec = s
    BY NoObjType DEF Objects
  <2> QED
    BY <1>2, <1>3, <2>1, EditKeepsApplied DEF CreateObject
<1>4. ASSUME NEW s \in Specs, EditSpec(o, s) PROVE AppliedIInv'
  <2>1. [obj[o] EXCEPT !.spec = s].spec = s
    BY <1>1 DEF Objects
  <2> QED
    BY <1>2, <1>4, <2>1, EditKeepsApplied DEF EditSpec
<1>5. CASE DeleteObject(o)
  <2>1. [obj[o] EXCEPT !.deleting = TRUE].spec = obj[o].spec
    BY <1>1 DEF Objects
  <2>2. \A p \in Objs \ {o} : obj[p].here => Agree(obj[o].spec, obj[p].spec)
    BY <1>5 DEF DeleteObject, AppliedIInv, SpecsInv
  <2> QED
    BY <1>5, <2>1, <2>2, EditKeepsApplied, NoObjBlank DEF DeleteObject
<1> QED
  BY <1>3, <1>4, <1>5 DEF User

LEMMA StartKeepsApplied ==
    ASSUME TypeOK, AppliedIInv, NEW o \in Objs, StartPass(o) PROVE AppliedIInv'
<1>1. FreshInv /\ SpecsInv /\ ApartInv /\ AppliedInv
  BY DEF AppliedIInv
<1>2. /\ UNCHANGED <<obj, riak, stale>> /\ pc[o] = "idle"
      /\ \A p \in Objs \ {o} : /\ snap'[p] = snap[p] /\ pc'[p] = pc[p]
                               /\ p \in queued' <=> p \in queued
      /\ pc'[o] \notin {"activate", "record"}
  BY DEF StartPass, TypeOK
<1>3. CASE obj[o].here
  <2>1. /\ pc'[o] # "idle" /\ snap'[o] = obj[o]
        /\ ~overlapped' => ~overlapped /\ \A p \in Busy : BucketType(p) # obj[o].spec.type
    BY <1>3 DEF StartPass, TypeOK
  <2>2. FreshInv'
    BY <1>1, <1>2, <2>1 DEF FreshInv
  <2>3. ApartInv'
    BY <1>1, <1>2, <2>1, SMTT(30) DEF ApartInv, BucketType, Busy
  <2>4. ASSUME ~overlapped', NEW p \in Objs PROVE PassApplied(p)'
    <3>1. Settled(p)' => Settled(p) /\ p # o
      BY <1>2, <2>1 DEF Settled
    <3>2. p # o => BucketType(p)' = BucketType(p) /\ Props(p)' = Props(p)
      BY <1>2 DEF BucketType, Props
    <3>3. PassApplied(p)
      BY <1>1, <2>1, <2>4 DEF AppliedInv
    <3>4. Settled(p) /\ p # o => Agree(obj[p].spec, snap'[o].spec)
      BY <1>1, <1>3, <2>1 DEF Settled, SpecsInv
    <3> QED
      BY <1>2, <3>1, <3>2, <3>3, <3>4 DEF PassApplied, Applied
  <2> QED
    BY <1>1, <1>2, <2>2, <2>3, <2>4 DEF AppliedIInv, AppliedInv, SpecsInv
<1>4. CASE ~obj[o].here
  <2>1. UNCHANGED <<obj, riak, stale, pc, snap, overlapped>>
    BY <1>4 DEF StartPass
  <2>2. \A p \in Objs : Settled(p)' => Settled(p)
    BY <1>2, <1>4, <2>1 DEF Settled
  <2> QED
    BY <1>1, <2>1, <2>2 DEF AppliedIInv, FreshInv, SpecsInv, ApartInv, AppliedInv, PassApplied,
                            Applied, BucketType, Props
<1> QED
  BY <1>3, <1>4

LEMMA StepKeepsApplied == ASSUME TypeOK, TruthInv, AppliedIInv, [Next]_vars PROVE AppliedIInv'
<1>1. ASSUME UNCHANGED <<obj, riak, queued, pc, snap, stale, overlapped>> PROVE AppliedIInv'
  BY <1>1 DEF AppliedIInv, FreshInv, SpecsInv, ApartInv, AppliedInv, PassApplied, Applied, Settled,
              BucketType, Props
<1>2. CASE OperatorRestart
  <2>1. /\ UNCHANGED <<obj, riak, overlapped>> /\ \A o \in Objs : pc'[o] = "idle"
        /\ \A o \in Objs : obj[o].here => o \in queued'
    BY <1>2 DEF OperatorRestart
  <2>2. \A o \in Objs : ~Settled(o)'
    BY <2>1 DEF Settled
  <2> QED
    BY <2>1, <2>2 DEF AppliedIInv, FreshInv, SpecsInv, ApartInv, AppliedInv, PassApplied
<1> QED
  BY <1>1, <1>2, PassKeepsApplied, UserKeepsApplied, StartKeepsApplied
     DEF Next, ClusterChanges, vars, passVars

\* For every number of objects, types, workers and retries: when the operator
\* is done with a RiakBucket its status has the properties of the present spec
\* and the bucket type is active and carries them, unless passes over one type
\* have run at the same time (Reconcile, CreateBucket).
THEOREM SettledBucketsAreApplied == Spec => []SettledMeansApplied
<1>1. Init => AppliedIInv
  <2> SUFFICES ASSUME Init PROVE AppliedIInv
    OBVIOUS
  <2>1. \A o \in Objs : pc[o] = "idle" /\ ~obj[o].here
    BY NoObjBlank DEF Init
  <2> QED
    BY <2>1 DEF AppliedIInv, FreshInv, SpecsInv, ApartInv, AppliedInv, PassApplied, Settled
<1>2. AppliedIInv => SettledMeansApplied
  BY DEF AppliedIInv, AppliedInv, PassApplied, Applied, SettledMeansApplied
<1> QED
  BY <1>1, <1>2, TruthInvariant, StepKeepsApplied, PTL DEF Spec
=============================================================================
