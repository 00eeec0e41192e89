-------------------------- MODULE BucketLifecycle --------------------------
(***************************************************************************)
(* How RiakBucket objects become bucket types: Reconcile, failBucket and   *)
(* effectiveBucketProperties of internal/controller/riakbucket_controller  *)
(* .go with CreateBucket of internal/riak/executor.go.                     *)
(*                                                                         *)
(* Passes, workers, the queue and refused writes are those of              *)
(* UserLifecycle.  Several objects may name one bucket type, as long as    *)
(* they do not ask for different values of one property.  Riak is          *)
(* external: create overwrites a type that is not active yet and is        *)
(* refused for an active one, update sets the properties it is given and   *)
(* leaves the others, and an n_val that is no positive number is refused.  *)
(*                                                                         *)
(* Left out: the names and nodes copied into the status, and a RiakCluster *)
(* that is deleted under its buckets.                                      *)
(***************************************************************************)
EXTENDS Integers, FiniteSets

CONSTANTS
    Objs,             \* RiakBucket objects of the cluster's namespace
    Types,            \* bucket types
    DefaultType,      \* Riak's built-in type "default"
    Specs,            \* the specs users write
    Int32Max,         \* the largest number status.nVal can hold
    Workers,          \* --max-concurrent-reconciles
    MaxEdits,         \* bound on what users do to RiakBucket objects
    MaxOutages,       \* bound on changes of the RiakCluster's state
    MaxRestarts       \* bound on operator restarts

(***************************************************************************)
(* A spec: nval, rf (replicationFactor) and multi are the typed fields, 0  *)
(* or FALSE if unset.  raw is properties["n_val"] and rawMulti is          *)
(* properties["allow_mult"].                                               *)
(*                                                                         *)
(* properties is a map of texts, and two parsers read n_val: ParseInt for  *)
(* the status, JSON for what Riak gets.  A text is the number it spells    *)
(* and how: "digits" (3) is read by both, "signed" (+3, 03) by ParseInt    *)
(* only, "decimal" (3.0, 3e0, a 3 with a space before it) by JSON only,    *)
(* and "word" (a name, 0, -3) by neither as a positive number.             *)
(***************************************************************************)
Flags == {"unset", "true", "false"}
Unset == [form |-> "unset", n |-> 0]
Texts == [form: {"digits", "signed", "decimal", "word"}, n: Nat \ {0}] \cup {Unset}
BucketSpecs == [type: Types, nval: Nat, rf: Nat, raw: Texts, multi: BOOLEAN, rawMulti: Flags]
NoSpec == [type |-> DefaultType, nval |-> 0, rf |-> 0, raw |-> Unset, multi |-> FALSE,
           rawMulti |-> "unset"]

ASSUME BucketAssumption ==
    /\ DefaultType \in Types /\ Specs \subseteq BucketSpecs /\ Int32Max \in Nat
    /\ \A s \in Specs : s.nval <= Int32Max /\ s.rf <= Int32Max
    /\ Workers \in Nat \ {0}
    /\ MaxEdits \in Nat /\ MaxOutages \in Nat /\ MaxRestarts \in Nat

VARIABLES
    obj,      \* the RiakBucket objects, spec and status
    cluster,  \* the RiakCluster: missing, notready or ready
    riak,     \* Riak's bucket types
    queued,   \* objects waiting for a pass
    pc,       \* where the pass over each object is
    snap,     \* the object as the pass read it and wrote it since
    stale,    \* has a user changed the object meanwhile?
    edits, outages, restarts,  \* bounds
    overlapped  \* history: have two passes over one bucket type ever run at once?

passVars == <<pc, snap, stale>>
boundVars == <<edits, outages, restarts>>
vars == <<obj, cluster, riak, queued, passVars, boundVars, overlapped>>

\* The texts of a map[string]string, and the JSON values Riak is sent: n_val
\* is 0 if there is none, and -1 if it is no positive number.
Settings == [n_val: Texts, allow_mult: Flags]
NoSettings == [n_val |-> Unset, allow_mult |-> "unset"]
Properties == [n_val: Int, allow_mult: Flags]
NoProps == [n_val |-> 0, allow_mult |-> "unset"]
Objects == [here: BOOLEAN, deleting: BOOLEAN, final: BOOLEAN, spec: Specs \cup {NoSpec},
            phase: {"", "Creating", "Ready", "Failed"}, ready: Flags,
            bucketType: Types, properties: Settings, nVal: 0 .. Int32Max]
NoObj == [here |-> FALSE, deleting |-> FALSE, final |-> FALSE, spec |-> NoSpec,
          phase |-> "", ready |-> "unset",
          bucketType |-> DefaultType, properties |-> NoSettings, nVal |-> 0]
BucketTypes == [state: {"none", "created", "active"}, props: Properties]
Labels == {"idle", "unfinal", "final", "init", "cluster", "create", "activate", "update", "record"}

\* One type invariant: every variable keeps the shape the code gives it; in
\* particular status.nVal never leaves the range of its 32 bits.
TypeOK ==
    /\ obj \in [Objs -> Objects] /\ snap \in [Objs -> Objects]
    /\ cluster \in {"missing", "notready", "ready"}
    /\ riak \in [Types -> BucketTypes]
    /\ queued \subseteq Objs
    /\ pc \in [Objs -> Labels] /\ stale \in [Objs -> BOOLEAN]
    /\ edits \in 0 .. MaxEdits /\ outages \in 0 .. MaxOutages /\ restarts \in 0 .. MaxRestarts
    /\ overlapped \in BOOLEAN

Init ==
    /\ obj = [o \in Objs |-> NoObj] /\ snap = obj
    /\ cluster \in {"missing", "ready"}
    /\ riak = [t \in Types |-> [state |-> IF t = DefaultType THEN "active" ELSE "none",
                                props |-> NoProps]]
    /\ queued = {}
    /\ pc = [o \in Objs |-> "idle"] /\ stale = [o \in Objs |-> FALSE]
    /\ edits = 0 /\ outages = 0 /\ restarts = 0 /\ overlapped = FALSE

-----------------------------------------------------------------------------
(* effectiveBucketProperties *)

MutParseInt32(t) == IF t.form \in {"digits", "signed"} THEN t.n ELSE 0
\* strconv.ParseInt(s, 10, 32), with 0 for an error or a number below 1
ParseInt32(t) == IF t.form \in {"digits", "signed"} /\ t.n <= Int32Max THEN t.n ELSE 0

\* nVal, or replicationFactor where it is not given
TypedNVal(s) == IF s.nval # 0 THEN s.nval ELSE s.rf

\* The typed fields are layered over spec.properties.
EffectiveProperties(s) ==
    [n_val      |-> IF TypedNVal(s) > 0 THEN [form |-> "digits", n |-> TypedNVal(s)] ELSE s.raw,
     allow_mult |-> IF s.multi THEN "true" ELSE s.rawMulti]

MutEffectiveNVal(s) == IF s.rf > 0 THEN s.rf ELSE IF s.nval > 0 THEN s.nval ELSE ParseInt32(s.raw)
EffectiveNVal(s) == IF TypedNVal(s) > 0 THEN TypedNVal(s) ELSE ParseInt32(s.raw)

\* CreateBucket: a text JSON reads goes as its value, another as a string.
JSONNumber(t) ==
    IF t.form \in {"digits", "decimal"} THEN t.n ELSE IF t = Unset THEN 0 ELSE -1
Parsed(p) == [n_val |-> JSONNumber(p.n_val), allow_mult |-> p.allow_mult]
SentProperties(s) == Parsed(EffectiveProperties(s))

-----------------------------------------------------------------------------
(* External: bucket types in Riak *)

Overlay(old, new) ==
    [n_val      |-> IF new.n_val = 0 THEN old.n_val ELSE new.n_val,
     allow_mult |-> IF new.allow_mult = "unset" THEN old.allow_mult ELSE new.allow_mult]
Carries(props, wanted) == Overlay(props, wanted) = props
Accepts(props) == props.n_val >= 0

-----------------------------------------------------------------------------
(* Passes *)

Busy == {o \in Objs : pc[o] # "idle"}
BucketType(o) == snap[o].spec.type
Props(o) == SentProperties(snap[o].spec)

Goto(o, l) == pc' = [pc EXCEPT ![o] = l] /\ UNCHANGED queued
EndPass(o) == /\ pc' = [pc EXCEPT ![o] = "idle"]
              /\ snap' = [snap EXCEPT ![o] = NoObj]
              /\ stale' = [stale EXCEPT ![o] = FALSE]
Requeue(o) == EndPass(o) /\ queued' = queued \cup {o}

\* A write the pass depends on: made if no user changed the object since it
\* was read, and the pass goes on with what it wrote.
Write(o, v) == /\ ~stale[o]
               /\ obj' = [obj EXCEPT ![o] = v] /\ snap' = [snap EXCEPT ![o] = v]
               /\ UNCHANGED <<cluster, riak, stale, boundVars, overlapped>>
\* A status write whose failure is only logged.
TryWrite(o, v) ==
    obj' \in {obj} \cup (IF stale[o] THEN {} ELSE {[obj EXCEPT ![o] = v]})

\* Get of the RiakBucket: not found, being deleted, or to be created
StartPass(o) ==
    /\ o \in queued /\ pc[o] = "idle" /\ Cardinality(Busy) < Workers
    /\ queued' = queued \ {o}
    /\ IF ~obj[o].here
       THEN UNCHANGED <<pc, snap, overlapped>>
       ELSE /\ pc' = [pc EXCEPT ![o] = IF obj[o].deleting THEN "unfinal"
                                       ELSE IF ~obj[o].final THEN "final"
                                       ELSE IF obj[o].phase = "" THEN "init" ELSE "cluster"]
            /\ snap' = [snap EXCEPT ![o] = obj[o]]
            /\ overlapped' = (overlapped \/ \E p \in Busy : BucketType(p) = obj[o].spec.type)
    /\ UNCHANGED <<obj, cluster, riak, stale, boundVars>>

\* The bucket type stays in Riak; without its last finalizer the object goes.
RemoveFinalizer(o) ==
    /\ pc[o] = "unfinal" /\ ~stale[o]
    /\ obj' = [obj EXCEPT ![o] = NoObj] /\ EndPass(o)
    /\ UNCHANGED <<cluster, riak, queued, boundVars, overlapped>>

AddFinalizer(o) ==
    /\ pc[o] = "final" /\ Write(o, [snap[o] EXCEPT !.final = TRUE])
    /\ Goto(o, IF snap[o].phase = "" THEN "init" ELSE "cluster")

InitStatus(o) ==
    /\ pc[o] = "init" /\ Write(o, [snap[o] EXCEPT !.phase = "Creating"])
    /\ Goto(o, "cluster")

\* A conflict or another API error is returned, and the pass is repeated.
ApiFails(o) ==
    /\ pc[o] \in {"unfinal", "final", "init", "cluster", "record"}
    /\ Requeue(o)
    /\ UNCHANGED <<obj, cluster, riak, boundVars, overlapped>>

MutFailBucket(o) ==
    /\ TryWrite(o, [snap[o] EXCEPT !.phase = "Failed", !.ready = "false"])
    /\ EndPass(o) /\ UNCHANGED queued
\* failBucket, and the pass is repeated
FailBucket(o) ==
    /\ TryWrite(o, [snap[o] EXCEPT !.phase = "Failed", !.ready = "false"])
    /\ Requeue(o)

\* Get of the RiakCluster: missing fails the bucket, not Ready waits.
CheckCluster(o) ==
    /\ pc[o] = "cluster"
    /\ \/ cluster = "missing" /\ FailBucket(o)
       \/ /\ cluster = "notready"
          /\ TryWrite(o, [snap[o] EXCEPT !.ready = "false"]) /\ Requeue(o)
       \/ cluster = "ready" /\ Goto(o, "create") /\ UNCHANGED <<obj, snap, stale>>
    /\ UNCHANGED <<cluster, riak, boundVars, overlapped>>

MutCreate(o) ==
    /\ pc[o] = "create" /\ Accepts(Props(o))
    /\ LET t == BucketType(o) IN
       IF riak[t].state = "none"
       THEN /\ riak' = [riak EXCEPT ![t] = [state |-> "created", props |-> Props(o)]]
            /\ Goto(o, "activate")
       ELSE /\ Goto(o, IF Props(o) = NoProps THEN "record" ELSE "update")
            /\ UNCHANGED riak
    /\ UNCHANGED <<obj, cluster, snap, stale, boundVars, overlapped>>
\* CreateBucket: bucket-type create
Create(o) ==
    /\ pc[o] = "create" /\ Accepts(Props(o))
    /\ LET t == BucketType(o) IN
       IF riak[t].state # "active"
       THEN /\ riak' = [riak EXCEPT ![t] = [state |-> "created", props |-> Props(o)]]
            /\ Goto(o, "activate")
       ELSE /\ Goto(o, IF Props(o) = NoProps THEN "record" ELSE "update")
            /\ UNCHANGED riak
    /\ UNCHANGED <<obj, cluster, snap, stale, boundVars, overlapped>>

\* bucket-type activate; a type that is active already is the goal
Activate(o) ==
    /\ pc[o] = "activate"
    /\ riak' = [riak EXCEPT ![BucketType(o)].state = "active"]
    /\ Goto(o, "record")
    /\ UNCHANGED <<obj, cluster, snap, stale, boundVars, overlapped>>

MutUpdate(o) ==
    /\ pc[o] = "update" /\ Goto(o, "record")
    /\ UNCHANGED <<obj, cluster, riak, snap, stale, boundVars, overlapped>>
\* bucket-type update
Update(o) ==
    /\ pc[o] = "update" /\ Accepts(Props(o))
    /\ riak' = [riak EXCEPT ![BucketType(o)].props = Overlay(@, Props(o))]
    /\ Goto(o, "record")
    /\ UNCHANGED <<obj, cluster, snap, stale, boundVars, overlapped>>

\* A riak-admin call is refused or times out: without effect, or with it.
CallFails(o) ==
    /\ pc[o] \in {"create", "activate", "update"}
    /\ FailBucket(o)
    /\ LET t == BucketType(o) IN
       \/ UNCHANGED riak
       \/ /\ pc[o] = "create" /\ Accepts(Props(o)) /\ riak[t].state # "active"
          /\ riak' = [riak EXCEPT ![t] = [state |-> "created", props |-> Props(o)]]
       \/ pc[o] = "activate" /\ riak' = [riak EXCEPT ![t].state = "active"]
       \/ /\ pc[o] = "update" /\ Accepts(Props(o))
          /\ riak' = [riak EXCEPT ![t].props = Overlay(@, Props(o))]
    /\ UNCHANGED <<cluster, boundVars, overlapped>>

\* What was applied is recorded; only a success is not repeated.
Record(o) ==
    /\ pc[o] = "record" /\ ~stale[o]
    /\ obj' = [obj EXCEPT ![o] = [snap[o] EXCEPT
                  !.phase = "Ready", !.ready = "true", !.bucketType = BucketType(o),
                  !.properties = EffectiveProperties(snap[o].spec), !.nVal = EffectiveNVal(snap[o].spec)]]
    /\ EndPass(o)
    /\ UNCHANGED <<cluster, riak, queued, boundVars, overlapped>>

-----------------------------------------------------------------------------
(* External: users, the RiakCluster, the operator process *)

Edit(o, v) ==
    /\ edits < MaxEdits /\ edits' = edits + 1
    /\ obj' = [obj EXCEPT ![o] = v]
    /\ queued' = queued \cup {o}
    /\ stale' = [stale EXCEPT ![o] = pc[o] # "idle"]
    /\ UNCHANGED <<cluster, riak, pc, snap, outages, restarts, overlapped>>

\* Objects of one type do not ask for different values of one property.
Compatible(o, s) ==
    \A p \in Objs \ {o} : obj[p].here /\ obj[p].spec.type = s.type =>
        Overlay(SentProperties(s), SentProperties(obj[p].spec))
            = Overlay(SentProperties(obj[p].spec), SentProperties(s))

CreateObject(o, s) ==
    /\ ~obj[o].here /\ Compatible(o, s)
    /\ Edit(o, [NoObj EXCEPT !.here = TRUE, !.spec = s])

EditSpec(o, s) ==
    /\ obj[o].here /\ s # obj[o].spec /\ Compatible(o, s)
    /\ Edit(o, [obj[o] EXCEPT !.spec = s])

\* An object without a finalizer goes at once.
DeleteObject(o) ==
    /\ obj[o].here /\ ~obj[o].deleting
    /\ Edit(o, IF obj[o].final THEN [obj[o] EXCEPT !.deleting = TRUE] ELSE NoObj)

ClusterChanges(c) ==
    /\ c # cluster /\ c # "missing" /\ outages < MaxOutages
    /\ cluster' = c /\ outages' = outages + 1
    /\ UNCHANGED <<obj, riak, queued, passVars, edits, restarts, overlapped>>

\* Every pass is lost; the new process looks at every object.
OperatorRestart ==
    /\ restarts < MaxRestarts /\ restarts' = restarts + 1
    /\ pc' = [o \in Objs |-> "idle"] /\ snap' = [o \in Objs |-> NoObj]
    /\ stale' = [o \in Objs |-> FALSE]
    /\ queued' = {o \in Objs : obj[o].here}
    /\ UNCHANGED <<obj, cluster, riak, edits, outages, overlapped>>

-----------------------------------------------------------------------------
Pass(o) ==
    \/ RemoveFinalizer(o) \/ AddFinalizer(o) \/ InitStatus(o) \/ ApiFails(o)
    \/ CheckCluster(o) \/ Create(o) \/ Activate(o) \/ Update(o) \/ CallFails(o) \/ Record(o)

User(o) == (\E s \in Specs : CreateObject(o, s) \/ EditSpec(o, s)) \/ DeleteObject(o)

Next ==
    \/ \E o \in Objs : StartPass(o) \/ Pass(o) \/ User(o)
    \/ \E c \in {"notready", "ready"} : ClusterChanges(c)
    \/ OperatorRestart

Spec == Init /\ [][Next]_vars

(***************************************************************************)
(* Fairness.  Every queued object gets a worker, and every pass goes on:   *)
(* its next call succeeds or fails.                                        *)
(***************************************************************************)
Fairness == \A o \in Objs : SF_vars(StartPass(o)) /\ WF_vars(Pass(o))
FairSpec == Spec /\ Fairness

\* From some time on the calls and writes of an object's passes succeed.
SetbacksEnd(o) == <>[][~(CallFails(o) \/ ApiFails(o))]_vars

-----------------------------------------------------------------------------
(* Properties *)

\* Nothing is left to do for the object.
Settled(o) == obj[o].here /\ ~obj[o].deleting /\ pc[o] = "idle" /\ o \notin queued

\* "Record what was actually applied to Riak, not merely what was requested"
\* (riakbucket_controller.go:141): when the operator is done with an object it
\* is Ready in phase and condition, the status has the properties of the
\* present spec, and the bucket type is active and carries them, also where
\* other objects share the type, passes were cut off between create and
\* activate, or a call took effect after its time-out.  Two passes over one
\* type at the same time are another matter: the second create overwrites what
\* the first is about to activate.
SettledMeansApplied ==
    ~overlapped => \A o \in Objs : Settled(o) =>
        LET t == obj[o].spec.type
            p == EffectiveProperties(obj[o].spec) IN
        /\ obj[o].phase = "Ready" /\ obj[o].ready = "true"
        /\ obj[o].bucketType = t /\ obj[o].properties = p
        /\ riak[t].state = "active" /\ Carries(riak[t].props, Parsed(p))

\* A bucket type the status of a Ready object names is active, whatever other
\* workers do to it (CreateBucket reports success only after activate, or when
\* create was refused because the type is active).
RecordedIsActive ==
    \A o \in Objs : obj[o].here /\ obj[o].phase = "Ready" => riak[obj[o].bucketType].state = "active"

\* "status reports the value actually applied" (riakbucket_controller.go:193):
\* a status.nVal that is not 0 is the n_val Riak was sent, whichever of the
\* three fields it came from and however it is spelled.  A 0 hides a value
\* that was sent in two cases only: it does not fit 32 bits, or the text is
\* one that JSON reads and ParseInt does not, such as 3.0; there the sentence
\* quoted does not hold.
NValReported ==
    \A o \in Objs : obj[o].here /\ obj[o].phase = "Ready" =>
        LET t == obj[o].properties.n_val
            sent == JSONNumber(t) IN
        IF obj[o].nVal # 0 THEN obj[o].nVal = sent
        ELSE sent = 0 \/ sent > Int32Max \/ t.form = "decimal"

\* With the cluster Ready and its own calls succeeding from some time on, an
\* object whose properties Riak accepts becomes Ready with nothing left to do,
\* or goes: no wake-up is lost, although nothing but the requeues of Reconcile
\* brings an unchanged object back, and whatever becomes of other objects, one
\* that Riak refuses for ever included.
GetsServed ==
    <>[](cluster = "ready") =>
        \A o \in Objs : SetbacksEnd(o) => []<>(\/ Settled(o) /\ obj[o].phase = "Ready"
                                               \/ ~obj[o].here
                                               \/ ~Accepts(SentProperties(obj[o].spec)))
=============================================================================
