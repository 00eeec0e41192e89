------------------------- MODULE NodeIdentityProofs -------------------------
(***************************************************************************)
(* Proofs about the start of a Riak container, for every ring its volume   *)
(* may hold and every number of retries, rewrites and failures.            *)
(***************************************************************************)
EXTENDS NodeIdentity, FiniteSetTheorems, TLAPS

\* A leaf is SMT's unless it names Zenon.
USE SMTT(30)

\* A container that is past the lookup has a name, and Riak, once started, a
\* ring that lists it: a join then leaves no ring without it.
Named == /\ pc \in {"check", "start", "wait", "up"} => name \in NodeNames
         /\ pc \in {"wait", "up"} /\ readable => name \in ring
IdentityInv == TypeOK /\ Named /\ OnlyUnderFQDN /\ BootsFromOwnRing

LEMMA Bounds ==
    /\ Retries \in Nat /\ Keep \in Nat /\ MaxRewrites \in Nat /\ MaxFailures \in Nat
    /\ 0 \in 0 .. Retries /\ 0 \in 0 .. MaxRewrites /\ 0 \in 0 .. MaxFailures
<1>1. Retries \in Nat /\ Keep \in Nat /\ MaxRewrites \in Nat /\ MaxFailures \in Nat
  BY IdentityAssumption
<1> QED
  BY <1>1

\* The conjunct of TypeOK that bounds the saved crash logs.
LogsBounded == logs \in 0 .. Keep + failures + 1 /\ (pc # "prune" => logs <= Keep + failures)

\* The two numbers in that bound are natural numbers.
LEMMA Counts == ASSUME TypeOK PROVE failures \in Nat /\ Keep \in Nat
<1>1. failures \in 0 .. MaxFailures /\ MaxFailures \in Nat /\ Keep \in Nat
  BY Bounds, ZenonT(30) DEF TypeOK
<1> QED
  BY <1>1

\* The number of copies that pruning leaves, at most Keep, is within that bound,
\* however often the script has failed.
LEMMA PrunedFits ==
  ASSUME NEW a \in Nat, NEW k \in Nat, NEW f \in Nat, a <= k
  PROVE  a \in 0 .. k + f + 1 /\ a <= k + f
OBVIOUS

\* The bound on crash logs holds in a step that writes none and leaves no save.
LEMMA LogsKept ==
    ASSUME TypeOK, logs' = logs, failures' = failures \/ failures' = failures + 1,
           pc # "prune" \/ pc' = pc
    PROVE  LogsBounded'
<1>1. failures \in Nat /\ Keep \in Nat
  BY Counts
<1>2. LogsBounded
  BY ZenonT(30) DEF TypeOK, LogsBounded
<1>3. CASE pc # "prune"
  <2>1. logs \in Nat /\ logs <= Keep + failures
    BY <1>1, <1>2, <1>3 DEF LogsBounded
  <2> QED
    BY <1>1, <2>1 DEF LogsBounded
<1>4. CASE pc' = pc
  BY <1>1, <1>2, <1>4 DEF LogsBounded
<1> QED
  BY <1>3, <1>4, ZenonT(30)

\* Leaving the container resets what the script held in memory.
LEMMA ExitKeeps ==
    ASSUME TypeOK, Exit
    PROVE  /\ pc' = "down" /\ name' = "" /\ tries' \in 0 .. Retries /\ stopping' \in BOOLEAN
           /\ Named' /\ OnlyUnderFQDN' /\ BootsFromOwnRing'
<1>1. pc' = "down" /\ name' = "" /\ tries' = 0 /\ stopping' = FALSE
  BY ZenonT(30) DEF Exit
<1>2. tries' \in 0 .. Retries
  BY <1>1, Bounds, ZenonT(30)
<1>3. Named' /\ OnlyUnderFQDN' /\ BootsFromOwnRing'
  BY <1>1, ZenonT(30) DEF Named, OnlyUnderFQDN, BootsFromOwnRing
<1> QED
  BY <1>1, <1>2, <1>3, ZenonT(30)

\* The name a managed pod takes when /etc/hosts has none.
LEMMA FallbackIsFQDN ==
    /\ FallbackName \in NodeNames \cup {""}
    /\ TypeOK /\ MustBeFQDN /\ FallbackName # "" => FallbackName = "fqdn"
BY ZenonT(30) DEF FallbackName, MustBeFQDN, NodeNames, TypeOK

LEMMA RingsAreFinite ==
    ASSUME NEW r \in SUBSET Members
    PROVE  IsFiniteSet(r) /\ Cardinality(r) \in Nat
<1>1. IsFiniteSet(Members)
  <2>1. IsFiniteSet({})
    BY FS_EmptySet
  <2>2. IsFiniteSet({"fqdn"})
    BY FS_Singleton
  <2>3. IsFiniteSet({"fqdn"} \cup {"short"})
    BY <2>2, FS_AddElement
  <2>4. IsFiniteSet(({"fqdn"} \cup {"short"}) \cup {"ip"})
    BY <2>3, FS_AddElement
  <2>5. IsFiniteSet((({"fqdn"} \cup {"short"}) \cup {"ip"}) \cup {"given"})
    BY <2>4, FS_AddElement
  <2>6. IsFiniteSet(((({"fqdn"} \cup {"short"}) \cup {"ip"}) \cup {"given"}) \cup {"peer"})
    BY <2>5, FS_AddElement
  <2>7. Members = ((({"fqdn"} \cup {"short"}) \cup {"ip"}) \cup {"given"}) \cup {"peer"}
    BY DEF Members, NodeNames
  <2> QED
    BY <2>6, <2>7
<1> QED
  BY <1>1, FS_Subset, FS_CardinalityType

LEMMA InitIdentity == Init => IdentityInv
<1> SUFFICES ASSUME Init PROVE IdentityInv
  OBVIOUS
<1>1. tries \in 0 .. Retries /\ rewrites \in 0 .. MaxRewrites /\ failures \in 0 .. MaxFailures
  BY Bounds, ZenonT(30) DEF Init
<1>2. LogsBounded
  <2>1. logs = 0 /\ failures = 0 /\ pc = "down" /\ Keep \in Nat
    BY Bounds, ZenonT(30) DEF Init
  <2> QED
    BY <2>1 DEF LogsBounded
<1>3. TypeOK
  BY <1>1, <1>2, IdentityAssumption, ZenonT(30) DEF Init, TypeOK, LogsBounded
<1> QED
  BY <1>3, ZenonT(30) DEF Init, IdentityInv, Named, OnlyUnderFQDN, BootsFromOwnRing

LEMMA LookupIdentity == IdentityInv /\ Lookup => IdentityInv'
<1> SUFFICES ASSUME IdentityInv, Lookup PROVE IdentityInv'
  OBVIOUS
<1> USE DEF IdentityInv
<1>0. /\ pc = "lookup"
      /\ UNCHANGED <<env, hosts, readable, ring, aside, logs, rewrites, failures>>
  BY ZenonT(30) DEF Lookup
<1>a. LogsBounded'
  BY <1>0, LogsKept
<1>1. ASSUME NEW n \in NodeNames, MustBeFQDN => n = "fqdn", Take(n) PROVE IdentityInv'
  <2>1. /\ pc' = "check" /\ name' = (IF env.given THEN "given" ELSE n)
        /\ tries' = tries /\ stopping' = stopping
    BY <1>1 DEF Take
  <2>2. TypeOK'
    BY <1>0, <1>a, <2>1, ZenonT(30) DEF TypeOK, LogsBounded, NodeNames
  <2>3. OnlyUnderFQDN'
    BY <1>0, <1>1, <2>1 DEF OnlyUnderFQDN, MustBeFQDN
  <2>4. Named'
    BY <2>1 DEF Named, NodeNames
  <2> QED
    BY <2>1, <2>2, <2>3, <2>4 DEF BootsFromOwnRing
<1>2. CASE hosts
  <2>1. Take("fqdn")
    BY <1>2 DEF Lookup
  <2> QED
    BY <1>1, <2>1 DEF NodeNames
<1>3. CASE ~hosts /\ MustBeFQDN /\ tries + 1 < Retries
  <2>1. tries' = tries + 1 /\ UNCHANGED <<pc, name, stopping>>
    BY <1>3 DEF Lookup
  <2>2. tries' \in 0 .. Retries
    <3>1. tries \in 0 .. Retries /\ tries' = tries + 1 /\ tries + 1 < Retries
      BY <1>3, <2>1, ZenonT(30) DEF TypeOK
    <3> QED
      BY <3>1, Bounds
  <2>3. TypeOK'
    BY <1>0, <1>a, <2>1, <2>2, ZenonT(30) DEF TypeOK, LogsBounded
  <2> QED
    BY <1>0, <2>1, <2>3 DEF Named, OnlyUnderFQDN, BootsFromOwnRing
<1>4. CASE ~hosts /\ ~(MustBeFQDN /\ tries + 1 < Retries) /\ FallbackName # ""
  <2>1. Take(FallbackName)
    BY <1>4, ZenonT(30) DEF Lookup
  <2> QED
    BY <1>1, <1>4, <2>1, FallbackIsFQDN, ZenonT(30)
<1>5. CASE ~hosts /\ ~(MustBeFQDN /\ tries + 1 < Retries) /\ FallbackName = ""
  <2>1. Exit
    BY <1>5, ZenonT(30) DEF Lookup
  <2>2. TypeOK'
    BY <1>0, <1>a, <2>1, ExitKeeps, ZenonT(30) DEF TypeOK, LogsBounded
  <2> QED
    BY <2>1, <2>2, ExitKeeps, ZenonT(30)
<1> QED
  BY <1>2, <1>3, <1>4, <1>5, ZenonT(30)

LEMMA CheckIdentity == IdentityInv /\ CheckRingIdentity => IdentityInv'
<1> SUFFICES ASSUME IdentityInv, CheckRingIdentity PROVE IdentityInv'
  OBVIOUS
<1> USE DEF IdentityInv
<1>0. pc = "check" /\ UNCHANGED <<env, hosts, readable, logs, rewrites, failures>>
  BY DEF CheckRingIdentity
<1>a. LogsBounded'
  BY <1>0, LogsKept
<1>1. CASE /\ ring = {} \/ ~readable \/ name \in ring
           /\ Continue /\ UNCHANGED <<ring, aside>>
  <2>1. TypeOK'
    BY <1>0, <1>a, <1>1, ZenonT(30) DEF TypeOK, LogsBounded, Continue
  <2> QED
    BY <1>0, <1>1, <2>1 DEF Continue, Named, OnlyUnderFQDN, MustBeFQDN, BootsFromOwnRing, CanBoot
<1>2. CASE Continue /\ ring' = {} /\ aside' = aside \cup {ring}
  <2>1. TypeOK'
    BY <1>0, <1>a, <1>2, ZenonT(30) DEF TypeOK, LogsBounded, Continue
  <2> QED
    BY <1>0, <1>2, <2>1 DEF Continue, Named, OnlyUnderFQDN, MustBeFQDN, BootsFromOwnRing, CanBoot
<1>3. CASE Exit /\ UNCHANGED <<ring, aside>>
  <2>1. TypeOK'
    BY <1>0, <1>a, <1>3, ExitKeeps, ZenonT(30) DEF TypeOK, LogsBounded
  <2> QED
    BY <1>3, <2>1, ExitKeeps, ZenonT(30)
<1> QED
  BY <1>1, <1>2, <1>3 DEF CheckRingIdentity

LEMMA RiakIdentity == IdentityInv /\ (StartRiak \/ Ready \/ Join) => IdentityInv'
<1> SUFFICES ASSUME IdentityInv, StartRiak \/ Ready \/ Join PROVE IdentityInv'
  OBVIOUS
<1> USE DEF IdentityInv
<1>a. LogsBounded'
  BY LogsKept DEF StartRiak, Ready, Join, bootVars
<1>1. CASE StartRiak
  <2>1. name \in NodeNames
    BY <1>1 DEF StartRiak, Named
  <2>2. ring' \subseteq Members /\ (ring = {} \/ name \in ring => name \in ring')
    BY <1>1, <2>1, ZenonT(30) DEF StartRiak, TypeOK, Members
  <2>3. TypeOK'
    BY <1>1, <1>a, <2>2, ZenonT(30) DEF TypeOK, LogsBounded, StartRiak
  <2> QED
    BY <1>1, <2>2, <2>3 DEF StartRiak, Named, OnlyUnderFQDN, MustBeFQDN, BootsFromOwnRing, CanBoot
<1>2. CASE Ready
  <2>1. TypeOK'
    BY <1>2, <1>a, ZenonT(30) DEF TypeOK, LogsBounded, Ready
  <2> QED
    BY <1>2, <2>1 DEF Ready, Named, OnlyUnderFQDN, MustBeFQDN, BootsFromOwnRing, CanBoot
<1>3. CASE Join
  <2>0. ring' \subseteq Members /\ ring \subseteq ring'
    BY <1>3, ZenonT(30) DEF TypeOK, Join, Members
  <2>1. TypeOK'
    BY <1>3, <1>a, <2>0, ZenonT(30) DEF TypeOK, LogsBounded, Join, bootVars
  <2> QED
    BY <1>3, <2>0, <2>1 DEF Join, bootVars, Named, OnlyUnderFQDN, MustBeFQDN, BootsFromOwnRing, CanBoot
<1> QED
  BY <1>1, <1>2, <1>3

LEMMA EndIdentity ==
    IdentityInv /\ (BootFails \/ PruneCrashLogs \/ Stopped \/ Crash \/ Kill) => IdentityInv'
<1> SUFFICES ASSUME IdentityInv, BootFails \/ PruneCrashLogs \/ Stopped \/ Crash \/ Kill
             PROVE  IdentityInv'
  OBVIOUS
<1> USE DEF IdentityInv
<1>1. UNCHANGED <<env, hosts, readable, ring, aside, rewrites>>
  BY ZenonT(30) DEF BootFails, PruneCrashLogs, Stopped, Crash, Kill
<1>2. failures' = failures \/ (failures < MaxFailures /\ failures' = failures + 1)
  BY ZenonT(30) DEF BootFails, PruneCrashLogs, Stopped, Crash, Kill, Failure
<1>3. LogsBounded /\ failures \in 0 .. MaxFailures
  BY ZenonT(30) DEF TypeOK, LogsBounded
<1>4. failures' \in 0 .. MaxFailures /\ (failures' = failures \/ failures' = failures + 1)
  BY <1>2, <1>3, Bounds
<1>5. CASE /\ pc # "prune" /\ logs' = logs + 1 /\ pc' = "prune"
           /\ UNCHANGED <<name, tries, stopping>>
  <2>1. LogsBounded'
    <3>1. logs \in Nat /\ logs <= Keep + failures /\ failures \in Nat /\ Keep \in Nat
      BY <1>3, <1>5, Counts DEF LogsBounded
    <3>2. logs' \in 0 .. Keep + failures' + 1
      <4>1. CASE failures' = failures
        BY <1>5, <3>1, <4>1
      <4>2. CASE failures' = failures + 1
        BY <1>5, <3>1, <4>2
      <4> QED
        BY <1>4, <4>1, <4>2, ZenonT(30)
    <3> QED
      BY <1>5, <3>2, ZenonT(30) DEF LogsBounded
  <2>2. TypeOK'
    BY <1>1, <1>4, <1>5, <2>1, ZenonT(30) DEF TypeOK, LogsBounded
  <2> QED
    BY <1>5, <2>2, ZenonT(30) DEF Named, OnlyUnderFQDN, BootsFromOwnRing
<1>6. ASSUME Exit, LogsBounded' PROVE IdentityInv'
  <2>1. TypeOK'
    BY <1>1, <1>4, <1>6, ExitKeeps, ZenonT(30) DEF TypeOK, LogsBounded
  <2> QED
    BY <1>6, <2>1, ExitKeeps, ZenonT(30)
<1>7. CASE PruneCrashLogs
  <2>1. pc' = "down" /\ logs' = (IF logs > Keep THEN Keep ELSE logs) /\ Exit
    BY <1>7, ZenonT(30) DEF PruneCrashLogs, Exit
  <2>2. LogsBounded'
    <3>1. logs \in Nat /\ failures' \in Nat /\ Keep \in Nat
      BY <1>3, <1>4, Counts DEF LogsBounded
    <3>2. logs' \in Nat /\ logs' <= Keep
      BY <2>1, <3>1
    <3>3. logs' \in 0 .. Keep + failures' + 1 /\ logs' <= Keep + failures'
      BY <3>1, <3>2, PrunedFits, ZenonT(30)
    <3> QED
      BY <3>3, ZenonT(30) DEF LogsBounded
  <2> QED
    BY <1>6, <2>1, <2>2, ZenonT(30)
<1>8. CASE Kill
  <2>1. pc' = "down" /\ logs' = logs /\ failures' = failures + 1 /\ Exit
    BY <1>8, ZenonT(30) DEF Kill, Failure, Exit
  <2>2. LogsBounded'
    BY <1>3, <2>1, Bounds DEF LogsBounded
  <2> QED
    BY <1>6, <2>1, <2>2, ZenonT(30)
<1>9. CASE Exit /\ logs' = logs /\ pc # "prune"
  <2>1. LogsBounded'
    BY <1>4, <1>9, LogsKept
  <2> QED
    BY <1>6, <1>9, <2>1, ZenonT(30)
<1>10. CASE BootFails \/ Stopped \/ Crash
  <2>1. pc # "prune" /\ (save_crash_logs \/ (Exit /\ logs' = logs))
    BY <1>10, ZenonT(30) DEF BootFails, Stopped, Crash
  <2> QED
    BY <1>5, <1>9, <2>1, ZenonT(30) DEF save_crash_logs
<1> QED
  BY <1>7, <1>8, <1>10, ZenonT(30)

LEMMA WorldIdentity ==
    IdentityInv /\ (StartContainer \/ Terminate \/ TruncateHosts \/ WriteHosts) => IdentityInv'
<1> SUFFICES ASSUME IdentityInv, StartContainer \/ Terminate \/ TruncateHosts \/ WriteHosts
             PROVE  IdentityInv'
  OBVIOUS
<1> USE DEF IdentityInv
<1>1. /\ UNCHANGED <<env, readable, ring, aside, logs, name, tries>>
      /\ pc' = pc \/ pc' = "lookup"
  BY DEF StartContainer, Terminate, TruncateHosts, WriteHosts, bootVars
<1>2. failures' \in 0 .. MaxFailures /\ rewrites' \in 0 .. MaxRewrites
  <2>1. failures' = failures \/ (failures < MaxFailures /\ failures' = failures + 1)
    BY DEF StartContainer, Terminate, TruncateHosts, WriteHosts, Failure
  <2>2. rewrites' = rewrites \/ (rewrites < MaxRewrites /\ rewrites' = rewrites + 1)
    BY DEF StartContainer, Terminate, TruncateHosts, WriteHosts
  <2>3. failures \in 0 .. MaxFailures /\ rewrites \in 0 .. MaxRewrites
    BY ZenonT(30) DEF TypeOK
  <2> QED
    BY <2>1, <2>2, <2>3, Bounds
<1>3. hosts' \in BOOLEAN /\ stopping' \in BOOLEAN
  BY ZenonT(30) DEF StartContainer, Terminate, TruncateHosts, WriteHosts, bootVars, TypeOK
<1>4. LogsBounded'
  BY LogsKept DEF StartContainer, Terminate, TruncateHosts, WriteHosts, Failure, bootVars
<1>5. TypeOK'
  BY <1>1, <1>2, <1>3, <1>4, ZenonT(30) DEF TypeOK, LogsBounded
<1> QED
  BY <1>1, <1>5 DEF Named, OnlyUnderFQDN, MustBeFQDN, BootsFromOwnRing, CanBoot

LEMMA StepIdentity == IdentityInv /\ [Next]_vars => IdentityInv'
<1> SUFFICES ASSUME IdentityInv, [Next]_vars PROVE IdentityInv'
  OBVIOUS
<1>1. CASE UNCHANGED vars
  BY <1>1, ZenonT(30) DEF vars, bootVars, IdentityInv, TypeOK, Named, OnlyUnderFQDN, MustBeFQDN,
              BootsFromOwnRing, CanBoot
<1> QED
  BY <1>1, LookupIdentity, CheckIdentity, RiakIdentity, EndIdentity, WorldIdentity
  DEF Next, Script

LEMMA AlwaysIdentity == Spec => []IdentityInv
BY InitIdentity, StepIdentity, PTL DEF Spec

\* The state of a container and its volume is well formed for every ring,
\* number of retries and failures; Keep crash logs are on the volume at most,
\* and one more while a save goes on and for each failure that may have cut one
\* off before its prune (save_crash_logs).
THEOREM IdentityTypeCorrect == Spec => []TypeOK
BY AlwaysIdentity, PTL DEF IdentityInv

\* However often the container is killed or finds /etc/hosts empty, a pod of
\* a managed cluster runs Riak under its FQDN only (the node-identity part of
\* the script).
THEOREM ManagedPodsUseFQDN == Spec => []OnlyUnderFQDN
BY AlwaysIdentity, PTL DEF IdentityInv

\* Riak is never started from a readable ring that does not list it
\* (check_ring_identity), for every ring the volume may hold.
THEOREM RiakOwnsItsRing == Spec => []BootsFromOwnRing
BY AlwaysIdentity, PTL DEF IdentityInv

\* Cluster membership on the volume survives every start, crash and change of
\* name (check_ring_identity moves only standalone rings).
THEOREM MembershipIsKept == Spec => MembershipKept
<1>1. IdentityInv /\ [Next]_vars => [Cardinality(ring) > 1 => ring \subseteq ring']_vars
  <2> SUFFICES ASSUME IdentityInv, Next, Cardinality(ring) > 1 PROVE ring \subseteq ring'
    OBVIOUS
  <2>1. Cardinality(ring) \in Nat
    BY RingsAreFinite, ZenonT(30) DEF IdentityInv, TypeOK
  <2>2. CASE CheckRingIdentity
    BY <2>1, <2>2 DEF CheckRingIdentity
  <2>3. CASE StartRiak \/ Join
    BY <2>3 DEF StartRiak, Join
  <2>4. CASE ~(CheckRingIdentity \/ StartRiak \/ Join)
    BY <2>4, ZenonT(30) DEF Next, Script, StartContainer, Lookup, Ready, BootFails, PruneCrashLogs, Stopped, Crash, Kill,
                Terminate, TruncateHosts, WriteHosts
  <2> QED
    BY <2>2, <2>3, <2>4
<1> QED
  BY <1>1, AlwaysIdentity, PTL DEF Spec, MembershipKept

=============================================================================
