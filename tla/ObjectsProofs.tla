--------------------------- MODULE ObjectsProofs ---------------------------
(***************************************************************************)
(* Proofs about ClusterObjects, for every set of pods, specs and sources   *)
(* of certificates.                                                        *)
(***************************************************************************)
EXTENDS ClusterObjects, FiniteSetTheorems, SequenceTheorems, TLAPS

\* A leaf is Zenon's unless it names SMT.
USE ZenonT(30)

-----------------------------------------------------------------------------
(* Sequences *)

\* Induction for a set: what holds 0 and with each number the next holds all.
LEMMA SetInduction ==
    ASSUME NEW T, 0 \in T, \A n \in Nat : n \in T => n + 1 \in T
    PROVE  Nat \subseteq T
<1> SUFFICES ASSUME Nat \ T # {} PROVE FALSE
  OBVIOUS
<1>1. IsWellFoundedOn(OpToRel(<, Nat), Nat)
  BY NatLessThanWellFounded
<1>2. PICK x \in Nat \ T : \A y \in Nat \ T : ~(<<y, x>> \in OpToRel(<, Nat))
  BY <1>1, WFMin
<1>3. x - 1 \in Nat /\ x - 1 < x /\ (x - 1) + 1 = x
  BY SMTT(30)
<1>4. x - 1 \in T
  BY <1>2, <1>3 DEF OpToRel
<1> QED
  BY <1>3, <1>4

\* f is built from a step by step.
StepFunctions(n, S) == [(1 .. n) \X S -> S]
BuiltBy(f, n, S, a, step) ==
    f \in [0 .. n -> S] /\ f[0] = a /\ \A i \in 1 .. n : f[i] = step[<<i, f[i - 1]>>]

LEMMA RecursionExists ==
    ASSUME NEW S, NEW n \in Nat, NEW a \in S, NEW step \in StepFunctions(n, S)
    PROVE  \E f : BuiltBy(f, n, S, a, step)
<1> DEFINE Built(m) == \E f \in [0 .. m -> S] : f[0] = a /\ \A i \in 1 .. m : f[i] = step[<<i, f[i - 1]>>]
           T == {m \in Nat : m <= n => Built(m)}
<1>1. 0 \in T
  <2>1. [i \in 0 .. 0 |-> a] \in [0 .. 0 -> S] /\ [i \in 0 .. 0 |-> a][0] = a /\ 1 .. 0 = {}
    BY SMTT(30)
  <2> QED
    BY <2>1
<1>2. ASSUME NEW m \in Nat, m \in T PROVE m + 1 \in T
  <2> SUFFICES ASSUME m + 1 <= n PROVE Built(m + 1)
    BY SMTT(30)
  <2>1. PICK f \in [0 .. m -> S] : f[0] = a /\ \A i \in 1 .. m : f[i] = step[<<i, f[i - 1]>>]
    BY <1>2, SMTT(30)
  <2>2. PICK v \in S : v = step[<<m + 1, f[m]>>]
    <3>1. <<m + 1, f[m]>> \in (1 .. n) \X S
      BY SMTT(30)
    <3> QED
      BY <3>1 DEF StepFunctions
  <2>3. PICK g : g = [i \in 0 .. m + 1 |-> IF i <= m THEN f[i] ELSE v]
    OBVIOUS
  <2>4. g \in [0 .. m + 1 -> S]
    BY <2>3, SMTT(30)
  <2>5. \A i \in 0 .. m : g[i] = f[i]
    BY <2>3, SMTT(30)
  <2>6. g[m + 1] = v
    BY <2>3, SMTT(30)
  <2>7. ASSUME NEW i \in 1 .. m + 1 PROVE g[i] = step[<<i, g[i - 1]>>]
    <3>1. CASE i = m + 1
      BY <2>2, <2>5, <2>6, <3>1, SMTT(30)
    <3>2. CASE i # m + 1
      <4>1. i \in 1 .. m /\ i \in 0 .. m /\ i - 1 \in 0 .. m
        BY <3>2, SMTT(30)
      <4> QED
        BY <2>1, <2>5, <4>1
    <3> QED
      BY <3>1, <3>2
  <2> QED
    BY <2>1, <2>4, <2>5, <2>7, SMTT(30)
<1> HIDE DEF T
<1>3. Nat \subseteq T
  BY <1>1, <1>2, SetInduction
<1> QED
  BY <1>3, SMTT(30) DEF T, BuiltBy

LEMMA InRange ==
    ASSUME NEW S, NEW s \in Seq(S)
    PROVE  \A x : x \in Range(s) <=> \E i \in 1 .. Len(s) : x = s[i]
BY LenProperties DEF Range

\* A sequence without duplicates has as many elements as its length says.
Unrepeated(s) == \A i, j \in 1 .. Len(s) : s[i] = s[j] => i = j

LEMMA UnrepeatedCount ==
    ASSUME NEW S, NEW s \in Seq(S), Unrepeated(s)
    PROVE  IsFiniteSet(Range(s)) /\ Cardinality(Range(s)) = Len(s)
<1>1. Len(s) \in Nat /\ DOMAIN s = 1 .. Len(s) /\ s \in [1 .. Len(s) -> Range(s)]
  BY SMTT(30) DEF Range
<1>2. s \in Bijection(1 .. Len(s), Range(s))
  BY <1>1 DEF Bijection, Injection, Surjection, IsInjective, Range, Unrepeated
<1>3. ExistsBijection(1 .. Len(s), Range(s))
  BY <1>2 DEF ExistsBijection
<1> QED
  BY <1>1, <1>3, FS_CountingElements, FS_NatBijection

-----------------------------------------------------------------------------
(* The trust bundle *)

\* The bundle holds the certificates of the set once each
Bundles(s, C, certs) ==
    /\ s \in Seq(C) /\ Unrepeated(s)
    /\ \A x : x \in Range(s) <=> x \in certs

\* One round of the loop of mergeCABundle
LEMMA MergeOne ==
    ASSUME NEW C, NEW s \in Seq(C), NEW c \in C, Unrepeated(s),
           NEW t, t = IF c \in Range(s) THEN s ELSE Append(s, c)
    PROVE  Bundles(t, C, Range(s) \cup {c})
<1>0. \A r \in Seq(C) : \A x : x \in Range(r) <=> \E i \in 1 .. Len(r) : x = r[i]
  BY InRange
<1>1. CASE c \in Range(s)
  BY <1>1 DEF Bundles
<1>2. CASE c \notin Range(s)
  <2>1. Len(s) \in Nat
    BY SMTT(30)
  <2>2. /\ t \in Seq(C) /\ Len(t) = Len(s) + 1 /\ t[Len(s) + 1] = c
        /\ \A i \in 1 .. Len(s) : t[i] = s[i]
    BY <1>2, AppendProperties, SMTT(30)
  <2>3. \A i \in 1 .. Len(s) : s[i] # c
    BY <1>2, InRange
  <2>4. \A i \in 1 .. Len(t) : i \in 1 .. Len(s) \/ i = Len(s) + 1
    BY <2>1, <2>2, SMTT(30)
  <2>5. Unrepeated(t)
    BY <2>2, <2>3, <2>4, SMTT(30) DEF Unrepeated
  <2>6. ASSUME NEW x PROVE x \in Range(t) <=> x \in Range(s) \/ x = c
    <3>1. x \in Range(t) <=> \E i \in 1 .. Len(t) : x = t[i]
      BY <1>0, <2>2
    <3>2. x \in Range(s) <=> \E i \in 1 .. Len(s) : x = s[i]
      BY InRange
    <3>3. Len(s) + 1 \in 1 .. Len(t) /\ \A i \in 1 .. Len(s) : i \in 1 .. Len(t)
      BY <2>1, <2>2, SMTT(30)
    <3>4. (\E i \in 1 .. Len(t) : x = t[i]) <=> (\E i \in 1 .. Len(s) : x = s[i]) \/ x = c
      <4> HIDE <1>2
      <4>1. PICK n : n = Len(s) + 1
        OBVIOUS
      <4> QED
        BY <2>2, <2>4, <3>3, <4>1
    <3> QED
      BY <3>1, <3>2, <3>4
  <2> QED
    BY <2>2, <2>5, <2>6 DEF Bundles
<1> QED
  BY <1>1, <1>2

\* The loop over the certificates of one input
LEMMA InputAdded ==
    ASSUME NEW C, NEW out \in Seq(C), Unrepeated(out), NEW certs \in Seq(C)
    PROVE  Bundles(AddNew(out, certs), C, Range(out) \cup Range(certs))
<1> DEFINE n == Len(certs)
           Add(s, c) == IF c \in Range(s) THEN s ELSE Append(s, c)
           step == [x \in (1 .. n) \X Seq(C) |-> Add(x[2], certs[x[1]])]
           F == CHOOSE upto : upto = [j \in 0 .. n |-> IF j = 0 THEN out ELSE Add(upto[j - 1], certs[j])]
<1>1. n \in Nat /\ \A j \in 1 .. n : certs[j] \in C
  BY SMTT(30)
<1>2. \A j \in 1 .. n, s \in Seq(C) : step[<<j, s>>] = Add(s, certs[j])
  OBVIOUS
<1>3. step \in [(1 .. n) \X Seq(C) -> Seq(C)]
  <2>1. \A j \in 1 .. n, s \in Seq(C) : Add(s, certs[j]) \in Seq(C)
    BY <1>1, SMTT(30)
  <2>2. \A x \in (1 .. n) \X Seq(C) : x[1] \in 1 .. n /\ x[2] \in Seq(C)
    OBVIOUS
  <2> HIDE DEF n, Add
  <2> QED
    BY <2>1, <2>2
<1>4. AddNew(out, certs) = F[n]
  BY DEF AddNew
<1> HIDE DEF n, step, Add
<1>5. PICK g : BuiltBy(g, n, Seq(C), out, step)
  <2>1. PICK A : A = Seq(C)
    OBVIOUS
  <2>2. out \in A /\ step \in StepFunctions(n, A)
    BY <1>3, <2>1 DEF StepFunctions
  <2> QED
    BY <1>1, <2>1, <2>2, RecursionExists
<1>6. g = [j \in 0 .. n |-> IF j = 0 THEN out ELSE Add(g[j - 1], certs[j])]
  <2>1. g \in [0 .. n -> Seq(C)] /\ g[0] = out /\ \A j \in 1 .. n : g[j] = step[<<j, g[j - 1]>>]
    BY <1>5 DEF BuiltBy
  <2>2. ASSUME NEW j \in 1 .. n PROVE g[j] = Add(g[j - 1], certs[j])
    <3>1. j - 1 \in 0 .. n
      BY <1>1, SMTT(30)
    <3>2. g[j - 1] \in Seq(C)
      BY <2>1, <3>1
    <3> QED
      BY <1>2, <2>1, <3>2
  <2>3. \A j \in 0 .. n : j = 0 \/ j \in 1 .. n
    BY <1>1, SMTT(30)
  <2>4. \A j \in 0 .. n : g[j] = IF j = 0 THEN out ELSE Add(g[j - 1], certs[j])
    BY <2>1, <2>2, <2>3
  <2> QED
    BY <2>1, <2>4
<1>7. F = [j \in 0 .. n |-> IF j = 0 THEN out ELSE Add(F[j - 1], certs[j])]
  BY <1>6
<1> HIDE DEF F
<1>8. F[0] = out /\ \A j \in 1 .. n : F[j] = Add(F[j - 1], certs[j])
  <2>1. \A j \in 0 .. n : F[j] = IF j = 0 THEN out ELSE Add(F[j - 1], certs[j])
    BY <1>7
  <2>2. 0 \in 0 .. n /\ \A j \in 1 .. n : j \in 0 .. n /\ j # 0
    BY <1>1, SMTT(30)
  <2> QED
    BY <2>1, <2>2
<1> DEFINE Upto(m) == Range(out) \cup {certs[j] : j \in 1 .. m}
           T == {m \in Nat : m <= n => Bundles(F[m], C, Upto(m))}
<1>9. Bundles(F[0], C, Upto(0))
  <2>1. 1 .. 0 = {}
    BY SMTT(30)
  <2> QED
    BY <1>8, <2>1 DEF Bundles
<1>10. ASSUME NEW m \in Nat, m + 1 <= n, Bundles(F[m], C, Upto(m)) PROVE Bundles(F[m + 1], C, Upto(m + 1))
  <2>1. PICK q \in 1 .. n : q = m + 1 /\ q - 1 = m
    BY <1>1, <1>10, SMTT(30)
  <2>2. PICK s, c, t : s = F[m] /\ c = certs[q] /\ t = F[q]
    OBVIOUS
  <2>3. s \in Seq(C) /\ Unrepeated(s) /\ \A x : x \in Range(s) <=> x \in Upto(m)
    <3> HIDE DEF Upto
    <3> QED
      BY <1>10, <2>2 DEF Bundles
  <2>4. c \in C /\ t = IF c \in Range(s) THEN s ELSE Append(s, c)
    <3>1. F[q] = Add(F[q - 1], certs[q]) /\ certs[q] \in C
      BY <1>1, <1>8
    <3>2. c \in C /\ t = Add(s, c)
      BY <2>1, <2>2, <3>1
    <3> QED
      BY <3>2 DEF Add
  <2>5. Bundles(t, C, Range(s) \cup {c})
    BY <2>3, <2>4, MergeOne
  <2>6. \A j : j \in 1 .. q <=> j \in 1 .. m \/ j = q
    BY <2>1, SMTT(30)
  <2>7. \A x : x \in Upto(q) <=> x \in Upto(m) \/ x = c
    BY <2>2, <2>6
  <2>8. Bundles(t, C, Upto(q))
    <3> HIDE DEF Upto
    <3> QED
      BY <2>3, <2>5, <2>7 DEF Bundles
  <2> QED
    BY <2>1, <2>2, <2>8
<1>11. Bundles(F[n], C, Upto(n))
  <2> HIDE DEF Upto
  <2>1. 0 \in T
    BY <1>9
  <2>2. ASSUME NEW m \in Nat, m \in T PROVE m + 1 \in T
    <3>1. m + 1 \in Nat /\ (m + 1 <= n => m <= n)
      BY <1>1, SMTT(30)
    <3> QED
      BY <1>10, <2>2, <3>1
  <2>3. n <= n
    BY <1>1, SMTT(30)
  <2> HIDE DEF T
  <2>4. n \in T
    BY <1>1, <2>1, <2>2, SetInduction
  <2> QED
    BY <2>3, <2>4 DEF T
<1>12. \A x : x \in Range(certs) <=> \E j \in 1 .. n : x = certs[j]
  BY InRange DEF n
<1>13. \A x : x \in Upto(n) <=> x \in Range(out) \cup Range(certs)
  BY <1>12
<1> HIDE DEF Upto
<1> QED
  BY <1>4, <1>11, <1>13 DEF Bundles

\* The loop over the inputs: the bundle holds the certificates of all of them,
\* each once.
LEMMA MergeFacts ==
    ASSUME NEW C, NEW inputs \in Seq(Seq(C))
    PROVE  Bundles(mergeCABundle(inputs), C, UNION {Range(inputs[i]) : i \in 1 .. Len(inputs)})
<1> DEFINE n == Len(inputs)
           U == {s \in Seq(C) : Unrepeated(s)}
           step == [x \in (1 .. n) \X U |-> AddNew(x[2], inputs[x[1]])]
           F == CHOOSE upto : upto = [i \in 0 .. n |-> IF i = 0 THEN <<>> ELSE AddNew(upto[i - 1], inputs[i])]
<1>1. n \in Nat /\ \A i \in 1 .. n : inputs[i] \in Seq(C)
  BY SMTT(30)
<1>2. \A i \in 1 .. n, s \in U : step[<<i, s>>] = AddNew(s, inputs[i])
  OBVIOUS
<1>3. step \in [(1 .. n) \X U -> U]
  <2>1. ASSUME NEW i \in 1 .. n, NEW s \in U PROVE AddNew(s, inputs[i]) \in U
    <3>1. Bundles(AddNew(s, inputs[i]), C, Range(s) \cup Range(inputs[i]))
      BY <1>1, InputAdded
    <3> QED
      BY <3>1 DEF Bundles
  <2>2. \A x \in (1 .. n) \X U : x[1] \in 1 .. n /\ x[2] \in U
    OBVIOUS
  <2> HIDE DEF n, U
  <2> QED
    BY <2>1, <2>2
<1>4. mergeCABundle(inputs) = F[n]
  BY DEF mergeCABundle
<1>5. <<>> \in U /\ \A x : x \notin Range(<<>>)
  BY SMTT(30) DEF Unrepeated, Range
<1> HIDE DEF n, step, U
<1>6. PICK g : BuiltBy(g, n, U, <<>>, step)
  <2>1. step \in StepFunctions(n, U)
    BY <1>3 DEF StepFunctions
  <2>2. PICK e : e = <<>>
    OBVIOUS
  <2> QED
    BY <1>1, <1>5, <2>1, <2>2, RecursionExists
<1>7. g = [i \in 0 .. n |-> IF i = 0 THEN <<>> ELSE AddNew(g[i - 1], inputs[i])]
  <2>1. g \in [0 .. n -> U] /\ g[0] = <<>> /\ \A i \in 1 .. n : g[i] = step[<<i, g[i - 1]>>]
    BY <1>6 DEF BuiltBy
  <2>2. ASSUME NEW i \in 1 .. n PROVE g[i] = AddNew(g[i - 1], inputs[i])
    <3>1. i - 1 \in 0 .. n
      BY <1>1, SMTT(30)
    <3>2. g[i - 1] \in U
      BY <2>1, <3>1
    <3> QED
      BY <1>2, <2>1, <3>2
  <2>3. \A i \in 0 .. n : i = 0 \/ i \in 1 .. n
    BY <1>1, SMTT(30)
  <2>4. \A i \in 0 .. n : g[i] = IF i = 0 THEN <<>> ELSE AddNew(g[i - 1], inputs[i])
    BY <2>1, <2>2, <2>3
  <2> QED
    BY <2>1, <2>4
<1>8. F = [i \in 0 .. n |-> IF i = 0 THEN <<>> ELSE AddNew(F[i - 1], inputs[i])]
  BY <1>7
<1> HIDE DEF F
<1>9. F[0] = <<>> /\ \A i \in 1 .. n : F[i] = AddNew(F[i - 1], inputs[i])
  <2>1. \A i \in 0 .. n : F[i] = IF i = 0 THEN <<>> ELSE AddNew(F[i - 1], inputs[i])
    BY <1>8
  <2>2. 0 \in 0 .. n /\ \A i \in 1 .. n : i \in 0 .. n /\ i # 0
    BY <1>1, SMTT(30)
  <2> QED
    BY <2>1, <2>2
<1> DEFINE Upto(m) == UNION {Range(inputs[i]) : i \in 1 .. m}
           T == {m \in Nat : m <= n => Bundles(F[m], C, Upto(m))}
<1>10. Bundles(F[0], C, Upto(0))
  <2>1. 1 .. 0 = {}
    BY SMTT(30)
  <2>2. \A x : x \notin Upto(0)
    BY <2>1
  <2> QED
    BY <1>5, <1>9, <2>2 DEF Bundles, U
<1>11. ASSUME NEW m \in Nat, m + 1 <= n, Bundles(F[m], C, Upto(m)) PROVE Bundles(F[m + 1], C, Upto(m + 1))
  <2>1. PICK q \in 1 .. n : q = m + 1 /\ q - 1 = m
    BY <1>1, <1>11, SMTT(30)
  <2>2. PICK s, c, t : s = F[m] /\ c = inputs[q] /\ t = F[q]
    OBVIOUS
  <2>3. s \in Seq(C) /\ Unrepeated(s) /\ \A x : x \in Range(s) <=> x \in Upto(m)
    <3> HIDE DEF Upto
    <3> QED
      BY <1>11, <2>2 DEF Bundles
  <2>4. c \in Seq(C) /\ t = AddNew(s, c)
    BY <1>1, <1>9, <2>1, <2>2
  <2>5. Bundles(t, C, Range(s) \cup Range(c))
    BY <2>3, <2>4, InputAdded
  <2>6. \A i : i \in 1 .. q <=> i \in 1 .. m \/ i = q
    BY <2>1, SMTT(30)
  <2>7. \A x : x \in Upto(q) <=> x \in Upto(m) \/ x \in Range(c)
    BY <2>2, <2>6
  <2>8. Bundles(t, C, Upto(q))
    <3> HIDE DEF Upto
    <3> QED
      BY <2>3, <2>5, <2>7 DEF Bundles
  <2> QED
    BY <2>1, <2>2, <2>8
<1>12. Bundles(F[n], C, Upto(n))
  <2> HIDE DEF Upto
  <2>1. 0 \in T
    BY <1>10
  <2>2. ASSUME NEW m \in Nat, m \in T PROVE m + 1 \in T
    <3>1. m + 1 \in Nat /\ (m + 1 <= n => m <= n)
      BY <1>1, SMTT(30)
    <3> QED
      BY <1>11, <2>2, <3>1
  <2>3. n <= n
    BY <1>1, SMTT(30)
  <2> HIDE DEF T
  <2>4. n \in T
    BY <1>1, <2>1, <2>2, SetInduction
  <2> QED
    BY <2>3, <2>4 DEF T
<1> QED
  BY <1>4, <1>12 DEF n

-----------------------------------------------------------------------------
(* The shape of the state *)

Clusters == [here: BOOLEAN, deleting: BOOLEAN, final: BOOLEAN, spec: Specs]
TLSStatuses == [enabled: BOOLEAN, ready: BOOLEAN, nodes: BOOLEAN, cas: 0 .. Cardinality(Certs), error: BOOLEAN]
Monitorings == [enabled: BOOLEAN, exporter: BOOLEAN, kind: {"", "PodMonitor", "ServiceMonitor", "None"}, scrape: BOOLEAN]
Statuses == [phase: {"", "Creating", "Ready", "Failed"}, tls: TLSStatuses, mon: Monitorings]
Trusts == {Missing} \cup {b \in Seq(Certs) : Unrepeated(b)}
Objects == [certificate: Issuers \cup {""}, trust: Trusts, configMap: BOOLEAN,
            sts: Templates \cup {NoTemplate}, service: SUBSET Ports, pdb: BOOLEAN, monitors: SUBSET Kinds]
PodStates == [tmpl: Templates \cup {NoTemplate}, up: BOOLEAN]
Steps == {"idle", "tls", "trust", "config", "sts", "service", "pdb", "scrape", "unscrape", "status"}

\* What a source holds; the cluster's own Secret has what cert-manager issued.
SourceShape ==
    /\ src \in [Entries \cup {"tls", "rules"} -> Seq(Certs) \cup {Missing, Keyless}]
    /\ src["tls"] \in {Missing} \cup Issued

\* A pass that is under way read a spec of a cluster that is here and has its
\* finalizer, so that nothing is collected under it.
PassShape ==
    /\ pc \in Steps /\ snap \in Specs \cup {NoSpec} /\ stale \in BOOLEAN
    /\ pc # "idle" => snap \in Specs /\ cluster.here /\ cluster.final

Excuses == {"dropped", "unmerged", "blank"}
BoundShape == edits \in 0 .. MaxEdits /\ upsets \in 0 .. MaxUpsets

Shape ==
    /\ cluster \in Clusters /\ status \in Statuses /\ made \in Objects
    /\ SourceShape /\ crds \in BOOLEAN /\ pod \in [Pods -> PodStates]
    /\ PassShape /\ excused \subseteq Excuses /\ BoundShape

\* What buildTrustBundle returns when it does not fail
BundleMade(s) ==
    /\ buildTrustBundle(s) \in Seq(Certs) /\ Unrepeated(buildTrustBundle(s))
    /\ Len(buildTrustBundle(s)) \in 0 .. Cardinality(Certs)
    /\ src["tls"] \notin {Missing, <<>>} => Range(buildTrustBundle(s)) \cap OwnCAs # {}

LEMMA BundleFacts ==
    ASSUME SourceShape, NEW s \in Specs, ~TrustBundleFails(s)
    PROVE  BundleMade(s)
<1> DEFINE rest == [i \in DOMAIN s.cas |-> src[s.cas[i]]]
           own == IF clusterCAMissing THEN <<>> ELSE <<src["tls"]>>
<1>1. s.cas \in Seq(Entries)
  BY ObjectsAssumption DEF ClusterSpecs
<1>2. rest \in Seq(Seq(Certs))
  <2>1. PICK cas : cas = s.cas
    OBVIOUS
  <2>2. cas \in Seq(Entries) /\ DOMAIN cas = 1 .. Len(cas) /\ Len(cas) \in Nat
    BY <1>1, <2>1, SMTT(30)
  <2>3. \A i \in 1 .. Len(cas) : src[cas[i]] \in Seq(Certs)
    BY <2>1, <2>2, SMTT(30) DEF TrustBundleFails, Readable, SourceShape
  <2>4. rest = [i \in 1 .. Len(cas) |-> src[cas[i]]]
    BY <2>1, <2>2
  <2> QED
    BY <2>2, <2>3, <2>4, SMTT(30)
<1>3. own \in Seq(Seq(Certs)) /\ (src["tls"] # Missing => Len(own) = 1 /\ own[1] = src["tls"])
  <2>1. src["tls"] \in Seq(Certs) \cup {Missing}
    BY DEF SourceShape, TrustBundleFails
  <2> QED
    BY <2>1, SMTT(30) DEF clusterCAMissing
<1> HIDE DEF rest, own
<1>4. PICK inputs : inputs = own \o rest
  OBVIOUS
<1>5. /\ inputs \in Seq(Seq(Certs))
      /\ src["tls"] # Missing => 1 \in 1 .. Len(inputs) /\ inputs[1] = src["tls"]
  BY <1>2, <1>3, <1>4, SMTT(30)
<1>6. PICK b : b = buildTrustBundle(s)
  OBVIOUS
<1>7. Bundles(b, Certs, UNION {Range(inputs[i]) : i \in 1 .. Len(inputs)})
  <2>1. b = mergeCABundle(inputs)
    BY <1>4, <1>6 DEF buildTrustBundle, own, rest
  <2> QED
    BY <1>5, <2>1, MergeFacts
<1>8. b \in Seq(Certs) /\ Unrepeated(b)
  BY <1>7 DEF Bundles
<1>9. Len(b) \in 0 .. Cardinality(Certs)
  <2>1. IsFiniteSet(Certs) /\ Range(b) \subseteq Certs
    BY <1>8, SourcesAssumption, InRange, SMTT(30)
  <2>2. Cardinality(Range(b)) = Len(b) /\ Cardinality(Range(b)) <= Cardinality(Certs)
    BY <1>8, <2>1, UnrepeatedCount, FS_Subset
  <2>3. Cardinality(Certs) \in Nat /\ Len(b) \in Nat
    BY <1>8, <2>1, FS_CardinalityType, SMTT(30)
  <2> QED
    BY <2>2, <2>3, SMTT(30)
<1>10. ASSUME src["tls"] \notin {Missing, <<>>} PROVE Range(b) \cap OwnCAs # {}
  <2>1. PICK ca \in OwnCAs : src["tls"] = <<ca>>
    BY <1>10 DEF SourceShape, Issued, TrustBundleFails
  <2>2. ca \in Range(inputs[1]) /\ 1 \in 1 .. Len(inputs)
    BY <1>5, <1>10, <2>1, SMTT(30) DEF Range
  <2>3. ca \in UNION {Range(inputs[i]) : i \in 1 .. Len(inputs)}
    BY <2>2
  <2> QED
    BY <1>7, <2>3 DEF Bundles
<1> QED
  BY <1>6, <1>8, <1>9, <1>10 DEF BundleMade

LEMMA SpecFields ==
    ASSUME NEW s \in Specs
    PROVE  /\ {s.tls, s.pdb, s.ephemeral, s.mon, s.custom} \subseteq BOOLEAN
           /\ s.issuer \in Issuers \cup {""}
           /\ s.kind \in {"PodMonitor", "ServiceMonitor", "None"}
BY ObjectsAssumption DEF ClusterSpecs

LEMMA TemplateShape ==
    ASSUME NEW s \in Specs
    PROVE  Template(s) \in Templates
BY SpecFields DEF Template, Templates, hasAdditionalClientCAs

LEMMA InitialShape == Init => Shape
<1> SUFFICES ASSUME Init PROVE Shape
  OBVIOUS
<1>1. cluster \in Clusters
  <2>1. PICK s \in Specs : cluster = [here |-> TRUE, deleting |-> FALSE, final |-> FALSE, spec |-> s]
    BY StartsAssumption DEF Init
  <2> QED
    BY <2>1 DEF Clusters
<1>2. status \in Statuses
  <2>1. Cardinality(Certs) \in Nat
    BY SourcesAssumption, FS_CardinalityType
  <2>2. NoTLS \in TLSStatuses
    BY <2>1, SMTT(30) DEF NoTLS, TLSStatuses
  <2>3. NoMonitoring \in Monitorings
    BY DEF NoMonitoring, Monitorings
  <2> QED
    BY <2>2, <2>3 DEF Init, Statuses
<1>3. made \in Objects
  BY DEF Init, NoObjects, Objects, Trusts, Ports, Kinds
<1>4. SourceShape
  <2>1. PICK s \in Starts : src = s.src
    BY DEF Init
  <2>2. src \in [Entries \cup {"tls", "rules"} -> Contents \cup {Missing, <<>>}]
    BY <2>1, StartsAssumption
  <2>3. Contents \cup {Missing, <<>>} \subseteq Seq(Certs) \cup {Missing, Keyless}
    <3>1. <<>> \in Seq(Certs)
      BY SMTT(30)
    <3> QED
      BY <3>1, SourcesAssumption
  <2>4. src \in [Entries \cup {"tls", "rules"} -> Seq(Certs) \cup {Missing, Keyless}]
    BY <2>2, <2>3, SMTT(30)
  <2>5. src["tls"] = Missing
    BY <2>1, StartsAssumption
  <2> QED
    BY <2>4, <2>5 DEF SourceShape
<1>5. pod \in [Pods -> PodStates]
  BY DEF Init, NoPod, PodStates
<1>6. PassShape /\ BoundShape
  <2>1. pc = "idle" /\ snap = NoSpec /\ stale = FALSE /\ edits = 0 /\ upsets = 0
    BY DEF Init
  <2> QED
    <3>1. PassShape
      BY <2>1 DEF PassShape, Steps
    <3>2. MaxEdits \in Nat /\ MaxUpsets \in Nat
      BY ObjectsAssumption
    <3> QED
      BY <2>1, <3>1, <3>2, SMTT(30) DEF BoundShape
<1>7. crds \in BOOLEAN
  BY StartsAssumption DEF Init
<1> QED
  BY <1>1, <1>2, <1>3, <1>4, <1>5, <1>6, <1>7 DEF Init, Shape

LEMMA ShapeAfterStart ==
    ASSUME Shape, StartPass
    PROVE  Shape'
<1>1. cluster' \in Clusters
  BY DEF Shape, StartPass, Clusters
<1>2. status' \in Statuses
  BY DEF Shape, StartPass, Statuses
<1>3. PassShape'
  BY DEF Shape, StartPass, Clusters, PassShape, Steps, passVars
<1> QED
  BY <1>1, <1>2, <1>3 DEF Shape, StartPass, SourceShape, BoundShape, boundVars

LEMMA PhaseKeepsShape ==
    ASSUME status \in Statuses, NEW ph \in {"", "Creating", "Ready", "Failed"}, SetPhase(ph)
    PROVE  status' \in Statuses
BY DEF SetPhase, Statuses

\* How a step of a pass moves it on
LEMMA PassMoves ==
    ASSUME PassShape, cluster' = cluster, pc # "idle",
           EndPass \/ \E l \in Steps : Goto(l)
    PROVE  PassShape'
BY DEF PassShape, EndPass, Goto, Steps

\* The steps of a pass that write objects
LEMMA ShapeAfterTLS ==
    ASSUME Shape, ReconcileTLSCertificate
    PROVE  Shape'
<1>1. PassShape'
  <2>1. PassShape /\ pc # "idle" /\ cluster' = cluster /\ (EndPass \/ Goto("trust"))
    BY DEF Shape, ReconcileTLSCertificate
  <2> QED
    BY <2>1, PassMoves DEF Steps
<1>2. status' \in Statuses
  BY PhaseKeepsShape DEF Shape, ReconcileTLSCertificate
<1>3. made' \in Objects
  <2>1. snap \in Specs /\ made \in Objects
    BY DEF Shape, PassShape, ReconcileTLSCertificate
  <2>2. snap.issuer \in Issuers \cup {""}
    BY <2>1, SpecFields
  <2> QED
    BY <2>1, <2>2 DEF ReconcileTLSCertificate, Objects
<1> QED
  BY <1>1, <1>2, <1>3 DEF Shape, ReconcileTLSCertificate, SourceShape, BoundShape, boundVars

LEMMA ShapeAfterTrust ==
    ASSUME Shape, ReconcileTrustBundle
    PROVE  Shape'
<1>1. PassShape'
  <2>1. PassShape /\ pc # "idle" /\ cluster' = cluster /\ Goto("config")
    BY DEF Shape, ReconcileTrustBundle
  <2> QED
    BY <2>1, PassMoves DEF Steps
<1>2. snap \in Specs /\ made \in Objects /\ SourceShape
  BY DEF Shape, PassShape, ReconcileTrustBundle
<1>3. WritesTrust(snap) => buildTrustBundle(snap) \in Trusts
  <2> SUFFICES ASSUME WritesTrust(snap) PROVE buildTrustBundle(snap) \in Trusts
    OBVIOUS
  <2>1. ~TrustBundleFails(snap) /\ src["tls"] # Missing
    BY DEF WritesTrust, clusterCAMissing
  <2>2. BundleMade(snap)
    BY <1>2, <2>1, BundleFacts
  <2> QED
    BY <2>1, <2>2 DEF BundleMade, Trusts
<1>4. made' \in Objects
  <2>1. made' = IF WritesTrust(snap) THEN [made EXCEPT !.trust = buildTrustBundle(snap)] ELSE made
    BY DEF ReconcileTrustBundle
  <2> QED
    BY <1>2, <1>3, <2>1 DEF Objects
<1>5. excused' \subseteq Excuses
  BY DEF Shape, Excuses, ReconcileTrustBundle
<1> QED
  BY <1>1, <1>4, <1>5 DEF Shape, ReconcileTrustBundle, SourceShape, BoundShape, boundVars

LEMMA ShapeAfterConfigMap ==
    ASSUME Shape, ReconcileMonitoringConfigMap
    PROVE  Shape'
<1>1. PassShape'
  <2>1. PassShape /\ pc # "idle" /\ cluster' = cluster /\ (EndPass \/ Goto("sts"))
    BY DEF Shape, ReconcileMonitoringConfigMap, Unless
  <2> QED
    BY <2>1, PassMoves DEF Steps
<1>2. made' \in Objects
  BY DEF Shape, ReconcileMonitoringConfigMap, Objects
<1>3. excused' \subseteq Excuses
  BY DEF Shape, Excuses, ReconcileMonitoringConfigMap
<1> QED
  BY <1>1, <1>2, <1>3 DEF Shape, ReconcileMonitoringConfigMap, SourceShape, BoundShape, boundVars

LEMMA ShapeAfterStatefulSet ==
    ASSUME Shape, ReconcileStatefulSet
    PROVE  Shape'
<1>1. PassShape'
  <2>1. PassShape /\ pc # "idle" /\ cluster' = cluster /\ (EndPass \/ Goto("service"))
    BY DEF Shape, ReconcileStatefulSet
  <2> QED
    BY <2>1, PassMoves DEF Steps
<1>2. status' \in Statuses
  BY PhaseKeepsShape DEF Shape, ReconcileStatefulSet
<1>3. made' \in Objects
  <2>1. Template(snap) \in Templates
    BY TemplateShape DEF Shape, PassShape, ReconcileStatefulSet
  <2> QED
    BY <2>1 DEF Shape, ReconcileStatefulSet, Objects
<1> QED
  BY <1>1, <1>2, <1>3 DEF Shape, ReconcileStatefulSet, SourceShape, BoundShape, boundVars

LEMMA ShapeAfterService ==
    ASSUME Shape, ReconcileService \/ ReconcilePodDisruptionBudget \/ ReconcileMonitor \/ DeleteMonitor
    PROVE  Shape'
<1>1. snap \in Specs /\ made \in Objects
  BY DEF Shape, PassShape, ReconcileService, ReconcilePodDisruptionBudget, ReconcileMonitor, DeleteMonitor
<1>2. PassShape'
  <2>1. PassShape /\ pc # "idle" /\ cluster' = cluster /\ \E l \in Steps : Goto(l)
    BY DEF Shape, ReconcileService, ReconcilePodDisruptionBudget, ReconcileMonitor, DeleteMonitor, Steps
  <2> QED
    BY <2>1, PassMoves
<1>3. made' \in Objects
  <2>1. CASE ReconcileService
    <3>1. ServicePorts(snap) \subseteq Ports
      BY DEF ServicePorts, Ports
    <3> QED
      BY <1>1, <2>1, <3>1 DEF ReconcileService, Objects
  <2>2. CASE ReconcilePodDisruptionBudget
    <3>1. snap.pdb \in BOOLEAN
      BY <1>1, SpecFields
    <3> QED
      BY <1>1, <2>2, <3>1 DEF ReconcilePodDisruptionBudget, Objects
  <2>3. CASE ReconcileMonitor
    <3>1. Wanted(snap) \subseteq Kinds
      BY DEF Wanted
    <3> QED
      BY <1>1, <2>3, <3>1 DEF ReconcileMonitor, Objects
  <2>4. CASE DeleteMonitor
    BY <1>1, <2>4 DEF DeleteMonitor, Objects
  <2> QED
    BY <2>1, <2>2, <2>3, <2>4
<1> QED
  BY <1>2, <1>3 DEF Shape, ReconcileService, ReconcilePodDisruptionBudget, ReconcileMonitor, DeleteMonitor,
                    SourceShape, BoundShape, boundVars

LEMMA ShapeAfterStatus ==
    ASSUME Shape, UpdateClusterStatus
    PROVE  Shape'
<1>1. snap \in Specs /\ SourceShape
  BY DEF Shape, PassShape, UpdateClusterStatus
<1>2. PassShape'
  <2>1. PassShape /\ pc # "idle" /\ cluster' = cluster /\ EndPass
    BY DEF Shape, UpdateClusterStatus
  <2> QED
    BY <2>1, PassMoves
<1>3. TLSStatus(snap) \in TLSStatuses
  <2>1. Cardinality(Certs) \in Nat
    BY SourcesAssumption, FS_CardinalityType
  <2>2. (IF TrustBundleFails(snap) THEN 0 ELSE Len(buildTrustBundle(snap))) \in 0 .. Cardinality(Certs)
    BY <1>1, <2>1, BundleFacts, SMTT(30) DEF BundleMade
  <2>3. certificateReady \in BOOLEAN /\ AllReady \in BOOLEAN /\ TrustBundleFails(snap) \in BOOLEAN
    BY DEF certificateReady, AllReady, TrustBundleFails
  <2>4. CASE ~snap.tls
    BY <2>1, <2>4, SMTT(30) DEF TLSStatus, NoTLS, TLSStatuses
  <2>5. CASE snap.tls
    <3>1. PICK n, e, r, a : /\ n = (IF TrustBundleFails(snap) THEN 0 ELSE Len(buildTrustBundle(snap)))
                            /\ e = TrustBundleFails(snap) /\ r = certificateReady
                            /\ a = (certificateReady /\ AllReady)
      OBVIOUS
    <3>2. TLSStatus(snap) = [enabled |-> TRUE, ready |-> r, nodes |-> a, cas |-> n, error |-> e]
      BY <2>5, <3>1 DEF TLSStatus
    <3>3. n \in 0 .. Cardinality(Certs) /\ {e, r, a} \subseteq BOOLEAN
      BY <2>2, <2>3, <3>1
    <3> QED
      BY <3>2, <3>3, SMTT(30) DEF TLSStatuses
  <2> QED
    BY <2>4, <2>5
<1>4. MonitoringStatus(snap) \in Monitorings
  <2>1. snap.kind \in {"PodMonitor", "ServiceMonitor", "None"}
    BY <1>1, SpecFields
  <2>2. PICK k, a, x : /\ k = snap.kind /\ a = (snap.kind \in made.monitors)
                       /\ x = (Existing # {} /\ \A p \in Existing : pod[p].up /\ pod[p].tmpl.config # "none")
    OBVIOUS
  <2>3. a \in BOOLEAN /\ x \in BOOLEAN
    BY <2>2, SMTT(30)
  <2>4. CASE ~snap.mon
    BY <2>4 DEF MonitoringStatus, NoMonitoring, Monitorings
  <2>5. CASE snap.mon
    <3>1. MonitoringStatus(snap) = [enabled |-> TRUE, kind |-> k, scrape |-> a, exporter |-> x]
      BY <2>2, <2>5 DEF MonitoringStatus
    <3>2. PICK K : K = {"", "PodMonitor", "ServiceMonitor", "None"}
      OBVIOUS
    <3>3. k \in K
      BY <2>1, <2>2, <3>2
    <3>4. [enabled |-> TRUE, kind |-> k, scrape |-> a, exporter |-> x]
             \in [enabled: BOOLEAN, exporter: BOOLEAN, kind: K, scrape: BOOLEAN]
      BY <2>3, <3>3
    <3> QED
      BY <3>1, <3>2, <3>4 DEF Monitorings
  <2> QED
    BY <2>4, <2>5
<1>5. status' \in Statuses
  BY <1>3, <1>4 DEF Shape, UpdateClusterStatus, Statuses
<1> QED
  BY <1>2, <1>5 DEF Shape, UpdateClusterStatus, SourceShape, BoundShape, boundVars

LEMMA ShapeAfterFault ==
    ASSUME Shape, Fault
    PROVE  Shape'
<1>1. PassShape'
  <2>1. PassShape /\ pc # "idle" /\ cluster' = cluster /\ (EndPass \/ Goto("config"))
    BY DEF Shape, Fault
  <2> QED
    BY <2>1, PassMoves DEF Steps
<1>2. status' \in Statuses
  BY PhaseKeepsShape DEF Shape, Fault
<1>3. excused' \subseteq Excuses
  BY DEF Shape, Excuses, Fault
<1>4. BoundShape'
  BY ObjectsAssumption, SMTT(30) DEF Shape, BoundShape, Fault, Upset
<1> QED
  BY <1>1, <1>2, <1>3, <1>4 DEF Shape, Fault, SourceShape

LEMMA ShapeAfterUser ==
    ASSUME Shape, Delete \/ \E s \in Specs : EditSpec(s)
    PROVE  Shape'
<1>1. cluster' \in Clusters
  BY DEF Shape, Clusters, Delete, EditSpec
<1>2. PassShape'
  BY DEF Shape, Clusters, Delete, EditSpec, PassShape
<1>3. BoundShape'
  BY ObjectsAssumption, SMTT(30) DEF Shape, BoundShape, Delete, EditSpec
<1> QED
  BY <1>1, <1>2, <1>3 DEF Shape, Delete, EditSpec, SourceShape

LEMMA ShapeAfterSources ==
    ASSUME Shape, Issue \/ Change
    PROVE  Shape'
<1>1. SourceShape'
  <2>1. /\ SourceShape /\ "tls" \notin Entries /\ "rules" \notin Entries
        /\ Contents \subseteq Seq(Certs) \cup {Missing, Keyless}
    BY SourcesAssumption DEF Shape
  <2>2. Issued \subseteq Seq(Certs) \cup {Keyless}
    <3>1. OwnCAs \subseteq Certs
      BY DEF Certs
    <3>2. \A ca \in OwnCAs : <<ca>> \in Seq(Certs)
      BY <3>1, SMTT(30)
    <3>3. <<>> \in Seq(Certs)
      BY SMTT(30)
    <3> QED
      BY <3>2, <3>3 DEF Issued
  <2>3. CASE \E c \in Issued : src' = [src EXCEPT !["tls"] = c]
    BY <2>1, <2>2, <2>3 DEF SourceShape
  <2>4. CASE \E n \in Entries, c \in Contents : src' = [src EXCEPT ![n] = c]
    BY <2>1, <2>4 DEF SourceShape
  <2>5. CASE \E c \in {Missing, <<>>} : src' = [src EXCEPT !["rules"] = c]
    <3>1. PICK e : e = <<>>
      OBVIOUS
    <3>2. e \in Seq(Certs)
      BY <3>1, SMTT(30)
    <3>3. \E c \in {Missing, e} : src' = [src EXCEPT !["rules"] = c]
      BY <2>5, <3>1
    <3> HIDE <3>1
    <3> QED
      BY <2>1, <3>2, <3>3, SMTT(30) DEF SourceShape
  <2>6. CASE src' = src
    BY <2>1, <2>6 DEF SourceShape
  <2> QED
    BY <2>3, <2>4, <2>5, <2>6 DEF Issue, Change
<1>2. crds' \in BOOLEAN
  BY DEF Shape, Issue, Change
<1>3. BoundShape'
  <2>1. UNCHANGED boundVars \/ (Upset /\ edits' = edits)
    BY DEF Issue, Change
  <2> QED
    BY <2>1, ObjectsAssumption, SMTT(30) DEF Shape, BoundShape, Upset, boundVars
<1>4. PassShape'
  BY DEF Shape, PassShape, Issue, Change, passVars
<1> QED
  BY <1>1, <1>2, <1>3, <1>4 DEF Shape, Issue, Change

\* Every object is owned.
LEMMA CollectedAll == ASSUME made \in Objects PROVE Collected(made) = NoObjects
<1>1. DOMAIN made = Owned
  BY DEF Objects, Owned
<1>2. DOMAIN NoObjects = Owned
  BY DEF NoObjects, Owned
<1>3. NoObjects = [k \in Owned |-> NoObjects[k]]
  BY <1>2 DEF NoObjects
<1> QED
  BY <1>1, <1>3 DEF Collected

LEMMA ShapeAfterPods ==
    ASSUME Shape, Workload \/ (\E p \in Pods : Evict(p)) \/ GarbageCollect
    PROVE  Shape'
<1>1. pod' \in [Pods -> PodStates]
  <2>1. pod \in [Pods -> PodStates] /\ made.sts \in Templates \cup {NoTemplate}
    BY DEF Shape, Objects
  <2>2. ASSUME NEW p \in Pods, CreatePod(p) PROVE pod' \in [Pods -> PodStates]
    BY <2>1, <2>2 DEF CreatePod, PodStates
  <2>3. ASSUME NEW p \in Pods, ReplacePod(p) PROVE pod' \in [Pods -> PodStates]
    BY <2>1, <2>3 DEF ReplacePod, PodStates
  <2>4. ASSUME NEW p \in Pods, StartPod(p) \/ Evict(p) PROVE pod' \in [Pods -> PodStates]
    BY <2>1, <2>4 DEF StartPod, Evict, PodStates
  <2>5. ASSUME GarbageCollect PROVE pod' \in [Pods -> PodStates]
    BY <2>5 DEF GarbageCollect, NoPod, PodStates
  <2> QED
    BY <2>2, <2>3, <2>4, <2>5 DEF Workload
<1>2. made' \in Objects
  <2>1. made' = made \/ made' = NoObjects
    BY CollectedAll DEF Shape, Workload, CreatePod, ReplacePod, StartPod, Evict, GarbageCollect
  <2>2. NoObjects \in Objects
    BY DEF NoObjects, Objects, Trusts, Ports, Kinds
  <2> QED
    BY <2>1, <2>2 DEF Shape
<1>3. BoundShape'
  BY ObjectsAssumption, SMTT(30) DEF Shape, BoundShape, Upset, boundVars,
                           Workload, CreatePod, ReplacePod, StartPod, Evict, GarbageCollect
<1>4. PassShape'
  BY DEF Shape, PassShape, passVars, Workload, CreatePod, ReplacePod, StartPod, Evict, GarbageCollect
<1> QED
  BY <1>1, <1>2, <1>3, <1>4
  DEF Shape, SourceShape, Workload, CreatePod, ReplacePod, StartPod, Evict, GarbageCollect

LEMMA ShapeStep == Shape /\ [Next]_vars => Shape'
<1> SUFFICES ASSUME Shape, [Next]_vars PROVE Shape'
  OBVIOUS
<1>1. CASE Pass
  BY <1>1, ShapeAfterStart, ShapeAfterTLS, ShapeAfterTrust, ShapeAfterConfigMap, ShapeAfterStatefulSet,
     ShapeAfterService, ShapeAfterStatus DEF Pass
<1>2. CASE UNCHANGED vars
  BY <1>2 DEF vars, passVars, boundVars, Shape, SourceShape, PassShape, BoundShape
<1> QED
  BY <1>1, <1>2, ShapeAfterFault, ShapeAfterUser, ShapeAfterSources, ShapeAfterPods DEF Next

LEMMA ShapeHolds == Spec => []Shape
<1> QED
  BY InitialShape, ShapeStep, PTL DEF Spec

LEMMA ShapeIsType == Shape => TypeOK
<1> SUFFICES ASSUME Shape PROVE TypeOK
  OBVIOUS
<1>1. made.trust = Missing \/ Range(made.trust) \subseteq Certs
  <2>1. made.trust \in Trusts
    BY DEF Shape, Objects
  <2>2. made.trust = Missing \/ made.trust \in Seq(Certs)
    BY <2>1 DEF Trusts
  <2> QED
    BY <2>2, InRange, SMTT(30)
<1>2. /\ status.phase \in {"", "Creating", "Ready", "Failed"}
      /\ status.tls.cas \in 0 .. Cardinality(Certs)
  BY DEF Shape, Statuses, TLSStatuses
<1>3. edits <= MaxEdits /\ upsets <= MaxUpsets
  BY ObjectsAssumption, SMTT(30) DEF Shape, BoundShape
<1>4. /\ made.monitors \subseteq Kinds /\ made.service \subseteq Ports
      /\ made.sts \in Templates \cup {NoTemplate} /\ made.certificate \in Issuers \cup {""}
  BY DEF Shape, Objects
<1>5. DOMAIN src = Entries \cup {"tls", "rules"}
  BY DEF Shape, SourceShape
<1>6. /\ pc \in {"idle", "tls", "trust", "config", "sts", "service", "pdb", "scrape", "unscrape", "status"}
      /\ snap \in Specs \cup {NoSpec} /\ {stale, crds} \subseteq BOOLEAN
  BY DEF Shape, PassShape, Steps
<1> QED
  BY <1>1, <1>2, <1>3, <1>4, <1>5, <1>6 DEF Shape, TypeOK, Clusters, PodStates, Excuses

\* Every object keeps the shape the code gives it, whatever is edited or fails.
\* The count of CAs in the status never exceeds the certificates there are:
\* mergeCABundle drops duplicates (trustStatus).
THEOREM ObjectsTypeCorrect == Spec => []TypeOK
BY ShapeHolds, ShapeIsType, PTL

\* Every write of the trust Secret has a CA of the cluster's own or is marked
\* as made from an empty ca.crt, and no other step touches either.
OwnInv == made.trust # Missing => Range(made.trust) \cap OwnCAs # {} \/ "blank" \in excused

LEMMA OwnStep == Shape /\ OwnInv /\ [Next]_vars => OwnInv'
<1> SUFFICES ASSUME Shape, OwnInv, [Next]_vars PROVE OwnInv'
  OBVIOUS
<1>1. made \in Objects
  BY DEF Shape
<1>2. CASE ReconcileTrustBundle
  <2>1. CASE WritesTrust(snap)
    <3>1. snap \in Specs /\ SourceShape
      BY <1>2 DEF Shape, PassShape, ReconcileTrustBundle
    <3>2. ~TrustBundleFails(snap) /\ src["tls"] # Missing
      BY <2>1 DEF WritesTrust, clusterCAMissing
    <3>3. made'.trust = buildTrustBundle(snap)
      BY <1>1, <1>2, <2>1 DEF ReconcileTrustBundle, Objects
    <3>4. src["tls"] = <<>> => "blank" \in excused'
      BY <1>2, <2>1 DEF ReconcileTrustBundle
    <3>5. src["tls"] # <<>> => Range(buildTrustBundle(snap)) \cap OwnCAs # {}
      BY <3>1, <3>2, BundleFacts DEF BundleMade
    <3> QED
      BY <3>3, <3>4, <3>5 DEF OwnInv
  <2>2. CASE ~WritesTrust(snap)
    BY <1>2, <2>2 DEF ReconcileTrustBundle, OwnInv
  <2> QED
    BY <2>1, <2>2
<1>3. CASE GarbageCollect
  <2>1. made' = NoObjects
    BY <1>1, <1>3, CollectedAll DEF GarbageCollect
  <2> QED
    BY <2>1 DEF OwnInv, NoObjects
<1>4. CASE ~ReconcileTrustBundle /\ ~GarbageCollect
  <2>1. made'.trust = made.trust /\ excused \subseteq excused'
    BY <1>1, <1>4 DEF Next, Pass, Objects, StartPass, ReconcileTLSCertificate,
       ReconcileMonitoringConfigMap, ReconcileStatefulSet, ReconcileService,
       ReconcilePodDisruptionBudget, ReconcileMonitor, DeleteMonitor, UpdateClusterStatus, Fault,
       Delete, EditSpec, Issue, Change, Workload, CreatePod, ReplacePod, StartPod, Evict, vars
  <2> QED
    BY <2>1 DEF OwnInv
<1> QED
  BY <1>2, <1>3, <1>4

\* After any sequence of edits, replaced sources, failed writes and restarts,
\* the bundle the nodes trust holds no certificate twice, and it holds a CA of
\* the cluster's own unless the ca.crt it was last merged from held none
\* (reconcileTrustBundle, buildTrustBundle, mergeCABundle).
THEOREM TrustHasOwnCA == Spec => []BundleHasOwnCA
<1>1. Init => OwnInv
  <2>1. NoObjects.trust = Missing
    BY DEF NoObjects
  <2> QED
    BY <2>1 DEF Init, OwnInv
<1>2. ASSUME Shape, OwnInv PROVE BundleHasOwnCA
  <2>1. PICK b : b = made.trust
    OBVIOUS
  <2>2. b \in Trusts
    BY <1>2, <2>1 DEF Shape, Objects
  <2>3. b # Missing => b \in Seq(Certs) /\ Unrepeated(b)
    BY <2>2 DEF Trusts
  <2>4. b # Missing => Len(b) = Cardinality(Range(b))
    BY <2>3, UnrepeatedCount
  <2> QED
    BY <1>2, <2>1, <2>4 DEF BundleHasOwnCA, OwnInv
<1> QED
  BY <1>1, <1>2, OwnStep, ShapeHolds, PTL DEF Spec

-----------------------------------------------------------------------------
(* The volumes of a pod *)

Merged == made.trust # Missing \/ "unmerged" \in excused
Generated == made.configMap \/ "dropped" \in excused

\* The operator has made what the template mounts, or is excused.
Provided(t) == (t.config = "generated" => Generated) /\ (t.extra => Merged)

\* What a pod mounts was made before the StatefulSet that asks for it: the
\* pass is past the trust Secret at "config", and past both at "sts".
VolumesInv ==
    /\ made.sts # NoTemplate => Provided(made.sts)
    /\ \A p \in Existing : Provided(pod[p].tmpl)
    /\ pc \in {"config", "sts"} /\ hasAdditionalClientCAs(snap) => Merged
    /\ pc = "sts" => Provided(Template(snap))

\* What was provided stays so, unless it is all collected.
LEMMA ProvidedStays ==
    ASSUME Shape, Next, ~GarbageCollect
    PROVE  (Merged => Merged') /\ (Generated => Generated')
<1>1. CASE UNCHANGED <<made, excused>>
  BY <1>1 DEF Merged, Generated
<1>2. CASE ReconcileTLSCertificate \/ ReconcileStatefulSet \/ ReconcileService
           \/ ReconcilePodDisruptionBudget \/ ReconcileMonitor \/ DeleteMonitor
  <2>1. /\ made \in Objects /\ excused' = excused
        /\ made'.trust = made.trust /\ made'.configMap = made.configMap
    BY <1>2 DEF Shape, Objects, ReconcileTLSCertificate, ReconcileStatefulSet, ReconcileService,
                ReconcilePodDisruptionBudget, ReconcileMonitor, DeleteMonitor
  <2> QED
    BY <2>1 DEF Merged, Generated
<1>3. CASE ReconcileTrustBundle
  <2>1. made' \in Objects /\ made \in Objects /\ excused \ {"blank"} \subseteq excused'
    BY <1>3, ShapeAfterTrust DEF Shape, ReconcileTrustBundle
  <2>2. made'.configMap = made.configMap
    BY <1>3, <2>1 DEF ReconcileTrustBundle, Objects
  <2>3. made.trust # Missing => made'.trust # Missing
    <3>1. snap \in Specs /\ SourceShape
      BY <1>3 DEF Shape, PassShape, ReconcileTrustBundle
    <3>2. WritesTrust(snap) => buildTrustBundle(snap) # Missing
      BY <3>1, BundleFacts, SourcesAssumption DEF WritesTrust, BundleMade
    <3> QED
      BY <1>3, <2>1, <3>2 DEF ReconcileTrustBundle, Objects
  <2> QED
    BY <2>1, <2>2, <2>3 DEF Merged, Generated
<1>4. CASE ReconcileMonitoringConfigMap
  <2>1. made \in Objects /\ excused \subseteq excused' /\ made'.trust = made.trust
    BY <1>4 DEF Shape, ReconcileMonitoringConfigMap, Objects
  <2>2. made.configMap => made'.configMap \/ "dropped" \in excused'
    BY <1>4, <2>1 DEF ReconcileMonitoringConfigMap, Objects
  <2> QED
    BY <2>1, <2>2 DEF Merged, Generated
<1>5. CASE Fault
  <2>1. made' = made /\ excused \subseteq excused'
    BY <1>5 DEF Fault
  <2> QED
    BY <2>1 DEF Merged, Generated
<1>6. CASE StartPass \/ UpdateClusterStatus \/ Delete \/ (\E s \in Specs : EditSpec(s)) \/ Issue \/ Change
           \/ Workload \/ (\E p \in Pods : Evict(p))
  <2>1. UNCHANGED <<made, excused>>
    BY <1>6 DEF StartPass, UpdateClusterStatus, Delete, EditSpec, Issue, Change, Workload, CreatePod,
                ReplacePod, StartPod, Evict
  <2> QED
    BY <1>1, <2>1
<1> QED
  BY <1>2, <1>3, <1>4, <1>5, <1>6 DEF Next, Pass

\* The template the StatefulSet gets asks for what is there.
LEMMA TemplateProvided ==
    ASSUME Shape, VolumesInv, Next, ~GarbageCollect
    PROVE  (made.sts # NoTemplate => Provided(made.sts))'
<1>1. (Merged => Merged') /\ (Generated => Generated')
  BY ProvidedStays
<1>2. CASE ReconcileStatefulSet
  <2>1. Provided(Template(snap)) /\ made \in Objects
    BY <1>2 DEF VolumesInv, ReconcileStatefulSet, Shape
  <2>2. made' = made \/ made'.sts = Template(snap)
    BY <1>2, <2>1 DEF ReconcileStatefulSet, Objects
  <2> QED
    BY <1>1, <2>1, <2>2 DEF VolumesInv, Provided
<1>3. CASE ~ReconcileStatefulSet
  <2>1. made \in Objects
    BY DEF Shape
  <2>2. made'.sts = made.sts
    BY <1>3, <2>1 DEF Next, Pass, Objects, StartPass, ReconcileTLSCertificate, ReconcileTrustBundle,
          ReconcileMonitoringConfigMap, ReconcileService, ReconcilePodDisruptionBudget, ReconcileMonitor,
          DeleteMonitor, UpdateClusterStatus, Fault, Delete, EditSpec, Issue, Change, Workload, CreatePod,
          ReplacePod, StartPod, Evict
  <2> QED
    BY <1>1, <2>2 DEF VolumesInv, Provided
<1> QED
  BY <1>2, <1>3

\* A pod gets its template from the StatefulSet.
LEMMA PodsProvided ==
    ASSUME Shape, VolumesInv, Next, ~GarbageCollect
    PROVE  (\A p \in Existing : Provided(pod[p].tmpl))'
<1>1. (Merged => Merged') /\ (Generated => Generated')
  BY ProvidedStays
<1>2. ASSUME NEW p \in Pods, pod'[p].tmpl # NoTemplate
      PROVE  (pod'[p].tmpl.config = "generated" => Generated) /\ (pod'[p].tmpl.extra => Merged)
  <2>1. pod \in [Pods -> PodStates]
    BY DEF Shape
  <2>2. pod'[p].tmpl = pod[p].tmpl \/ pod'[p].tmpl = made.sts
    <3>1. CASE Workload \/ \E q \in Pods : Evict(q)
      BY <2>1, <3>1, SMTT(30) DEF PodStates, Workload, CreatePod, ReplacePod, StartPod, Evict
    <3>2. CASE ~(Workload \/ \E q \in Pods : Evict(q))
      <4>1. pod' = pod
        BY <3>2 DEF Next, Pass, StartPass, ReconcileTLSCertificate, ReconcileTrustBundle,
           ReconcileMonitoringConfigMap, ReconcileStatefulSet, ReconcileService, ReconcilePodDisruptionBudget,
           ReconcileMonitor, DeleteMonitor, UpdateClusterStatus, Fault, Delete, EditSpec, Issue, Change
      <4> QED
        BY <4>1
    <3> QED
      BY <3>1, <3>2
  <2>3. pod[p].tmpl # NoTemplate => Provided(pod[p].tmpl)
    BY DEF VolumesInv, Existing
  <2> QED
    BY <1>2, <2>2, <2>3 DEF VolumesInv, Provided
<1> QED
  BY <1>1, <1>2 DEF Existing, Provided

\* A pass that goes on to the exporter's configuration or the StatefulSet has
\* made the objects before it.
LEMMA PassProvides ==
    ASSUME Shape, VolumesInv, Next, ~GarbageCollect
    PROVE  /\ (pc \in {"config", "sts"} /\ hasAdditionalClientCAs(snap) => Merged)'
           /\ (pc = "sts" => Provided(Template(snap)))'
<1>1. (Merged => Merged') /\ (Generated => Generated')
  BY ProvidedStays
<1>2. CASE UNCHANGED <<pc, snap>>
  <2>1. Provided(Template(snap)) => Provided(Template(snap))'
    BY <1>1, <1>2 DEF Provided, Template, hasAdditionalClientCAs
  <2>2. hasAdditionalClientCAs(snap)' = hasAdditionalClientCAs(snap)
    BY <1>2 DEF hasAdditionalClientCAs
  <2> QED
    BY <1>1, <1>2, <2>1, <2>2 DEF VolumesInv
<1>3. CASE ReconcileTrustBundle
  <2>1. pc' = "config" /\ snap' = snap
    BY <1>3 DEF ReconcileTrustBundle, Goto
  <2>2. hasAdditionalClientCAs(snap) => Merged'
    BY <1>3 DEF ReconcileTrustBundle, Merged
  <2> QED
    BY <2>1, <2>2 DEF hasAdditionalClientCAs
<1>4. CASE ReconcileMonitoringConfigMap
  <2>1. CASE pc' = "idle"
    BY <2>1
  <2>2. CASE pc' # "idle"
    <3>1. pc' = "sts" /\ snap' = snap /\ (hasAdditionalClientCAs(snap) => Merged)
      BY <1>4, <2>2 DEF ReconcileMonitoringConfigMap, Unless, Goto, EndPass, VolumesInv
    <3>2. Template(snap).config = "generated" => made'.configMap
      BY <1>4 DEF ReconcileMonitoringConfigMap, Template, Shape, Objects
    <3>3. Template(snap)' = Template(snap) /\ Template(snap).extra = hasAdditionalClientCAs(snap)
      BY <3>1 DEF Template, hasAdditionalClientCAs
    <3>4. hasAdditionalClientCAs(snap)' = hasAdditionalClientCAs(snap)
      BY <3>1 DEF hasAdditionalClientCAs
    <3> QED
      BY <1>1, <3>1, <3>2, <3>3, <3>4 DEF Provided, Generated
  <2> QED
    BY <2>1, <2>2
<1>5. CASE Fault
  <2>1. CASE pc' = "idle"
    BY <2>1
  <2>2. CASE pc' # "idle"
    <3>1. pc' = "config" /\ snap' = snap /\ (hasAdditionalClientCAs(snap) => Merged')
      BY <1>5, <2>2 DEF Fault, Goto, EndPass, Merged
    <3> QED
      BY <3>1 DEF hasAdditionalClientCAs
  <2> QED
    BY <2>1, <2>2
<1>6. CASE StartPass \/ ReconcileTLSCertificate \/ ReconcileStatefulSet \/ ReconcileService
           \/ ReconcilePodDisruptionBudget \/ ReconcileMonitor \/ DeleteMonitor \/ UpdateClusterStatus
  <2>1. UNCHANGED <<pc, snap>> \/ pc' \notin {"config", "sts"}
    BY <1>6 DEF StartPass, ReconcileTLSCertificate, ReconcileStatefulSet, ReconcileService,
       ReconcilePodDisruptionBudget, ReconcileMonitor, DeleteMonitor, UpdateClusterStatus, Goto, EndPass, passVars
  <2> QED
    BY <1>2, <2>1
<1>7. CASE Delete \/ (\E s \in Specs : EditSpec(s)) \/ Issue \/ Change \/ Workload \/ \E p \in Pods : Evict(p)
  <2>1. UNCHANGED <<pc, snap>>
    BY <1>7 DEF Delete, EditSpec, Issue, Change, Workload, CreatePod, ReplacePod, StartPod, Evict, passVars
  <2> QED
    BY <1>2, <2>1
<1> QED
  BY <1>3, <1>4, <1>5, <1>6, <1>7 DEF Next, Pass

LEMMA VolumesStep == Shape /\ VolumesInv /\ [Next]_vars => VolumesInv'
<1> SUFFICES ASSUME Shape, VolumesInv, [Next]_vars PROVE VolumesInv'
  OBVIOUS
<1>1. CASE Next /\ ~GarbageCollect
  BY <1>1, TemplateProvided, PodsProvided, PassProvides DEF VolumesInv
<1>2. CASE GarbageCollect
  <2>1. pc = "idle" /\ pc' = pc
    BY <1>2 DEF GarbageCollect, Shape, PassShape, passVars
  <2>2. made' = NoObjects /\ pod' = [p \in Pods |-> NoPod]
    BY <1>2, CollectedAll DEF GarbageCollect, Shape
  <2> QED
    BY <2>1, <2>2 DEF VolumesInv, NoObjects, NoPod, Existing
<1>3. CASE UNCHANGED vars
  BY <1>3 DEF vars, passVars, VolumesInv, Provided, Merged, Generated, Existing, hasAdditionalClientCAs, Template
<1> QED
  BY <1>1, <1>2, <1>3

\* No pod waits for a volume the operator never made: what a template mounts
\* exists from the moment a pod has it, unless the code's own two exceptions
\* have been met (reconcileTrustBundle and reconcileMonitoringConfigMap run
\* before reconcileStatefulSet, and nothing is collected under a pass).
THEOREM VolumesAreInPlace == Spec => []VolumesInPlace
<1>1. Init => VolumesInv
  <2>1. Init => pc = "idle" /\ made = NoObjects /\ pod = [p \in Pods |-> NoPod]
    BY DEF Init
  <2>2. NoObjects.sts = NoTemplate /\ NoPod.tmpl = NoTemplate
    BY DEF NoObjects, NoPod
  <2> QED
    BY <2>1, <2>2 DEF VolumesInv, Existing
<1>2. VolumesInv => VolumesInPlace
  BY DEF VolumesInv, VolumesInPlace, Provided, Merged, Generated
<1> QED
  BY <1>1, <1>2, VolumesStep, ShapeHolds, PTL DEF Spec
=============================================================================
