---------------------------- MODULE GrantsProofs ----------------------------
(***************************************************************************)
(* Proofs about Grants, for every set of grants and every width of the     *)
(* table of print-grants, and before them the facts about sequences these  *)
(* and other proofs need.                                                  *)
(***************************************************************************)
EXTENDS Grants, FiniteSetTheorems, SequenceTheorems, TLAPS

\* A leaf is Zenon's unless it names SMT.
USE ZenonT(30)

-----------------------------------------------------------------------------
(* Induction over a set of numbers, and recursion along 1 .. n *)

\* Induction for a set: what holds 0 and with each number the next holds all.
LEMMA SetInduction ==
    ASSUME NEW T, 0 \in T, \A n \in Nat : n \in T => n + 1 \in T
    PROVE  Nat \subseteq T
<1> SUFFICES ASSUME Nat \ T # {} PROVE FALSE
  OBVIOUS
<1>1. IsWellFoundedOn(OpToRel(<, Nat), Nat)
  BY NatLessThanWellFounded
<1>2. PICK x \in Nat \ T : \A y \in Nat \ T : ~(<<y, x>> \in OpToRel(<, Nat))
  BY <1>1, WFMin
<1>3. x - 1 \in Nat /\ x - 1 < x /\ (x - 1) + 1 = x
  BY SMTT(30)
<1>4. x - 1 \in T
  BY <1>2, <1>3 DEF OpToRel
<1> QED
  BY <1>3, <1>4

\* f is built from a step by step.
StepFunctions(n, S) == [(1 .. n) \X S -> S]
BuiltBy(f, n, S, a, step) ==
    f \in [0 .. n -> S] /\ f[0] = a /\ \A i \in 1 .. n : f[i] = step[<<i, f[i - 1]>>]

LEMMA RecursionExists ==
    ASSUME NEW S, NEW n \in Nat, NEW a \in S, NEW step \in StepFunctions(n, S)
    PROVE  \E f : BuiltBy(f, n, S, a, step)
<1> DEFINE Built(m) == \E f \in [0 .. m -> S] : f[0] = a /\ \A i \in 1 .. m : f[i] = step[<<i, f[i - 1]>>]
           T == {m \in Nat : m <= n => Built(m)}
<1>1. 0 \in T
  <2>1. [i \in 0 .. 0 |-> a] \in [0 .. 0 -> S] /\ [i \in 0 .. 0 |-> a][0] = a /\ 1 .. 0 = {}
    BY SMTT(30)
  <2> QED
    BY <2>1
<1>2. ASSUME NEW m \in Nat, m \in T PROVE m + 1 \in T
  <2> SUFFICES ASSUME m + 1 <= n PROVE Built(m + 1)
    BY SMTT(30)
  <2>1. PICK f \in [0 .. m -> S] : f[0] = a /\ \A i \in 1 .. m : f[i] = step[<<i, f[i - 1]>>]
    BY <1>2, SMTT(30)
  <2>2. PICK v \in S : v = step[<<m + 1, f[m]>>]
    <3>1. <<m + 1, f[m]>> \in (1 .. n) \X S
      BY SMTT(30)
    <3> QED
      BY <3>1 DEF StepFunctions
  <2>3. PICK g : g = [i \in 0 .. m + 1 |-> IF i <= m THEN f[i] ELSE v]
    OBVIOUS
  <2>4. g \in [0 .. m + 1 -> S]
    BY <2>3, SMTT(30)
  <2>5. \A i \in 0 .. m : g[i] = f[i]
    BY <2>3, SMTT(30)
  <2>6. g[m + 1] = v
    BY <2>3, SMTT(30)
  <2>7. ASSUME NEW i \in 1 .. m + 1 PROVE g[i] = step[<<i, g[i - 1]>>]
    <3>1. CASE i = m + 1
      BY <2>2, <2>5, <2>6, <3>1, SMTT(30)
    <3>2. CASE i # m + 1
      <4>1. i \in 1 .. m /\ i \in 0 .. m /\ i - 1 \in 0 .. m
        BY <3>2, SMTT(30)
      <4> QED
        BY <2>1, <2>5, <4>1
    <3> QED
      BY <3>1, <3>2
  <2> QED
    BY <2>1, <2>4, <2>5, <2>7, SMTT(30)
<1> HIDE DEF T
<1>3. Nat \subseteq T
  BY <1>1, <1>2, SetInduction
<1>4. n \in T /\ n <= n
  BY <1>3, SMTT(30)
<1>5. Built(n)
  BY <1>4 DEF T
<1> QED
  BY <1>5 DEF BuiltBy

-----------------------------------------------------------------------------
(* Concatenation *)

\* flat is the sequences of seqs one after the other, the i-th from off[i - 1] on.
Flattened(flat, seqs, off) ==
    /\ off \in [0 .. Len(seqs) -> Nat] /\ off[0] = 0 /\ off[Len(seqs)] = Len(flat)
    /\ \A i \in 1 .. Len(seqs) : off[i] = off[i - 1] + Len(seqs[i])
    /\ \A i \in 1 .. Len(seqs) : \A j \in 1 .. Len(seqs[i]) : flat[off[i - 1] + j] = seqs[i][j]

\* c is a, and b after it.
Joined(a, b, c) ==
    /\ Len(a) \in Nat /\ Len(b) \in Nat /\ Len(c) = Len(a) + Len(b)
    /\ \A k \in 1 .. Len(a) : c[k] = a[k]
    /\ \A j \in 1 .. Len(b) : c[Len(a) + j] = b[j]

LEMMA ConcatJoins ==
    ASSUME NEW S, NEW a \in Seq(S), NEW b \in Seq(S), NEW c, c = a \o b
    PROVE  c \in Seq(S) /\ Joined(a, b, c)
<1>1. Len(a) \in Nat /\ Len(b) \in Nat
  BY LenProperties
<1>2. /\ c \in Seq(S) /\ Len(c) = Len(a) + Len(b)
      /\ \A k \in 1 .. Len(a) + Len(b) : c[k] = IF k <= Len(a) THEN a[k] ELSE b[k - Len(a)]
  BY ConcatProperties
<1>3. \A k \in 1 .. Len(a) : c[k] = a[k]
  BY <1>1, <1>2, SMTT(30)
<1>4. ASSUME NEW j \in 1 .. Len(b) PROVE c[Len(a) + j] = b[j]
  <2>1. PICK k : k = Len(a) + j
    OBVIOUS
  <2>2. k \in 1 .. Len(a) + Len(b) /\ ~(k <= Len(a)) /\ k - Len(a) = j
    BY <1>1, <2>1, SMTT(30)
  <2> QED
    BY <1>2, <2>1, <2>2
<1> QED
  BY <1>1, <1>2, <1>3, <1>4 DEF Joined

\* The concatenation of seqs, built up one sequence at a time
Concatenates(f, S, seqs) ==
    /\ f \in [0 .. Len(seqs) -> Seq(S)] /\ f[0] = <<>>
    /\ \A i \in 1 .. Len(seqs) : f[i] = f[i - 1] \o seqs[i]

LEMMA ConcatenationExists ==
    ASSUME NEW S, NEW seqs \in Seq(Seq(S)) PROVE \E f : Concatenates(f, S, seqs)
<1> DEFINE n == Len(seqs)
           step == [x \in (1 .. n) \X Seq(S) |-> x[2] \o seqs[x[1]]]
<1>1. n \in Nat /\ \A i \in 1 .. n : seqs[i] \in Seq(S)
  BY SMTT(30)
<1>2. step \in [(1 .. n) \X Seq(S) -> Seq(S)]
  BY <1>1, SMTT(30)
<1>3. \A i \in 1 .. n, s \in Seq(S) : step[<<i, s>>] = s \o seqs[i]
  OBVIOUS
<1> HIDE DEF step, n
<1>4. PICK A, e : A = Seq(S) /\ e = <<>>
  OBVIOUS
<1>5. e \in A /\ n \in Nat /\ step \in StepFunctions(n, A)
  BY <1>1, <1>2, <1>4, SMTT(30) DEF StepFunctions
<1>6. PICK f : BuiltBy(f, n, A, e, step)
  BY <1>5, RecursionExists
<1>7. f \in [0 .. n -> Seq(S)] /\ f[0] = <<>> /\ \A i \in 1 .. n : f[i] = step[<<i, f[i - 1]>>]
  BY <1>4, <1>6 DEF BuiltBy
<1>8. ASSUME NEW i \in 1 .. n PROVE f[i] = f[i - 1] \o seqs[i]
  <2>1. i - 1 \in 0 .. n /\ f[i - 1] \in Seq(S)
    BY <1>1, <1>7, SMTT(30)
  <2>2. f[i] = step[<<i, f[i - 1]>>]
    BY <1>7
  <2> QED
    BY <1>3, <2>1, <2>2
<1> QED
  BY <1>7, <1>8 DEF Concatenates, n

\* A function that satisfies the recursion is the concatenation.
LEMMA ConcatenationTypes ==
    ASSUME NEW S, NEW seqs \in Seq(Seq(S)), NEW f, DOMAIN f = 0 .. Len(seqs),
           f = [i \in DOMAIN f |-> f[i]], f[0] = <<>>,
           \A i \in 1 .. Len(seqs) : f[i] = f[i - 1] \o seqs[i]
    PROVE  Concatenates(f, S, seqs)
<1> DEFINE n == Len(seqs)
           T == {m \in Nat : m <= n => f[m] \in Seq(S)}
<1>1. n \in Nat /\ \A i \in 1 .. n : seqs[i] \in Seq(S)
  BY SMTT(30)
<1>2. f[0] = <<>> /\ \A i \in 1 .. n : f[i] = f[i - 1] \o seqs[i]
  OBVIOUS
<1> HIDE DEF n
<1>3. 0 \in T
  <2>1. f[0] \in Seq(S)
    BY <1>2, EmptySeq
  <2> QED
    BY <2>1
<1>4. ASSUME NEW m \in Nat, m \in T PROVE m + 1 \in T
  <2> SUFFICES ASSUME m + 1 <= n PROVE f[m + 1] \in Seq(S)
    BY SMTT(30)
  <2>1. PICK q \in 1 .. n : q = m + 1 /\ q - 1 = m /\ m <= n
    BY <1>1, SMTT(30)
  <2>2. f[q] = f[m] \o seqs[q] /\ seqs[q] \in Seq(S) /\ f[m] \in Seq(S)
    BY <1>1, <1>2, <1>4, <2>1
  <2>3. f[q] \in Seq(S)
    BY <2>2, ConcatProperties
  <2> QED
    BY <2>1, <2>3
<1> HIDE DEF T
<1>5. Nat \subseteq T
  BY <1>3, <1>4, SetInduction
<1>6. \A i \in 0 .. n : f[i] \in Seq(S)
  BY <1>1, <1>5, SMTT(30) DEF T
<1>7. f \in [0 .. n -> Seq(S)]
  BY <1>6 DEF n
<1> QED
  BY <1>2, <1>7 DEF Concatenates, n

\* Each of seqs lies in the concatenation, from its offset on.
LEMMA ConcatenationOffsets ==
    ASSUME NEW S, NEW seqs \in Seq(Seq(S)), NEW f, Concatenates(f, S, seqs)
    PROVE  f[Len(seqs)] \in Seq(S) /\ \E off : Flattened(f[Len(seqs)], seqs, off)
<1> DEFINE n == Len(seqs)
<1>1. f \in [0 .. n -> Seq(S)] /\ f[0] = <<>> /\ \A i \in 1 .. n : f[i] = f[i - 1] \o seqs[i]
  BY DEF Concatenates
<1>2. n \in Nat /\ n \in 0 .. n /\ 0 \in 0 .. n /\ \A i \in 1 .. n : seqs[i] \in Seq(S) /\ Len(seqs[i]) \in Nat
  BY SMTT(30)
<1> HIDE DEF n
<1>3. ASSUME NEW i \in 0 .. n PROVE f[i] \in Seq(S) /\ Len(f[i]) \in Nat
  <2>1. f[i] \in Seq(S)
    BY <1>1
  <2> QED
    BY <2>1, LenProperties
<1>4. ASSUME NEW i \in 1 .. n
      PROVE  /\ i - 1 \in 0 .. n /\ i \in 0 .. n
             /\ Len(f[i]) = Len(f[i - 1]) + Len(seqs[i])
             /\ \A k \in 1 .. Len(f[i - 1]) : f[i][k] = f[i - 1][k]
             /\ \A j \in 1 .. Len(seqs[i]) : f[i][Len(f[i - 1]) + j] = seqs[i][j]
  <2>1. i - 1 \in 0 .. n /\ i \in 0 .. n
    BY <1>2, SMTT(30)
  <2>2. PICK a, b, c : a = f[i - 1] /\ b = seqs[i] /\ c = f[i]
    OBVIOUS
  <2>3. a \in Seq(S) /\ b \in Seq(S) /\ c = a \o b
    BY <1>1, <1>2, <1>3, <2>1, <2>2
  <2>4. Joined(a, b, c)
    BY <2>3, ConcatJoins
  <2> QED
    BY <2>1, <2>2, <2>4 DEF Joined
<1>5. PICK off : off = [i \in 0 .. n |-> Len(f[i])]
  OBVIOUS
<1>6. /\ \A i \in 0 .. n : off[i] = Len(f[i])
      /\ off \in [0 .. n -> Nat] /\ off[0] = 0
  BY <1>1, <1>2, <1>3, <1>5
<1>7. \A i \in 1 .. n : off[i] = off[i - 1] + Len(seqs[i])
  BY <1>4, <1>6
<1>8. \A i \in 0 .. n : \A k \in 1 .. Len(f[i]) : f[n][k] = f[i][k]
  <2> DEFINE T == {m \in Nat : m <= n => \A i \in 0 .. m : \A k \in 1 .. Len(f[i]) : Len(f[i]) <= Len(f[m]) /\ f[m][k] = f[i][k]}
  <2>1. 0 \in T
    BY <1>2, <1>3, SMTT(30)
  <2>2. ASSUME NEW m \in Nat, m \in T PROVE m + 1 \in T
    <3> SUFFICES ASSUME m + 1 <= n, NEW i \in 0 .. m + 1, NEW k \in 1 .. Len(f[i])
                 PROVE  Len(f[i]) <= Len(f[m + 1]) /\ f[m + 1][k] = f[i][k]
      BY SMTT(30)
    <3>1. CASE i = m + 1
      BY <1>2, <1>3, <3>1, SMTT(30)
    <3>2. CASE i # m + 1
      <4>1. PICK q \in 1 .. n : q = m + 1 /\ q - 1 = m /\ m \in 0 .. n /\ i \in 0 .. n /\ i \in 0 .. m /\ m <= n
        BY <1>2, <3>2, SMTT(30)
      <4>2. Len(f[i]) <= Len(f[m]) /\ f[m][k] = f[i][k]
        BY <2>2, <4>1
      <4>3. PICK a, b, c, d : a = Len(f[i]) /\ b = Len(f[m]) /\ c = Len(seqs[q]) /\ d = Len(f[q])
        OBVIOUS
      <4>4. a \in Nat /\ b \in Nat /\ c \in Nat /\ a <= b /\ d = b + c /\ k \in 1 .. a
        BY <1>2, <1>3, <1>4, <4>1, <4>2, <4>3
      <4>5. k \in 1 .. b /\ a <= d
        BY <4>4, SMTT(30)
      <4>6. f[q][k] = f[m][k]
        <5>1. \A l \in 1 .. Len(f[q - 1]) : f[q][l] = f[q - 1][l]
          BY <1>4
        <5>2. k \in 1 .. Len(f[q - 1]) /\ q - 1 = m
          BY <4>1, <4>3, <4>5
        <5> QED
          BY <5>1, <5>2
      <4> QED
        BY <4>1, <4>2, <4>3, <4>5, <4>6
    <3> QED
      BY <3>1, <3>2
  <2> HIDE DEF T
  <2>3. Nat \subseteq T
    BY <2>1, <2>2, SetInduction
  <2> QED
    BY <1>2, <2>3, SMTT(30) DEF T
<1>9. ASSUME NEW i \in 1 .. n, NEW j \in 1 .. Len(seqs[i]) PROVE f[n][off[i - 1] + j] = seqs[i][j]
  <2>1. PICK a, b, c, p : a = off[i - 1] /\ b = Len(seqs[i]) /\ c = Len(f[i]) /\ p = a + j
    OBVIOUS
  <2>2. a \in Nat /\ b \in Nat /\ c = a + b /\ j \in 1 .. b /\ a = Len(f[i - 1]) /\ i \in 0 .. n
    BY <1>2, <1>3, <1>4, <1>6, <2>1
  <2>3. p \in 1 .. c
    <3>1. p = a + j /\ a \in Nat /\ b \in Nat /\ c = a + b /\ j \in 1 .. b
      BY <2>1, <2>2
    <3> QED
      BY ONLY <3>1, SMTT(30)
  <2>4. f[i][p] = seqs[i][j]
    BY <1>4, <2>1, <2>2
  <2> QED
    BY <1>8, <2>1, <2>2, <2>3, <2>4
<1>10. f[n] \in Seq(S) /\ off[n] = Len(f[n])
  BY <1>2, <1>3, <1>6
<1>11. Flattened(f[n], seqs, off)
  BY <1>6, <1>7, <1>9, <1>10 DEF Flattened, n
<1> QED
  BY <1>10, <1>11 DEF n

\* Every position of flat is one of a sequence of seqs.
Covered(seqs, off, k) == \E i \in 1 .. Len(seqs) : \E j \in 1 .. Len(seqs[i]) : k = off[i - 1] + j

LEMMA FlattenCover ==
    ASSUME NEW S, NEW seqs \in Seq(Seq(S)), NEW flat, NEW off,
           Flattened(flat, seqs, off), NEW k \in 1 .. Len(flat)
    PROVE  Covered(seqs, off, k)
<1> DEFINE n == Len(seqs)
           T == {m \in Nat : m <= n => \A l \in 1 .. off[m] :
                                          \E i \in 1 .. n : \E j \in 1 .. Len(seqs[i]) : l = off[i - 1] + j}
<1>1. /\ n \in Nat /\ off \in [0 .. n -> Nat] /\ off[0] = 0 /\ off[n] = Len(flat)
      /\ \A i \in 1 .. n : off[i] = off[i - 1] + Len(seqs[i]) /\ Len(seqs[i]) \in Nat
  <2>1. n \in Nat /\ \A i \in 1 .. n : Len(seqs[i]) \in Nat
    BY SMTT(30)
  <2> QED
    BY <2>1 DEF Flattened
<1> HIDE DEF n
<1>2. 0 \in T
  BY <1>1, SMTT(30)
<1>3. ASSUME NEW m \in Nat, m \in T PROVE m + 1 \in T
  <2> SUFFICES ASSUME m + 1 <= n, NEW l \in 1 .. off[m + 1]
               PROVE  \E i \in 1 .. n : \E j \in 1 .. Len(seqs[i]) : l = off[i - 1] + j
    BY SMTT(30)
  <2>1. PICK q \in 1 .. n : q = m + 1 /\ q - 1 = m
    BY <1>1, SMTT(30)
  <2>2. off[q] = off[m] + Len(seqs[q]) /\ Len(seqs[q]) \in Nat /\ off[m] \in Nat
    BY <1>1, <2>1, SMTT(30)
  <2>3. CASE l \in 1 .. off[m]
    <3>1. m <= n
      BY <1>1, SMTT(30)
    <3> QED
      BY <1>3, <2>3, <3>1
  <2>4. CASE l \notin 1 .. off[m]
    <3>1. PICK a, b, c : a = off[m] /\ b = off[q] /\ c = Len(seqs[q])
      OBVIOUS
    <3>2. a \in Nat /\ c \in Nat /\ b = a + c /\ l \in 1 .. b /\ l \notin 1 .. a
      BY <2>1, <2>2, <2>4, <3>1
    <3>3. l - a \in 1 .. c /\ l = a + (l - a)
      BY ONLY <3>2, SMTT(30)
    <3> QED
      BY <2>1, <3>1, <3>3
  <2> QED
    BY <2>3, <2>4
<1> HIDE DEF T
<1>4. Nat \subseteq T
  BY <1>2, <1>3, SetInduction
<1>5. n \in T /\ k \in 1 .. off[n]
  BY <1>1, <1>4
<1> QED
  BY <1>1, <1>5, SMTT(30) DEF T, n, Covered

\* The offsets lie within flat.
LEMMA FlattenBounded ==
    ASSUME NEW S, NEW seqs \in Seq(Seq(S)), NEW flat, NEW off, Flattened(flat, seqs, off)
    PROVE  /\ Len(flat) \in Nat
           /\ \A i \in 0 .. Len(seqs) : off[i] \in 0 .. Len(flat)
<1> DEFINE n == Len(seqs)
           T == {m \in Nat : m <= n => off[n - m] <= off[n]}
<1>1. /\ n \in Nat /\ off \in [0 .. n -> Nat] /\ off[n] = Len(flat)
      /\ \A i \in 1 .. n : off[i] = off[i - 1] + Len(seqs[i]) /\ Len(seqs[i]) \in Nat
  <2>1. n \in Nat /\ \A i \in 1 .. n : Len(seqs[i]) \in Nat
    BY SMTT(30)
  <2> QED
    BY <2>1 DEF Flattened
<1> HIDE DEF n
<1>2. 0 \in T
  BY <1>1, SMTT(30)
<1>3. ASSUME NEW m \in Nat, m \in T PROVE m + 1 \in T
  <2> SUFFICES ASSUME m + 1 <= n PROVE off[n - (m + 1)] <= off[n]
    BY SMTT(30)
  <2>1. PICK q \in 1 .. n : q = n - m /\ q - 1 = n - (m + 1) /\ q - 1 \in 0 .. n /\ n \in 0 .. n
    BY <1>1, SMTT(30)
  <2>2. off[q] = off[q - 1] + Len(seqs[q]) /\ off[q - 1] \in Nat /\ Len(seqs[q]) \in Nat /\ off[n] \in Nat
    BY <1>1, <2>1
  <2>3. off[q] <= off[n]
    BY <1>1, <1>3, <2>1, SMTT(30)
  <2>4. PICK a, b, c, d : a = off[q - 1] /\ b = off[q] /\ c = Len(seqs[q]) /\ d = off[n]
    OBVIOUS
  <2>5. a \in Nat /\ c \in Nat /\ d \in Nat /\ b = a + c /\ b <= d
    BY <2>2, <2>3, <2>4
  <2>6. a <= d
    BY ONLY <2>5, SMTT(30)
  <2> QED
    BY <2>1, <2>4, <2>6
<1> HIDE DEF T
<1>4. Nat \subseteq T
  BY <1>2, <1>3, SetInduction
<1>5. ASSUME NEW i \in 0 .. n PROVE off[i] \in 0 .. Len(flat)
  <2>1. PICK m \in Nat : m = n - i /\ m <= n /\ n - m = i /\ n \in 0 .. n
    <3>1. n - i \in Nat /\ n - i <= n /\ n - (n - i) = i /\ n \in 0 .. n
      BY <1>1, SMTT(30)
    <3> QED
      BY <3>1
  <2>2. off[n - m] <= off[n]
    BY <1>4, <2>1 DEF T
  <2> QED
    BY <1>1, <2>1, <2>2, SMTT(30)
<1>6. Len(flat) \in Nat
  <2>1. n \in 0 .. n
    BY <1>1, SMTT(30)
  <2> QED
    BY <1>1, <2>1
<1> QED
  BY <1>5, <1>6 DEF n
-----------------------------------------------------------------------------
(* print-grants *)

\* print-grants: a finite set is written as a sequence that has each element.
LEMMA InOrderFacts ==
    ASSUME NEW S, IsFiniteSet(S)
    PROVE  /\ InOrder(S) \in Seq(S) /\ Len(InOrder(S)) = Cardinality(S)
           /\ Range(InOrder(S)) = S
<1> DEFINE n == Cardinality(S)
           s == InOrder(S)
<1>1. n \in Nat /\ ExistsBijection(1 .. n, S)
  BY FS_CardinalityType
<1>2. \E f \in [1 .. n -> S] : IsInjective(f)
  BY <1>1 DEF ExistsBijection, Bijection, Injection
<1>3. s \in [1 .. n -> S] /\ IsInjective(s)
  BY <1>2 DEF InOrder
<1> HIDE DEF s
<1>4. s \in Injection(1 .. n, S)
  BY <1>3 DEF Injection
<1>5. IsFiniteSet(1 .. n) /\ Cardinality(1 .. n) = n
  BY <1>1, FS_Interval, SMTT(30)
<1>6. s \in Surjection(1 .. n, S)
  BY <1>4, <1>5, FS_Injection
<1> HIDE DEF n
<1>7. s \in Seq(S) /\ Len(s) = n /\ DOMAIN s = 1 .. n
  BY <1>1, <1>3, SMTT(30)
<1>8. Range(s) = S
  BY <1>3, <1>6, <1>7 DEF Range, Surjection
<1> QED
  BY <1>7, <1>8 DEF s, n

LEMMA InRange ==
    ASSUME NEW S, NEW s \in Seq(S)
    PROVE  \A x : x \in Range(s) <=> \E i \in 1 .. Len(s) : x = s[i]
BY LenProperties DEF Range

LEMMA FunctionIsSeq ==
    ASSUME NEW S, NEW n \in Nat, NEW s \in [1 .. n -> S]
    PROVE  s \in Seq(S) /\ Len(s) = n
BY SMTT(30)

LEMMA SeqIsFunction ==
    ASSUME NEW S, NEW s \in Seq(S)
    PROVE  Len(s) \in Nat /\ DOMAIN s = 1 .. Len(s) /\ \A i \in 1 .. Len(s) : s[i] \in S
BY SMTT(30)

LEMMA SeqWidens ==
    ASSUME NEW S, NEW T, S \subseteq T, NEW s \in Seq(S)
    PROVE  s \in Seq(T)
BY SMTT(30)

LEMMA EmptyRange == Range(<<>>) = {}
BY SMTT(30) DEF Range

LEMMA FromTwo == ASSUME NEW n \in Nat, n # 0 PROVE 1 \in 1 .. n /\ \A i \in 2 .. n : i \in 1 .. n /\ i # 1
BY SMTT(30)

LEMMA Times ==
    ASSUME NEW a \in Nat, NEW b \in Nat, NEW w \in Nat, a <= b
    PROVE  a * w <= b * w /\ a * w \in Nat /\ (a + 1) * w = a * w + w
BY SMTT(30)

LEMMA Quotient ==
    ASSUME NEW x \in Nat, NEW w \in Nat \ {0}
    PROVE  x \div w \in Nat /\ (x \div w) * w <= x /\ x < (x \div w) * w + w
BY SMTT(30)

\* Position p of a list is in one of the rows it is cut into, and no row has
\* anything else.
LEMMA ChunkFacts ==
    ASSUME NEW S, NEW s \in Seq(S), NEW w \in Nat \ {0}
    PROVE  /\ Chunks(s, w) \in Seq(Seq(S))
           /\ s # <<>> => Len(Chunks(s, w)) # 0
           /\ UNION {Range(Chunks(s, w)[i]) : i \in 1 .. Len(Chunks(s, w))} = Range(s)
<1> DEFINE n == Len(s)
           m == (n + w - 1) \div w
           lo(i) == (i - 1) * w + 1
           hi(i) == IF i * w < n THEN i * w ELSE n
           c == Chunks(s, w)
<1>1. n \in Nat /\ DOMAIN s = 1 .. n /\ \A p \in 1 .. n : s[p] \in S
  BY SMTT(30)
<1>2. c = [i \in 1 .. m |-> SubSeq(s, lo(i), hi(i))]
  BY DEF Chunks
<1>3. n + w - 1 \in Nat
  BY <1>1, SMTT(30)
<1> HIDE DEF n, c
<1>4. m \in Nat /\ m * w <= n + w - 1 /\ n + w - 1 < m * w + w
  BY <1>3, Quotient
<1> HIDE DEF m
<1>5. ASSUME NEW i \in 1 .. m
      PROVE  /\ lo(i) \in Nat \ {0} /\ hi(i) \in Nat /\ hi(i) <= n /\ lo(i) <= n
             /\ hi(i) >= lo(i)
  <2>1. i \in Nat /\ i - 1 \in Nat /\ i <= m
    BY <1>4, SMTT(30)
  <2>2. (i - 1) * w \in Nat /\ i * w = (i - 1) * w + w
    <3>1. PICK j \in Nat : j = i - 1 /\ j + 1 = i
      BY <2>1, SMTT(30)
    <3>2. j * w \in Nat /\ (j + 1) * w = j * w + w
      BY Times, SMTT(30)
    <3> QED
      BY <3>1, <3>2
  <2>3. i * w <= m * w
    BY <1>4, <2>1, Times
  <2>4. PICK a, b, d : a = (i - 1) * w /\ b = i * w /\ d = m * w
    OBVIOUS
  <2>5. a \in Nat /\ b = a + w /\ b <= d /\ d <= n + w - 1 /\ n \in Nat /\ d \in Nat
    BY <1>1, <1>4, <2>2, <2>3, <2>4, SMTT(30)
  <2>6. /\ a + 1 \in Nat \ {0} /\ a + 1 <= n /\ b >= a + 1
    BY <2>5, SMTT(30)
  <2> QED
    BY <2>4, <2>5, <2>6, SMTT(30)
<1> HIDE DEF lo, hi
<1>6. ASSUME NEW i \in 1 .. m
      PROVE  /\ c[i] \in Seq(S) /\ Len(c[i]) = hi(i) - lo(i) + 1
             /\ \A k \in 1 .. hi(i) - lo(i) + 1 : c[i][k] = s[lo(i) + k - 1]
  <2>1. c[i] = SubSeq(s, lo(i), hi(i))
    BY <1>2
  <2>2. lo(i) \in Int /\ hi(i) \in Int /\ lo(i) <= hi(i) /\ \A p \in lo(i) .. hi(i) : s[p] \in S
    BY <1>1, <1>5, SMTT(30)
  <2> QED
    BY <2>1, <2>2, SubSeqProperties, SMTT(30)
<1>7. c \in Seq(Seq(S)) /\ Len(c) = m
  <2>1. PICK T : T = Seq(S)
    OBVIOUS
  <2>2. c \in [1 .. m -> T]
    BY <1>2, <1>6, <2>1
  <2>3. c \in Seq(T) /\ Len(c) = m
    BY <1>4, <2>2, SMTT(30)
  <2> QED
    BY <2>1, <2>3
<1>8. s # <<>> => m # 0
  <2>1. s # <<>> => n # 0
    BY SMTT(30) DEF n
  <2> QED
    BY <1>1, <1>4, <2>1, SMTT(30)
<1>9. ASSUME NEW i \in 1 .. m, NEW x \in Range(c[i]) PROVE x \in Range(s)
  <2>1. PICK k \in 1 .. hi(i) - lo(i) + 1 : x = c[i][k]
    BY <1>6, InRange, SMTT(30)
  <2>2. x = s[lo(i) + k - 1] /\ lo(i) + k - 1 \in 1 .. n
    BY <1>1, <1>5, <1>6, <2>1, SMTT(30)
  <2> QED
    BY <1>1, <2>2 DEF Range
<1>10. ASSUME NEW x \in Range(s) PROVE \E i \in 1 .. m : x \in Range(c[i])
  <2>1. PICK p \in 1 .. n : x = s[p]
    BY <1>1 DEF Range
  <2> DEFINE q == (p - 1) \div w
  <2>2. p - 1 \in Nat
    BY <1>1, SMTT(30)
  <2>3. q \in Nat /\ q * w <= p - 1 /\ p - 1 < q * w + w
    BY <2>2, Quotient
  <2> HIDE DEF q
  <2>4. q * w \in Nat /\ (q + 1) * w = q * w + w
    BY <2>3, Times, SMTT(30)
  <2>5. q + 1 \in 1 .. m
    <3> SUFFICES ASSUME m <= q PROVE FALSE
      BY <1>4, <2>3, SMTT(30)
    <3>1. m * w <= q * w
      BY <1>4, <2>3, Times
    <3>2. PICK a, d : a = q * w /\ d = m * w
      OBVIOUS
    <3>3. a \in Nat /\ d <= a /\ a <= p - 1 /\ n + w - 1 < d + w /\ p <= n /\ n \in Nat /\ p \in Nat /\ d \in Int
      BY <1>1, <1>4, <2>3, <2>4, <3>1, <3>2, SMTT(30)
    <3> QED
      BY <3>3, SMTT(30)
  <2>6. PICK i \in 1 .. m : i = q + 1
    BY <2>5
  <2>7. lo(i) <= p /\ p <= hi(i)
    <3>1. PICK a, b : a = (i - 1) * w /\ b = i * w
      OBVIOUS
    <3>2. i - 1 = q
      BY <2>3, <2>6, SMTT(30)
    <3>3. a = q * w /\ b = q * w + w
      BY <2>4, <2>6, <3>1, <3>2
    <3>4. a \in Nat /\ a <= p - 1 /\ p - 1 < b /\ b = a + w /\ p \in 1 .. n /\ n \in Nat
      BY <1>1, <2>3, <2>4, <3>3
    <3>5. a + 1 <= p /\ p <= IF b < n THEN b ELSE n
      BY <3>4, SMTT(30)
    <3> QED
      BY <3>1, <3>5 DEF lo, hi
  <2>8. PICK k : k = p - lo(i) + 1
    OBVIOUS
  <2>9. k \in 1 .. hi(i) - lo(i) + 1 /\ lo(i) + k - 1 = p
    BY <1>1, <1>5, <2>7, <2>8, SMTT(30)
  <2>10. x = c[i][k] /\ k \in 1 .. Len(c[i])
    BY <1>6, <2>1, <2>9
  <2>11. x \in Range(c[i])
    BY <1>6, <2>10, InRange
  <2> QED
    BY <2>11
<1> QED
  BY <1>7, <1>8, <1>9, <1>10 DEF c

\* The rows a table can have
Rows(A, B, T) == [kind: {"row"}, type: A, bucket: B, tokens: Seq(T)]

\* The rows of one entry: the first names the target, the others go on with
\* its tokens, and together they have all of them.
EntryOf(rows, key, tokens) ==
    /\ Len(rows) # 0 /\ rows[1].type = key[1] /\ rows[1].bucket = key[2]
    /\ \A i \in 2 .. Len(rows) : rows[i].type = ""
    /\ \A x : x \in tokens <=> \E i \in 1 .. Len(rows) : x \in Range(rows[i].tokens)

LEMMA EntryRowsFacts ==
    ASSUME NEW A, NEW B, NEW T, NEW key, key[1] \in A, key[2] \in B, "" \in A, "" \in B,
           NEW tokens \in SUBSET T, IsFiniteSet(tokens), tokens # {}, NEW w \in Nat \ {0}
    PROVE  /\ EntryRows(key, tokens, w) \in Seq(Rows(A, B, T))
           /\ EntryOf(EntryRows(key, tokens, w), key, tokens)
<1> DEFINE s == InOrder(tokens)
           c == Chunks(s, w)
           r == EntryRows(key, tokens, w)
<1>1. s \in Seq(tokens) /\ Range(s) = tokens
  BY InOrderFacts
<1> HIDE DEF s
<1>2. s \in Seq(T) /\ s # <<>>
  BY <1>1, SeqWidens, EmptyRange
<1>3. /\ c \in Seq(Seq(T)) /\ Len(c) # 0
      /\ UNION {Range(c[i]) : i \in 1 .. Len(c)} = tokens
  BY <1>1, <1>2, ChunkFacts
<1>4. r = [i \in DOMAIN c |-> IF i = 1 THEN Row(key[1], key[2], c[i]) ELSE Row("", "", c[i])]
  BY DEF EntryRows, s
<1> HIDE DEF c, r
<1>5. Len(c) \in Nat /\ DOMAIN c = 1 .. Len(c) /\ \A i \in 1 .. Len(c) : c[i] \in Seq(T)
  BY <1>3, SeqIsFunction
<1>6. ASSUME NEW i \in 1 .. Len(c)
      PROVE  /\ r[i] \in Rows(A, B, T) /\ r[i].tokens = c[i]
             /\ i = 1 => r[i].type = key[1] /\ r[i].bucket = key[2]
             /\ i # 1 => r[i].type = ""
  BY <1>4, <1>5 DEF Row, Rows
<1>7. r \in Seq(Rows(A, B, T)) /\ Len(r) = Len(c)
  <2>1. r \in [1 .. Len(c) -> Rows(A, B, T)]
    BY <1>4, <1>5, <1>6
  <2> QED
    BY <1>5, <2>1, FunctionIsSeq
<1>8. \A x : x \in tokens <=> \E i \in 1 .. Len(r) : x \in Range(r[i].tokens)
  <2>1. \A x : x \in tokens <=> \E i \in 1 .. Len(c) : x \in Range(c[i])
    BY <1>3
  <2>2. \A i \in 1 .. Len(c) : r[i].tokens = c[i]
    BY <1>6
  <2> QED
    BY <1>7, <2>1, <2>2
<1>9. 1 \in 1 .. Len(c) /\ \A i \in 2 .. Len(c) : i \in 1 .. Len(c) /\ i # 1
  BY <1>3, <1>5, FromTwo
<1>10. EntryOf(r, key, tokens)
  BY <1>3, <1>6, <1>7, <1>8, <1>9 DEF EntryOf
<1> QED
  BY <1>7, <1>10 DEF r

\* The targets and the tokens in what is held
KeysOf(held) == {h[1] : h \in held}
TokensOf(held, key) == {h[2] : h \in {x \in held : x[1] = key}}

LEMMA HeldFinite ==
    ASSUME NEW held, IsFiniteSet(held)
    PROVE  IsFiniteSet(KeysOf(held)) /\ \A k \in KeysOf(held) : IsFiniteSet(TokensOf(held, k)) /\ TokensOf(held, k) # {}
<1>1. IsFiniteSet(KeysOf(held))
  <2>1. PICK f : f = [h \in held |-> h[1]]
    OBVIOUS
  <2>2. f \in Surjection(held, KeysOf(held))
    BY <2>1 DEF Surjection, KeysOf
  <2> QED
    BY <2>2, FS_Surjection
<1>2. ASSUME NEW k \in KeysOf(held) PROVE IsFiniteSet(TokensOf(held, k)) /\ TokensOf(held, k) # {}
  <2>1. PICK D : D = {x \in held : x[1] = k}
    OBVIOUS
  <2>2. IsFiniteSet(D)
    BY <2>1, FS_Subset
  <2>3. PICK f : f = [h \in D |-> h[2]]
    OBVIOUS
  <2>4. f \in Surjection(D, TokensOf(held, k))
    BY <2>1, <2>3 DEF Surjection, TokensOf
  <2>5. TokensOf(held, k) # {}
    BY DEF KeysOf, TokensOf
  <2> QED
    BY <2>2, <2>4, <2>5, FS_Surjection
<1> QED
  BY <1>1, <1>2

\* flat has the rows of one entry after the other, one for each target.
Tabled(flat, held, keys, seqs, off) ==
    /\ Len(keys) = Len(seqs)
    /\ \A k : k \in KeysOf(held) <=> \E i \in 1 .. Len(seqs) : k = keys[i]
    /\ Flattened(flat, seqs, off)
    /\ \A i \in 1 .. Len(seqs) : EntryOf(seqs[i], keys[i], TokensOf(held, keys[i]))

\* The columns of a table have room for what is held.
Fits(held, A, B, T) ==
    /\ "" \in A /\ "" \in B
    /\ \A h \in held : h[1][1] \in A /\ h[1][2] \in B /\ h[2] \in T

\* table lists what is held: its header, and the rows of the entries.
Lists(table, held, R) ==
    \E flat \in Seq(R), seqs \in Seq(Seq(R)) : \E keys, off :
        table = <<Header>> \o flat /\ Tabled(flat, held, keys, seqs, off)

LEMMA TableFacts ==
    ASSUME NEW held, IsFiniteSet(held), NEW A, NEW B, NEW T, Fits(held, A, B, T), NEW w \in Nat \ {0}
    PROVE  Lists(Table(held, w), held, Rows(A, B, T))
<1> DEFINE R == Rows(A, B, T)
           keys == InOrder(KeysOf(held))
           seqs == [i \in DOMAIN keys |-> EntryRows(keys[i], TokensOf(held, keys[i]), w)]
           Is(f) == f = [i \in 0 .. Len(keys) |-> IF i = 0 THEN <<>>
                                        ELSE f[i - 1] \o EntryRows(keys[i], TokensOf(held, keys[i]), w)]
           upto == CHOOSE f : Is(f)
<1>1. Table(held, w) = <<Header>> \o upto[Len(keys)]
  BY DEF Table, KeysOf, TokensOf
<1>2. keys \in Seq(KeysOf(held)) /\ Range(keys) = KeysOf(held)
  BY HeldFinite, InOrderFacts
<1> HIDE DEF keys
<1>3. /\ Len(keys) \in Nat /\ DOMAIN keys = 1 .. Len(keys)
      /\ \A i \in 1 .. Len(keys) : keys[i] \in KeysOf(held)
      /\ \A k : k \in KeysOf(held) <=> \E i \in 1 .. Len(keys) : k = keys[i]
  <2>1. \A k : k \in Range(keys) <=> \E i \in 1 .. Len(keys) : k = keys[i]
    BY <1>2, InRange
  <2> QED
    BY <1>2, <2>1, SeqIsFunction
<1>4. ASSUME NEW i \in 1 .. Len(keys)
      PROVE  /\ seqs[i] \in Seq(R)
             /\ EntryOf(seqs[i], keys[i], TokensOf(held, keys[i]))
  <2>1. PICK k \in KeysOf(held) : k = keys[i]
    BY <1>3
  <2>2. k[1] \in A /\ k[2] \in B /\ "" \in A /\ "" \in B
    BY DEF Fits, KeysOf
  <2>3. PICK D : D = TokensOf(held, k)
    OBVIOUS
  <2>4. D \in SUBSET T /\ IsFiniteSet(D) /\ D # {}
    <3>1. D \subseteq T
      BY <2>3 DEF TokensOf, Fits
    <3> QED
      BY <2>3, <3>1, HeldFinite
  <2>5. EntryRows(k, D, w) \in Seq(Rows(A, B, T)) /\ EntryOf(EntryRows(k, D, w), k, D)
    BY <2>2, <2>4, EntryRowsFacts
  <2>6. seqs[i] = EntryRows(k, D, w)
    BY <1>3, <2>1, <2>3
  <2> QED
    BY <2>1, <2>3, <2>5, <2>6
<1>5. seqs \in Seq(Seq(R)) /\ Len(seqs) = Len(keys)
  <2>1. PICK Q, n, s : Q = Seq(R) /\ n = Len(keys) /\ s = seqs
    OBVIOUS
  <2>2. s \in [1 .. n -> Q] /\ n \in Nat
    BY <1>3, <1>4, <2>1
  <2>3. s \in Seq(Q) /\ Len(s) = n
    BY <2>2, FunctionIsSeq
  <2> QED
    BY <2>1, <2>3
<1>6. \A i \in 1 .. Len(keys) : seqs[i] = EntryRows(keys[i], TokensOf(held, keys[i]), w)
  BY <1>3
<1> HIDE DEF R, seqs
<1>7. PICK f : Concatenates(f, R, seqs)
  BY <1>5, ConcatenationExists
<1>8. Is(f)
  <2>1. f = [i \in 0 .. Len(keys) |-> f[i]]
    BY <1>5, <1>7 DEF Concatenates
  <2>2. \A i \in 0 .. Len(keys) : i # 0 => i \in 1 .. Len(keys)
    BY <1>3, SMTT(30)
  <2>3. \A i \in 0 .. Len(keys) : f[i] = IF i = 0 THEN <<>> ELSE f[i - 1] \o EntryRows(keys[i], TokensOf(held, keys[i]), w)
    BY <1>5, <1>6, <1>7, <2>2 DEF Concatenates
  <2> QED
    BY <2>1, <2>3
<1>9. Is(upto)
  BY <1>8
<1> HIDE DEF upto
<1>10. Concatenates(upto, R, seqs)
  <2>1. DOMAIN upto = 0 .. Len(seqs) /\ upto = [i \in DOMAIN upto |-> upto[i]]
    BY <1>5, <1>9
  <2>2. \A i \in 0 .. Len(keys) : upto[i] = IF i = 0 THEN <<>> ELSE upto[i - 1] \o EntryRows(keys[i], TokensOf(held, keys[i]), w)
    BY <1>9
  <2>3. 0 \in 0 .. Len(keys) /\ \A i \in 1 .. Len(keys) : i \in 0 .. Len(keys) /\ i # 0
    BY <1>3, SMTT(30)
  <2>4. upto[0] = <<>> /\ \A i \in 1 .. Len(seqs) : upto[i] = upto[i - 1] \o seqs[i]
    BY <1>5, <1>6, <2>2, <2>3
  <2> QED
    BY <1>5, <2>1, <2>4, ConcatenationTypes
<1>11. upto[Len(keys)] \in Seq(R) /\ \E off : Flattened(upto[Len(keys)], seqs, off)
  BY <1>5, <1>10, ConcatenationOffsets
<1>12. PICK off : Flattened(upto[Len(keys)], seqs, off)
  BY <1>11
<1>13. Tabled(upto[Len(keys)], held, keys, seqs, off)
  BY <1>3, <1>4, <1>5, <1>12 DEF Tabled
<1> QED
  BY <1>1, <1>5, <1>11, <1>13 DEF R, Lists

-----------------------------------------------------------------------------
(* What parseDedicatedGrants reads *)

\* The type column of no entry is empty or says what it is the column of.
Legible(held) == \A h \in held : h[1][1] # "" /\ h[1][1] # "type"

\* Of the listing, the parser looks at the rows of flat.
Listed(lines, base, flat) ==
    /\ base \in Nat
    /\ \A k : k \in DedicatedRows(lines) <=> \E j \in 1 .. Len(flat) : k = base + j
    /\ \A j \in 1 .. Len(flat) : lines[base + j] = flat[j]

\* Where the i-th entry lies, and which rows are its own
Placed(i, flat, seqs, off) ==
    /\ Len(flat) \in Nat /\ off[i - 1] \in Nat /\ off[i] \in Nat /\ Len(seqs[i]) \in Nat
    /\ off[i] = off[i - 1] + Len(seqs[i]) /\ off[i - 1] < off[i] /\ off[i] <= Len(flat)
    /\ \A j \in 1 .. Len(seqs[i]) : off[i - 1] + j \in 1 .. Len(flat) /\ flat[off[i - 1] + j] = seqs[i][j]
    /\ off[i] < Len(flat) => i + 1 \in 1 .. Len(seqs)

LEMMA EntryPlaces ==
    ASSUME NEW S, NEW seqs \in Seq(Seq(S)), NEW flat, NEW off, Flattened(flat, seqs, off),
           NEW i \in 1 .. Len(seqs), Len(seqs[i]) # 0
    PROVE  Placed(i, flat, seqs, off)
<1>1. Len(seqs) \in Nat /\ Len(seqs[i]) \in Nat /\ i - 1 \in 0 .. Len(seqs) /\ i \in 0 .. Len(seqs)
  BY SMTT(30)
<1>2. Len(flat) \in Nat /\ off[i - 1] \in 0 .. Len(flat) /\ off[i] \in 0 .. Len(flat)
  BY <1>1, FlattenBounded
<1>3. /\ off[i] = off[i - 1] + Len(seqs[i]) /\ off[Len(seqs)] = Len(flat)
      /\ \A j \in 1 .. Len(seqs[i]) : flat[off[i - 1] + j] = seqs[i][j]
  BY DEF Flattened
<1>4. PICK a, b, c, l : a = off[i - 1] /\ b = off[i] /\ c = Len(seqs[i]) /\ l = Len(flat)
  OBVIOUS
<1>5. a \in Nat /\ b \in Nat /\ c \in Nat /\ l \in Nat /\ b = a + c /\ b <= l /\ c # 0
  BY <1>1, <1>2, <1>3, <1>4, SMTT(30)
<1>6. a < b /\ \A j \in 1 .. c : a + j \in 1 .. l
  BY ONLY <1>5, SMTT(30)
<1>7. b < l => i # Len(seqs)
  BY <1>3, <1>4, <1>5, SMTT(30)
<1>8. i # Len(seqs) => i + 1 \in 1 .. Len(seqs)
  BY <1>1, SMTT(30)
<1> QED
  BY <1>3, <1>4, <1>5, <1>6, <1>7, <1>8 DEF Placed

\* A row goes on with an entry exactly when it is not the first of one.
RowAt(lines, k, row, j) ==
    /\ k \in DedicatedRows(lines) /\ lines[k] = row
    /\ Continues(lines, DedicatedRows(lines), k) <=> j # 1

LEMMA RowsContinue ==
    ASSUME NEW S, NEW flat, NEW seqs \in Seq(Seq(S)), NEW keys, NEW off, NEW held,
           Tabled(flat, held, keys, seqs, off), Legible(held),
           NEW lines, NEW base, Listed(lines, base, flat),
           NEW i \in 1 .. Len(seqs), NEW j \in 1 .. Len(seqs[i]),
           NEW k, k = base + off[i - 1] + j
    PROVE  RowAt(lines, k, seqs[i][j], j)
<1>1. /\ EntryOf(seqs[i], keys[i], TokensOf(held, keys[i])) /\ keys[i] \in KeysOf(held)
      /\ Flattened(flat, seqs, off)
  BY DEF Tabled
<1>2. Len(seqs[i]) # 0
  BY <1>1 DEF EntryOf
<1>3. seqs[i][1].type = keys[i][1] /\ \A m \in 2 .. Len(seqs[i]) : seqs[i][m].type = ""
  BY <1>1 DEF EntryOf
<1>4. keys[i][1] # ""
  BY <1>1 DEF KeysOf, Legible
<1>5. /\ off[i - 1] \in Nat /\ Len(seqs[i]) \in Nat
      /\ \A m \in 1 .. Len(seqs[i]) : off[i - 1] + m \in 1 .. Len(flat) /\ flat[off[i - 1] + m] = seqs[i][m]
  <2>1. Placed(i, flat, seqs, off)
    BY <1>1, <1>2, EntryPlaces
  <2> QED
    BY <2>1 DEF Placed
<1>6. base \in Nat
  BY DEF Listed
<1>7. ASSUME NEW m \in 1 .. Len(seqs[i])
      PROVE  base + off[i - 1] + m \in DedicatedRows(lines) /\ lines[base + off[i - 1] + m] = seqs[i][m]
  <2>1. PICK l : l = off[i - 1] + m
    OBVIOUS
  <2>2. l \in 1 .. Len(flat) /\ flat[l] = seqs[i][m]
    BY <1>5, <2>1
  <2>3. base + l = base + off[i - 1] + m
    <3>1. PICK a, c : a = off[i - 1] /\ c = Len(seqs[i])
      OBVIOUS
    <3>2. a \in Nat /\ c \in Nat /\ m \in 1 .. c /\ l = a + m
      BY <1>5, <2>1, <3>1
    <3>3. base + l = base + a + m
      BY ONLY <1>6, <3>2, SMTT(30)
    <3> QED
      BY <3>1, <3>3
  <2>4. base + l \in DedicatedRows(lines) /\ lines[base + l] = flat[l]
    BY <2>2 DEF Listed
  <2> QED
    BY <2>2, <2>3, <2>4
<1>8. k \in DedicatedRows(lines) /\ lines[k] = seqs[i][j]
  BY <1>7
<1>9. CASE j = 1
  BY <1>3, <1>4, <1>8, <1>9 DEF Continues, RowAt
<1>10. CASE j # 1
  <2>1. j \in 2 .. Len(seqs[i]) /\ 1 \in 1 .. Len(seqs[i])
    BY <1>5, <1>10, <1>2, SMTT(30)
  <2>2. PICK f : f = base + off[i - 1] + 1
    OBVIOUS
  <2>3. f \in DedicatedRows(lines)
    BY <1>7, <2>1, <2>2
  <2>4. f < k
    <3>1. PICK a, c : a = off[i - 1] /\ c = Len(seqs[i])
      OBVIOUS
    <3>2. a \in Nat /\ c \in Nat /\ j \in 2 .. c /\ f = base + a + 1 /\ k = base + a + j
      BY <1>5, <2>1, <2>2, <3>1
    <3> QED
      BY ONLY <1>6, <3>2, SMTT(30)
  <2>5. lines[k].type = ""
    BY <1>3, <1>8, <2>1
  <2> QED
    BY <1>8, <1>10, <2>3, <2>4, <2>5 DEF Continues, RowAt
<1> QED
  BY <1>8, <1>9, <1>10

\* What the parser is to read for a target
EntryFor(held, k) == [key |-> <<k[1], k[2]>>, tokens |-> TokensOf(held, k)]

\* The i-th entry is read with its target and all of its tokens.
LEMMA EntryRead ==
    ASSUME NEW S, NEW flat, NEW seqs \in Seq(Seq(S)), NEW keys, NEW off, NEW held,
           Tabled(flat, held, keys, seqs, off), Legible(held),
           NEW lines, NEW base, Listed(lines, base, flat),
           NEW i \in 1 .. Len(seqs), NEW first, first = base + off[i - 1] + 1
    PROVE  Entry(lines, DedicatedRows(lines), first) = EntryFor(held, keys[i])
<1> DEFINE rows == DedicatedRows(lines)
           Group == {k \in rows : k >= first /\ \A m \in rows \cap (first + 1 .. k) : Continues(lines, rows, m)}
<1>1. EntryOf(seqs[i], keys[i], TokensOf(held, keys[i])) /\ Flattened(flat, seqs, off)
  BY DEF Tabled
<1>2. \A l \in 1 .. Len(seqs) : Len(seqs[l]) # 0
  BY DEF Tabled, EntryOf
<1>3. \A l \in 1 .. Len(seqs) : Placed(l, flat, seqs, off)
  BY <1>1, <1>2, EntryPlaces
<1>4. base \in Nat
  BY DEF Listed
<1>5. PICK a, b, c : a = base + off[i - 1] /\ b = base + off[i] /\ c = Len(seqs[i])
  OBVIOUS
<1>6. a \in Nat /\ b = a + c /\ c \in Nat /\ c # 0 /\ first = a + 1
  <2>1. PICK d, e : d = off[i - 1] /\ e = off[i]
    OBVIOUS
  <2>2. d \in Nat /\ c \in Nat /\ c # 0 /\ e = d + c /\ a = base + d /\ b = base + e /\ first = base + d + 1
    BY <1>2, <1>3, <1>5, <2>1 DEF Placed
  <2> QED
    BY ONLY <1>4, <2>2, SMTT(30)
<1>7. ASSUME NEW j \in 1 .. c
      PROVE  a + j \in rows /\ lines[a + j] = seqs[i][j] /\ (Continues(lines, rows, a + j) <=> j # 1)
  <2>1. RowAt(lines, a + j, seqs[i][j], j)
    BY <1>5, RowsContinue
  <2> QED
    BY <2>1 DEF RowAt
<1> HIDE DEF rows
<1>8. ASSUME NEW j \in 1 .. c PROVE a + j \in Group
  <2>1. ASSUME NEW m \in rows \cap (first + 1 .. a + j) PROVE Continues(lines, rows, m)
    <3>1. PICK l : l = m - a
      OBVIOUS
    <3>2. l \in 1 .. c /\ l # 1 /\ m = a + l
      <4>1. m \in first + 1 .. a + j
        OBVIOUS
      <4> QED
        BY ONLY <1>6, <1>8, <3>1, <4>1, SMTT(30)
    <3> QED
      BY <1>7, <3>2
  <2>2. a + j >= first
    BY <1>6, SMTT(30)
  <2> QED
    BY <1>7, <2>1, <2>2
<1>9. ASSUME NEW k \in Group PROVE \E j \in 1 .. c : k = a + j
  <2>1. k \in rows /\ k >= first
    OBVIOUS
  <2>2. PICK p \in 1 .. Len(flat) : k = base + p
    BY <2>1 DEF Listed, rows
  <2>3. Len(flat) \in Nat /\ off[i] \in Nat
    BY <1>3 DEF Placed
  <2>4. k <= b
    <3> SUFFICES ASSUME ~(k <= b) PROVE FALSE
      OBVIOUS
    <3>1. off[i] < p
      BY <1>4, <1>5, <2>2, <2>3, SMTT(30)
    <3>2. off[i] < Len(flat)
      BY <2>2, <2>3, <3>1, SMTT(30)
    <3>3. PICK n \in 1 .. Len(seqs) : n = i + 1 /\ n - 1 = i
      <4>1. i + 1 \in 1 .. Len(seqs)
        BY <1>3, <3>2 DEF Placed
      <4> QED
        BY <4>1, SMTT(30)
    <3>4. 1 \in 1 .. Len(seqs[n])
      <4>1. Len(seqs[n]) \in Nat /\ Len(seqs[n]) # 0
        BY <1>2, <1>3 DEF Placed
      <4> QED
        BY <4>1, SMTT(30)
    <3>5. PICK next : next = base + off[n - 1] + 1
      OBVIOUS
    <3>6. next \in rows /\ ~Continues(lines, rows, next)
      <4>1. RowAt(lines, next, seqs[n][1], 1)
        BY <3>4, <3>5, RowsContinue
      <4> QED
        BY <4>1 DEF RowAt, rows
    <3>7. next = b + 1
      BY <1>5, <3>3, <3>5
    <3>8. next \in first + 1 .. k
      <4>1. PICK n1 : n1 = Len(flat)
        OBVIOUS
      <4>2. n1 \in Nat /\ p \in 1 .. n1 /\ k = base + p /\ ~(k <= b)
        BY <2>2, <2>3, <4>1
      <4> QED
        BY ONLY <1>4, <1>6, <3>7, <4>2, SMTT(30)
    <3> QED
      BY <3>6, <3>8
  <2>5. PICK j : j = k - a
    OBVIOUS
  <2>6. j \in 1 .. c /\ k = a + j
    BY <1>4, <1>6, <2>1, <2>2, <2>3, <2>4, <2>5, SMTT(30)
  <2> QED
    BY <2>6
<1> HIDE DEF Group
<1>10. Entry(lines, rows, first) = [key    |-> <<lines[first].type, lines[first].bucket>>,
                                   tokens |-> UNION {Range(lines[k].tokens) : k \in Group}]
  BY DEF Entry, Group
<1>11. lines[first].type = keys[i][1] /\ lines[first].bucket = keys[i][2]
  <2>1. 1 \in 1 .. c
    BY <1>6, SMTT(30)
  <2>2. lines[first] = seqs[i][1]
    BY <1>6, <1>7, <2>1
  <2> QED
    BY <1>1, <2>2 DEF EntryOf
<1>12. UNION {Range(lines[k].tokens) : k \in Group} = TokensOf(held, keys[i])
  <2>1. ASSUME NEW x, NEW k \in Group, x \in Range(lines[k].tokens) PROVE x \in TokensOf(held, keys[i])
    <3>1. PICK j \in 1 .. c : k = a + j
      BY <1>9
    <3>2. x \in Range(seqs[i][j].tokens)
      BY <1>7, <2>1, <3>1
    <3> QED
      BY <1>1, <1>5, <3>2 DEF EntryOf
  <2>2. ASSUME NEW x \in TokensOf(held, keys[i]) PROVE \E k \in Group : x \in Range(lines[k].tokens)
    <3>1. PICK j \in 1 .. c : x \in Range(seqs[i][j].tokens)
      BY <1>1, <1>5 DEF EntryOf
    <3>2. PICK k : k = a + j
      OBVIOUS
    <3>3. k \in Group /\ lines[k] = seqs[i][j]
      BY <1>7, <1>8, <3>2
    <3> QED
      BY <3>1, <3>3
  <2> QED
    BY <2>1, <2>2
<1> QED
  BY <1>10, <1>11, <1>12 DEF rows, EntryFor

\* One entry is read for each target held.
ReadAs(entries, held) == \A e : e \in entries <=> \E k \in KeysOf(held) : e = EntryFor(held, k)

\* The table is read as what it lists.
LEMMA TableRead ==
    ASSUME NEW S, NEW flat, NEW seqs \in Seq(Seq(S)), NEW keys, NEW off, NEW held,
           Tabled(flat, held, keys, seqs, off), Legible(held),
           NEW lines, NEW base, Listed(lines, base, flat)
    PROVE  ReadAs(parseDedicatedGrants(lines), held)
<1> DEFINE rows == DedicatedRows(lines)
           first(i) == base + off[i - 1] + 1
<1>1. \A e : e \in parseDedicatedGrants(lines) <=> \E k \in rows : ~Continues(lines, rows, k) /\ e = Entry(lines, rows, k)
  BY DEF parseDedicatedGrants
<1>2. Flattened(flat, seqs, off) /\ \A i \in 1 .. Len(seqs) : Len(seqs[i]) # 0
  BY DEF Tabled, EntryOf
<1>3. ASSUME NEW i \in 1 .. Len(seqs) PROVE first(i) \in rows /\ ~Continues(lines, rows, first(i))
  <2>1. 1 \in 1 .. Len(seqs[i])
    <3>1. Placed(i, flat, seqs, off)
      BY <1>2, EntryPlaces
    <3>2. Len(seqs[i]) \in Nat /\ Len(seqs[i]) # 0
      BY <1>2, <3>1 DEF Placed
    <3> QED
      BY <3>2, SMTT(30)
  <2>2. RowAt(lines, first(i), seqs[i][1], 1)
    BY <2>1, RowsContinue
  <2> QED
    BY <2>2 DEF RowAt
<1>4. ASSUME NEW k \in rows, ~Continues(lines, rows, k) PROVE \E i \in 1 .. Len(seqs) : k = first(i)
  <2>1. PICK p \in 1 .. Len(flat) : k = base + p
    BY DEF Listed
  <2>2. Covered(seqs, off, p)
    BY <1>2, FlattenCover
  <2>3. PICK i \in 1 .. Len(seqs) : \E j \in 1 .. Len(seqs[i]) : p = off[i - 1] + j
    BY <2>2 DEF Covered
  <2>4. PICK j \in 1 .. Len(seqs[i]) : p = off[i - 1] + j
    BY <2>3
  <2>5. k = base + off[i - 1] + j
    <3>1. Placed(i, flat, seqs, off)
      BY <1>2, EntryPlaces
    <3>2. base \in Nat /\ off[i - 1] \in Nat /\ Len(seqs[i]) \in Nat
      BY <3>1 DEF Placed, Listed
    <3>3. PICK d, c : d = off[i - 1] /\ c = Len(seqs[i])
      OBVIOUS
    <3>4. base \in Nat /\ d \in Nat /\ c \in Nat /\ j \in 1 .. c /\ k = base + p /\ p = d + j
      BY <2>1, <2>4, <3>2, <3>3
    <3>5. k = base + d + j
      BY ONLY <3>4, SMTT(30)
    <3> QED
      BY <3>3, <3>5
  <2>6. RowAt(lines, k, seqs[i][j], j)
    BY <2>5, RowsContinue
  <2>7. j = 1
    BY <1>4, <2>6 DEF RowAt
  <2> QED
    BY <2>5, <2>7
<1>5. ASSUME NEW i \in 1 .. Len(seqs) PROVE Entry(lines, rows, first(i)) = EntryFor(held, keys[i])
  <2>1. PICK f : f = base + off[i - 1] + 1
    OBVIOUS
  <2>2. Entry(lines, DedicatedRows(lines), f) = EntryFor(held, keys[i])
    BY <2>1, EntryRead, SMTT(30)
  <2> QED
    BY <2>1, <2>2
<1>6. \A k : k \in KeysOf(held) <=> \E i \in 1 .. Len(seqs) : k = keys[i]
  BY DEF Tabled
<1> HIDE DEF rows, first
<1>7. \A e : e \in parseDedicatedGrants(lines) <=> \E i \in 1 .. Len(seqs) : e = EntryFor(held, keys[i])
  <2>1. \A e : (\E k \in rows : ~Continues(lines, rows, k) /\ e = Entry(lines, rows, k))
                  <=> \E i \in 1 .. Len(seqs) : e = Entry(lines, rows, first(i))
    BY <1>3, <1>4
  <2>2. \A e : (\E i \in 1 .. Len(seqs) : e = Entry(lines, rows, first(i)))
                  <=> \E i \in 1 .. Len(seqs) : e = EntryFor(held, keys[i])
    BY <1>5
  <2> QED
    BY <1>1, <2>1, <2>2
<1> QED
  BY <1>6, <1>7 DEF ReadAs

\* The listing: n lines, the title of the table, its header and its rows, and
\* the title of the next.
Parts(lines, n, flat, R) ==
    /\ n \in Nat \ {0} /\ Len(flat) \in Nat /\ DOMAIN lines = 1 .. Len(lines)
    /\ Len(lines) \in Nat /\ n + 3 + Len(flat) <= Len(lines)
    /\ lines[1] = Title("inherited") /\ \A k \in 2 .. n : lines[k] \in R
    /\ lines[n + 1] = Title("dedicated") /\ lines[n + 2] = Header
    /\ \A j \in 1 .. Len(flat) : lines[n + 2 + j] = flat[j]
    /\ lines[n + 3 + Len(flat)] = Title("cumulative")

LEMMA ListingParts ==
    ASSUME NEW R, NEW L, R \subseteq L, NEW ti \in L, NEW td \in L, NEW tc \in L, NEW hd \in R,
           ti = Title("inherited"), td = Title("dedicated"), tc = Title("cumulative"), hd = Header,
           NEW inh \in Seq(R), NEW flat \in Seq(R), NEW cum \in Seq(R),
           NEW lines, lines = <<ti>> \o inh \o <<td>> \o (<<hd>> \o flat) \o <<tc>> \o cum
    PROVE  \E n : Parts(lines, n, flat, R)
<1>1. PICK p1, p2, q, p3, p4 : /\ p1 = <<ti>> \o inh /\ p2 = p1 \o <<td>> /\ q = <<hd>> \o flat
                               /\ p3 = p2 \o q /\ p4 = p3 \o <<tc>>
  OBVIOUS
<1>2. lines = p4 \o cum
  BY <1>1
<1>3. /\ inh \in Seq(L) /\ flat \in Seq(L) /\ cum \in Seq(L)
      /\ <<ti>> \in Seq(L) /\ <<td>> \in Seq(L) /\ <<hd>> \in Seq(L) /\ <<tc>> \in Seq(L)
  BY SeqWidens, SMTT(30)
<1>4. PICK si, sd, sh, sc : si = <<ti>> /\ sd = <<td>> /\ sh = <<hd>> /\ sc = <<tc>>
  OBVIOUS
<1>5. p1 \in Seq(L) /\ Joined(si, inh, p1)
  BY <1>1, <1>3, <1>4, ConcatJoins
<1>6. p2 \in Seq(L) /\ Joined(p1, sd, p2)
  BY <1>1, <1>3, <1>4, <1>5, ConcatJoins
<1>7. q \in Seq(L) /\ Joined(sh, flat, q)
  BY <1>1, <1>3, <1>4, ConcatJoins
<1>8. p3 \in Seq(L) /\ Joined(p2, q, p3)
  BY <1>1, <1>6, <1>7, ConcatJoins
<1>9. p4 \in Seq(L) /\ Joined(p3, sc, p4)
  BY <1>1, <1>3, <1>4, <1>8, ConcatJoins
<1>10. lines \in Seq(L) /\ Joined(p4, cum, lines)
  BY <1>2, <1>3, <1>9, ConcatJoins
<1>11. /\ Len(si) = 1 /\ si[1] = ti /\ Len(sd) = 1 /\ sd[1] = td
       /\ Len(sh) = 1 /\ sh[1] = hd /\ Len(sc) = 1 /\ sc[1] = tc
  BY <1>4
<1> HIDE <1>1, <1>2, <1>4
<1>12. PICK n, m : n = Len(p1) /\ m = Len(flat)
  OBVIOUS
<1>13. /\ n \in Nat \ {0} /\ m \in Nat /\ Len(inh) \in Nat /\ Len(cum) \in Nat /\ n = 1 + Len(inh)
       /\ Len(p2) = n + 1 /\ Len(q) = m + 1 /\ Len(p3) = n + 2 + m /\ Len(p4) = n + 3 + m
       /\ Len(lines) = n + 3 + m + Len(cum)
  <2>1. Len(inh) \in Nat /\ n = 1 + Len(inh)
    BY <1>5, <1>11, <1>12 DEF Joined
  <2>2. Len(p2) = n + 1
    BY <1>6, <1>11, <1>12 DEF Joined
  <2>3. m \in Nat /\ Len(q) = 1 + m
    BY <1>7, <1>11, <1>12 DEF Joined
  <2>4. Len(p3) = Len(p2) + Len(q)
    BY <1>8 DEF Joined
  <2>5. Len(p4) = Len(p3) + 1
    BY <1>9, <1>11 DEF Joined
  <2>6. Len(cum) \in Nat /\ Len(lines) = Len(p4) + Len(cum)
    BY <1>10 DEF Joined
  <2> QED
    BY ONLY <2>1, <2>2, <2>3, <2>4, <2>5, <2>6, SMTT(30)
<1>14. \A k \in 1 .. n + 3 + m : lines[k] = p4[k]
  BY <1>10, <1>13 DEF Joined
<1>15. \A k \in 1 .. n + 2 + m : p4[k] = p3[k]
  BY <1>9, <1>13 DEF Joined
<1>16. \A k \in 1 .. n + 1 : p3[k] = p2[k]
  BY <1>8, <1>13 DEF Joined
<1>17. \A k \in 1 .. n : p2[k] = p1[k]
  BY <1>6, <1>12 DEF Joined
<1>18. /\ \A k \in 1 .. n : k \in 1 .. n + 1
       /\ \A k \in 1 .. n + 1 : k \in 1 .. n + 2 + m
       /\ \A k \in 1 .. n + 2 + m : k \in 1 .. n + 3 + m
  BY ONLY <1>13, SMTT(30)
<1>19. \A k \in 1 .. n : lines[k] = p1[k]
  BY <1>14, <1>15, <1>16, <1>17, <1>18
<1>20. lines[1] = ti
  <2>1. 1 \in 1 .. n /\ 1 \in 1 .. 1
    BY ONLY <1>13, SMTT(30)
  <2>2. p1[1] = si[1]
    BY <1>5, <1>11, <2>1 DEF Joined
  <2> QED
    BY <1>11, <1>19, <2>1, <2>2
<1>21. ASSUME NEW k \in 2 .. n PROVE lines[k] \in R
  <2>1. PICK j : j = k - 1
    OBVIOUS
  <2>2. j \in 1 .. Len(inh) /\ k = 1 + j /\ k \in 1 .. n
    BY ONLY <1>13, <1>21, <2>1, SMTT(30)
  <2>3. p1[1 + j] = inh[j]
    BY <1>5, <1>11, <2>2 DEF Joined
  <2>4. inh[j] \in R
    BY <2>2, SeqIsFunction
  <2> QED
    BY <1>19, <2>2, <2>3, <2>4
<1>22. lines[n + 1] = td
  <2>1. 1 \in 1 .. 1 /\ n + 1 \in 1 .. n + 1
    BY ONLY <1>13, SMTT(30)
  <2>2. p2[n + 1] = sd[1]
    BY <1>6, <1>11, <1>12, <2>1 DEF Joined
  <2>3. lines[n + 1] = p2[n + 1]
    BY <1>14, <1>15, <1>16, <1>18, <2>1
  <2> QED
    BY <1>11, <2>2, <2>3
<1>23. \A j \in 1 .. m + 1 : lines[n + 1 + j] = q[j]
  <2>1. ASSUME NEW j \in 1 .. m + 1 PROVE lines[n + 1 + j] = q[j]
    <3>1. n + 1 + j \in 1 .. n + 2 + m
      BY ONLY <1>13, <2>1, SMTT(30)
    <3>2. p3[n + 1 + j] = q[j]
      BY <1>8, <1>13 DEF Joined
    <3> QED
      BY <1>14, <1>15, <1>18, <3>1, <3>2
  <2> QED
    BY <2>1
<1>24. lines[n + 2] = hd
  <2>1. 1 \in 1 .. m + 1 /\ 1 \in 1 .. 1 /\ n + 1 + 1 = n + 2
    BY ONLY <1>13, SMTT(30)
  <2>2. q[1] = sh[1]
    BY <1>7, <1>11, <2>1 DEF Joined
  <2>3. lines[n + 1 + 1] = q[1]
    BY <1>23, <2>1
  <2> QED
    BY <1>11, <2>1, <2>2, <2>3
<1>25. ASSUME NEW j \in 1 .. m PROVE lines[n + 2 + j] = flat[j]
  <2>1. 1 + j \in 1 .. m + 1 /\ n + 1 + (1 + j) = n + 2 + j
    BY ONLY <1>13, <1>25, SMTT(30)
  <2>2. q[1 + j] = flat[j]
    BY <1>7, <1>11, <1>12 DEF Joined
  <2>3. lines[n + 1 + (1 + j)] = q[1 + j]
    BY <1>23, <2>1
  <2> QED
    BY <2>1, <2>2, <2>3
<1>26. lines[n + 3 + m] = tc
  <2>1. 1 \in 1 .. 1 /\ n + 2 + m + 1 = n + 3 + m /\ n + 3 + m \in 1 .. n + 3 + m
    BY ONLY <1>13, SMTT(30)
  <2>2. p4[n + 2 + m + 1] = sc[1]
    BY <1>9, <1>11, <1>13, <2>1 DEF Joined
  <2> QED
    BY <1>11, <1>14, <2>1, <2>2
<1>27. DOMAIN lines = 1 .. Len(lines) /\ Len(lines) \in Nat /\ n + 3 + m <= Len(lines)
  BY <1>10, <1>13, SeqIsFunction, SMTT(30)
<1> QED
  BY <1>12, <1>13, <1>20, <1>21, <1>22, <1>24, <1>25, <1>26, <1>27 DEF Parts

LEMMA Titles == \A k : Title(k).kind = k
BY DEF Title

\* The rows of the table are the ones the parser looks at.
LEMMA ListingRows ==
    ASSUME NEW A, NEW B, NEW T, NEW R, R = Rows(A, B, T), NEW flat \in Seq(R),
           NEW lines, NEW n, Parts(lines, n, flat, R),
           \A j \in 1 .. Len(flat) : flat[j].type # "type"
    PROVE  Listed(lines, n + 2, flat)
<1>1. PICK m : m = Len(flat)
  OBVIOUS
<1>2. /\ n \in Nat \ {0} /\ m \in Nat /\ DOMAIN lines = 1 .. Len(lines) /\ Len(lines) \in Nat
      /\ n + 3 + m <= Len(lines)
  BY <1>1 DEF Parts
<1>3. lines[1].kind # "dedicated" /\ lines[1].kind # "cumulative"
  <2>1. lines[1].kind = "inherited"
    BY Titles DEF Parts
  <2> QED
    BY <2>1
<1>4. \A k \in 2 .. n : lines[k].kind # "dedicated" /\ lines[k].kind # "cumulative"
  BY DEF Parts, Rows
<1>5. lines[n + 1].kind = "dedicated"
  BY Titles DEF Parts
<1>6. lines[n + 2].kind = "row" /\ lines[n + 2].type = "type"
  BY SMTT(30) DEF Parts, Header, Row
<1>7. \A j \in 1 .. m : lines[n + 2 + j] = flat[j] /\ lines[n + 2 + j].kind = "row" /\ lines[n + 2 + j].type # "type"
  <2>1. ASSUME NEW j \in 1 .. m PROVE flat[j].kind = "row"
    <3>1. flat[j] \in R
      BY <1>1, SeqIsFunction
    <3> QED
      BY <3>1 DEF Rows
  <2> QED
    BY <1>1, <2>1 DEF Parts
<1>8. lines[n + 3 + m].kind = "cumulative"
  BY <1>1, Titles DEF Parts
<1>9. ASSUME NEW k \in DedicatedRows(lines) PROVE \E j \in 1 .. m : k = n + 2 + j
  <2>1. /\ k \in 1 .. Len(lines) /\ lines[k].kind = "row" /\ lines[k].type # "type"
        /\ \E j \in 1 .. k : lines[j].kind = "dedicated"
        /\ \A j \in 1 .. k : lines[j].kind # "cumulative"
    BY <1>2 DEF DedicatedRows
  <2>2. ~(k <= n)
    <3> SUFFICES ASSUME k <= n PROVE FALSE
      OBVIOUS
    <3>1. PICK j \in 1 .. k : lines[j].kind = "dedicated"
      BY <2>1
    <3>2. j = 1 \/ j \in 2 .. n
      <4>1. k \in 1 .. Len(lines)
        BY <2>1
      <4> QED
        BY <1>2, <4>1, SMTT(30)
    <3> QED
      BY <1>3, <1>4, <3>1, <3>2
  <2>3. k # n + 1
    BY <1>5, <2>1
  <2>4. k # n + 2
    BY <1>6, <2>1
  <2>5. ~(n + 3 + m <= k)
    <3> SUFFICES ASSUME n + 3 + m <= k PROVE FALSE
      OBVIOUS
    <3>1. n + 3 + m \in 1 .. k
      <4>1. k \in 1 .. Len(lines)
        BY <2>1
      <4> QED
        BY <1>2, <4>1, SMTT(30)
    <3> QED
      BY <1>8, <2>1, <3>1
  <2>6. PICK j : j = k - (n + 2)
    OBVIOUS
  <2>7. j \in 1 .. m /\ k = n + 2 + j
    <3>1. k \in 1 .. Len(lines)
      BY <2>1
    <3> QED
      BY ONLY <1>2, <2>2, <2>3, <2>4, <2>5, <2>6, <3>1, SMTT(30)
  <2> QED
    BY <2>7
<1>10. ASSUME NEW j \in 1 .. m PROVE n + 2 + j \in DedicatedRows(lines)
  <2>1. PICK k : k = n + 2 + j
    OBVIOUS
  <2>2. k \in 1 .. Len(lines) /\ n + 1 \in 1 .. k
    BY <1>2, <2>1, SMTT(30)
  <2>3. ASSUME NEW l \in 1 .. k PROVE lines[l].kind # "cumulative"
    <3>1. l = 1 \/ l \in 2 .. n \/ l = n + 1 \/ l = n + 2 \/ \E i \in 1 .. m : l = n + 2 + i
      <4>1. PICK i : i = l - (n + 2)
        OBVIOUS
      <4>2. l = 1 \/ l \in 2 .. n \/ l = n + 1 \/ l = n + 2 \/ (i \in 1 .. m /\ l = n + 2 + i)
        BY <1>2, <2>1, <4>1, SMTT(30)
      <4> QED
        BY <4>2
    <3> QED
      BY <1>3, <1>4, <1>5, <1>6, <1>7, <3>1
  <2>4. lines[k].kind = "row" /\ lines[k].type # "type"
    BY <1>7, <2>1
  <2>5. k \in DedicatedRows(lines)
    BY <1>2, <1>5, <2>2, <2>3, <2>4 DEF DedicatedRows
  <2> QED
    BY <2>1, <2>5
<1>11. n + 2 \in Nat
  BY <1>2, SMTT(30)
<1> QED
  BY <1>1, <1>7, <1>9, <1>10, <1>11 DEF Listed

\* No row of the table is taken for a header.
LEMMA NoHeaders ==
    ASSUME NEW S, NEW flat, NEW seqs \in Seq(Seq(S)), NEW keys, NEW off, NEW held,
           Tabled(flat, held, keys, seqs, off), Legible(held), NEW p \in 1 .. Len(flat)
    PROVE  flat[p].type # "type"
<1>1. Flattened(flat, seqs, off)
  BY DEF Tabled
<1>2. Covered(seqs, off, p)
  BY <1>1, FlattenCover
<1>3. PICK i \in 1 .. Len(seqs) : \E j \in 1 .. Len(seqs[i]) : p = off[i - 1] + j
  BY <1>2 DEF Covered
<1>4. PICK j \in 1 .. Len(seqs[i]) : p = off[i - 1] + j
  BY <1>3
<1>5. flat[p] = seqs[i][j]
  BY <1>1, <1>4 DEF Flattened
<1>6. EntryOf(seqs[i], keys[i], TokensOf(held, keys[i])) /\ keys[i] \in KeysOf(held)
  BY DEF Tabled
<1>7. keys[i][1] # "type"
  BY <1>6 DEF KeysOf, Legible
<1>8. j = 1 \/ j \in 2 .. Len(seqs[i])
  BY SMTT(30)
<1>9. seqs[i][j].type = keys[i][1] \/ seqs[i][j].type = ""
  BY <1>6, <1>8 DEF EntryOf
<1> QED
  BY <1>5, <1>7, <1>9

\* The parser reads off print-grants what is held, whatever is inherited and
\* however the tokens are spread over rows.
LEMMA PrintedIsRead ==
    ASSUME NEW held, IsFiniteSet(held), Legible(held), NEW inherited, IsFiniteSet(inherited),
           NEW w \in Nat \ {0}
    PROVE  ReadAs(parseDedicatedGrants(PrintGrants(held, inherited, w)), held)
<1> DEFINE all == held \cup inherited
           A == {"", "type"} \cup {h[1][1] : h \in all}
           B == {"", "bucket"} \cup {h[1][2] : h \in all}
           T == {"grants"} \cup {h[2] : h \in all}
           R == Rows(A, B, T)
           lines == PrintGrants(held, inherited, w)
<1>1. IsFiniteSet(all)
  BY FS_Union
<1>2. Fits(held, A, B, T) /\ Fits(inherited, A, B, T) /\ Fits(all, A, B, T)
  BY DEF Fits
<1>3. Header \in R
  BY SMTT(30) DEF Header, Row, Rows
<1>4. lines = <<Title("inherited")>> \o Table(inherited, w) \o <<Title("dedicated")>> \o Table(held, w)
              \o <<Title("cumulative")>> \o Table(all, w)
  BY DEF PrintGrants
<1> HIDE DEF all, A, B, T, lines
<1>5. Lists(Table(held, w), held, R) /\ Lists(Table(inherited, w), inherited, R) /\ Lists(Table(all, w), all, R)
  BY <1>1, <1>2, TableFacts
<1>6. PICK flat \in Seq(R), seqs \in Seq(Seq(R)) : \E keys, off :
            Table(held, w) = <<Header>> \o flat /\ Tabled(flat, held, keys, seqs, off)
  BY <1>5 DEF Lists
<1>7. PICK keys, off : Table(held, w) = <<Header>> \o flat /\ Tabled(flat, held, keys, seqs, off)
  BY <1>6
<1>8. \E f \in Seq(R) : Table(inherited, w) = <<Header>> \o f
  BY <1>5 DEF Lists
<1>9. \E f \in Seq(R) : Table(all, w) = <<Header>> \o f
  BY <1>5 DEF Lists
<1> HIDE DEF R
<1>10. PICK hd \in R : hd = Header
  BY <1>3
<1>11. <<hd>> \in Seq(R)
  BY SMTT(30)
<1>12. Table(inherited, w) \in Seq(R) /\ Table(all, w) \in Seq(R)
  BY <1>8, <1>9, <1>10, <1>11, ConcatProperties
<1>13. PICK inh \in Seq(R), cum \in Seq(R) : inh = Table(inherited, w) /\ cum = Table(all, w)
  BY <1>12
<1>14. PICK L : L = R \cup {Title("inherited"), Title("dedicated"), Title("cumulative")}
  OBVIOUS
<1>15. PICK ti \in L, td \in L, tc \in L : ti = Title("inherited") /\ td = Title("dedicated") /\ tc = Title("cumulative")
  BY <1>14
<1>16. lines = <<ti>> \o inh \o <<td>> \o (<<hd>> \o flat) \o <<tc>> \o cum
  BY <1>4, <1>7, <1>10, <1>13, <1>15
<1>17. R \subseteq L
  BY <1>14
<1>18. PICK n : Parts(lines, n, flat, R)
  BY <1>10, <1>15, <1>16, <1>17, ListingParts
<1>19. \A p \in 1 .. Len(flat) : flat[p].type # "type"
  BY <1>7, NoHeaders
<1>20. Listed(lines, n + 2, flat)
  BY <1>18, <1>19, ListingRows DEF R
<1>21. ReadAs(parseDedicatedGrants(lines), held)
  BY <1>7, <1>20, TableRead
<1> QED
  BY <1>21 DEF lines

-----------------------------------------------------------------------------
(* Calls *)

\* The bucket types grants name: what UserLifecycle assumes of them.
WellNamed(grants) ==
    \A g \in grants : /\ g.bucket \in Seq(STRING)
                      /\ g.bucket # <<>> => g.bucket[1] \notin {"", "*", "type"}

\* Under what name print-grants lists a target
CallKey(resource, bucket) ==
    IF resource = "any" THEN <<"*", "*">>
    ELSE <<bucket[1], IF Len(bucket) > 1 THEN bucket[2] ELSE "*">>

LEMMA PairsOf ==
    ASSUME NEW c PROVE \A x : x \in Pairs(c) <=> \E t \in c.tokens : x = <<CallKey(c.resource, c.bucket), t>>
<1> DEFINE k == CallKey(c.resource, c.bucket)
<1>1. Pairs(c) = {k} \X c.tokens
  BY DEF Pairs, CallKey
<1> HIDE DEF k
<1>2. \A x : x \in {k} \X c.tokens <=> \E t \in c.tokens : x = <<k, t>>
  BY SMTT(30)
<1> QED
  BY <1>1, <1>2 DEF k

\* The tokens a list of permissions gets for one target are those of each.
LEMMA TokensOfCalls ==
    ASSUME NEW grants, NEW g \in grants
    PROVE  riakKVPermissions(g.permission) \subseteq
             permissionTokens({h.permission : h \in {k \in grants : k.resource = g.resource /\ k.bucket = g.bucket}})
BY DEF permissionTokens

\* GrantUserPermissions, which makes one call for each target, asks for what
\* the grants of the spec mean each by itself.
LEMMA CallsAsk ==
    ASSUME NEW grants
    PROVE  Asked(grants) = UNION {Pairs(c) : c \in {d \in GrantCalls(grants) : ~TargetFails(d.resource, d.bucket)}}
<1> DEFINE OnTarget(g) == {k \in grants : k.resource = g.resource /\ k.bucket = g.bucket}
           Call(g) == [resource |-> g.resource, bucket |-> g.bucket,
                       tokens |-> permissionTokens({h.permission : h \in OnTarget(g)})]
           Alone(g) == [resource |-> g.resource, bucket |-> g.bucket,
                        tokens |-> riakKVPermissions(g.permission)]
           Good == {d \in GrantCalls(grants) : ~TargetFails(d.resource, d.bucket)}
<1>1. GrantCalls(grants) = {Call(g) : g \in grants}
  BY DEF GrantCalls
<1>2. Asked(grants) = UNION {Pairs(Alone(g)) : g \in {h \in grants : ~TargetFails(h.resource, h.bucket)}}
  BY DEF Asked
<1>3. ASSUME NEW x \in Asked(grants) PROVE x \in UNION {Pairs(c) : c \in Good}
  <2>1. PICK g \in grants : ~TargetFails(g.resource, g.bucket) /\ x \in Pairs(Alone(g))
    BY <1>2, <1>3
  <2>2. Pairs(Alone(g)) \subseteq Pairs(Call(g))
    BY TokensOfCalls, PairsOf, SMTT(30)
  <2>3. Call(g) \in Good
    BY <1>1, <2>1
  <2> QED
    BY <2>1, <2>2, <2>3
<1>4. ASSUME NEW x \in UNION {Pairs(c) : c \in Good} PROVE x \in Asked(grants)
  <2>1. PICK g \in grants : ~TargetFails(g.resource, g.bucket) /\ x \in Pairs(Call(g))
    <3>1. PICK c \in GrantCalls(grants) : ~TargetFails(c.resource, c.bucket) /\ x \in Pairs(c)
      BY <1>4
    <3>2. PICK g \in grants : c = Call(g)
      BY <1>1, <3>1
    <3> QED
      BY <3>1, <3>2
  <2>2. PICK h \in OnTarget(g) : x \in Pairs(Alone(h))
    <3>1. PICK t \in Call(g).tokens : x = <<CallKey(g.resource, g.bucket), t>>
      <4>1. PICK c : c = Call(g)
        OBVIOUS
      <4>2. c.resource = g.resource /\ c.bucket = g.bucket /\ c.tokens = Call(g).tokens
        BY <4>1
      <4> QED
        BY <2>1, <4>1, <4>2, PairsOf
    <3>2. PICK h \in OnTarget(g) : t \in riakKVPermissions(h.permission)
      BY <3>1 DEF permissionTokens
    <3> QED
      BY <3>1, <3>2, PairsOf
  <2> QED
    BY <1>2, <2>1, <2>2
<1> QED
  BY <1>3, <1>4

\* The names print-grants has for what is asked for
Keyed(x) == \E a, b, t : x = <<<<a, b>>, t>> /\ (a = "*" => b = "*") /\ a # "" /\ a # "type"

LEMMA AskedIsKeyed ==
    ASSUME NEW grants, WellNamed(grants), NEW x \in Asked(grants)
    PROVE  Keyed(x)
<1>1. PICK g \in grants : ~TargetFails(g.resource, g.bucket)
                      /\ x \in Pairs([resource |-> g.resource, bucket |-> g.bucket,
                                      tokens |-> riakKVPermissions(g.permission)])
  BY DEF Asked
<1>2. PICK t : x = <<CallKey(g.resource, g.bucket), t>>
  BY <1>1, PairsOf, SMTT(30)
<1>3. g.resource # "any" => g.bucket # <<>> /\ g.bucket[1] \notin {"", "*", "type"}
  BY <1>1 DEF TargetFails, WellNamed
<1>4. CASE g.resource = "any"
  BY <1>2, <1>4 DEF CallKey, Keyed
<1>5. CASE g.resource # "any"
  <2>1. PICK b : CallKey(g.resource, g.bucket) = <<g.bucket[1], b>>
    BY <1>5 DEF CallKey
  <2>2. PICK a : a = g.bucket[1]
    OBVIOUS
  <2>3. a # "*" /\ a # "" /\ a # "type"
    BY <1>3, <1>5, <2>2
  <2> QED
    BY <1>2, <2>1, <2>2, <2>3 DEF Keyed
<1> QED
  BY <1>4, <1>5

LEMMA TokensAreFinite == \A p : IsFiniteSet(riakKVPermissions(p))
<1>1. \A x, y : IsFiniteSet({x, y})
  <2>1. ASSUME NEW x, NEW y PROVE IsFiniteSet({x, y})
    <3>1. IsFiniteSet({x} \cup {y}) /\ {x, y} = {x} \cup {y}
      BY FS_Singleton, FS_AddElement
    <3> QED
      BY <3>1
  <2> QED
    BY <2>1
<1>2. IsFiniteSet(AllTokens)
  <2>1. AllTokens = {"get", "put"} \cup {"delete", "list_keys"} \cup {"list_buckets"}
    BY DEF AllTokens
  <2>2. IsFiniteSet({"get", "put"} \cup {"delete", "list_keys"})
    BY <1>1, FS_Union
  <2> QED
    BY <2>1, <2>2, FS_AddElement
<1>3. ASSUME NEW p PROVE IsFiniteSet(riakKVPermissions(p))
  <2>1. riakKVPermissions(p) \in {{"get"}, {"put"}, {"list_keys", "list_buckets"}, AllTokens, {p}}
    BY DEF riakKVPermissions
  <2> QED
    <3>1. IsFiniteSet({"get"}) /\ IsFiniteSet({"put"}) /\ IsFiniteSet({p}) /\ IsFiniteSet({"list_keys", "list_buckets"})
      BY <1>1, FS_Singleton
    <3> QED
      BY <1>2, <2>1, <3>1
<1> QED
  BY <1>3

\* Finitely many grants ask for finitely many pairs.
LEMMA AskedIsFinite ==
    ASSUME NEW grants, IsFiniteSet(grants) PROVE IsFiniteSet(Asked(grants))
<1> DEFINE Good == {h \in grants : ~TargetFails(h.resource, h.bucket)}
           Of(g) == Pairs([resource |-> g.resource, bucket |-> g.bucket,
                           tokens |-> riakKVPermissions(g.permission)])
<1>1. IsFiniteSet(Good)
  BY FS_Subset
<1>2. Asked(grants) = UNION {Of(g) : g \in Good}
  BY DEF Asked
<1>3. ASSUME NEW g PROVE IsFiniteSet(Of(g))
  <2>1. \E k : Of(g) = {k} \X riakKVPermissions(g.permission)
    BY DEF Pairs
  <2>2. \A p : IsFiniteSet(riakKVPermissions(p))
    BY TokensAreFinite
  <2> QED
    <3>1. PICK k, D : Of(g) = {k} \X D /\ D = riakKVPermissions(g.permission)
      BY <2>1
    <3> HIDE DEF Of
    <3>2. IsFiniteSet({k}) /\ IsFiniteSet(D)
      BY <2>2, <3>1, FS_Singleton
    <3>3. IsFiniteSet({k} \X D)
      BY <3>2, FS_Product
    <3> QED
      BY <3>1, <3>3
<1> HIDE DEF Good, Of
<1>4. IsFiniteSet({Of(g) : g \in Good})
  <2>1. PICK f : f = [g \in Good |-> Of(g)]
    OBVIOUS
  <2>2. f \in Surjection(Good, {Of(g) : g \in Good})
    BY <2>1 DEF Surjection
  <2> QED
    BY <1>1, <2>2, FS_Surjection
<1>5. \A S \in {Of(g) : g \in Good} : IsFiniteSet(S)
  BY <1>3
<1> QED
  BY <1>2, <1>4, <1>5, FS_UNION

\* The keys GrantUserPermissions keeps of its calls are the names under which
\* print-grants lists their targets.
LEMMA DesiredIsAsked ==
    ASSUME NEW grants, WellNamed(grants) PROVE Desired(grants) = Asked(grants)
<1> DEFINE Good == {d \in GrantCalls(grants) : ~TargetFails(d.resource, d.bucket)}
<1>1. ASSUME NEW c \in Good PROVE {grantKey(c.resource, c.bucket)} \X c.tokens = Pairs(c)
  <2>1. PICK g \in grants : c.resource = g.resource /\ c.bucket = g.bucket
    <3> DEFINE Call(g) == [resource |-> g.resource, bucket |-> g.bucket,
                           tokens |-> permissionTokens({h.permission : h \in
                                         {k \in grants : k.resource = g.resource /\ k.bucket = g.bucket}})]
    <3>1. GrantCalls(grants) = {Call(g) : g \in grants}
      BY DEF GrantCalls
    <3>2. PICK g \in grants : c = Call(g)
      BY <1>1, <3>1
    <3> QED
      BY <3>2
  <2>2. c.bucket \in Seq(STRING)
    BY <2>1 DEF WellNamed
  <2>3. c.resource # "any" => c.bucket # <<>>
    BY <1>1 DEF TargetFails
  <2>4. c.resource # "any" => Len(c.bucket) \in Nat /\ Len(c.bucket) # 0
    BY <2>2, <2>3, SMTT(30)
  <2>5. grantKey(c.resource, c.bucket) = CallKey(c.resource, c.bucket)
    <3>1. CASE c.resource = "any"
      BY <3>1 DEF grantKey, CallKey
    <3>2. CASE c.resource # "any" /\ Len(c.bucket) = 1
      BY <3>2, SMTT(30) DEF grantKey, CallKey
    <3>3. CASE c.resource # "any" /\ Len(c.bucket) # 1
      <4>1. Len(c.bucket) > 1
        <5>1. PICK n : n = Len(c.bucket)
          OBVIOUS
        <5>2. n \in Nat /\ n # 0 /\ n # 1
          BY <2>4, <3>3, <5>1
        <5>3. n > 1
          BY <5>2, SMTT(30)
        <5> QED
          BY <5>1, <5>3
      <4> QED
        BY <3>3, <4>1 DEF grantKey, CallKey
    <3> QED
      BY <3>1, <3>2, <3>3
  <2>6. Pairs(c) = {CallKey(c.resource, c.bucket)} \X c.tokens
    BY DEF Pairs, CallKey
  <2> QED
    BY <2>5, <2>6
<1>2. UNION {{grantKey(c.resource, c.bucket)} \X c.tokens : c \in Good} = UNION {Pairs(c) : c \in Good}
  BY <1>1
<1> QED
  BY <1>2, CallsAsk DEF Desired

LEMMA RevokeCallPairs ==
    ASSUME NEW a, NEW b, NEW T, a = "*" => b = "*"
    PROVE  /\ ~TargetFails(RevokeCall(<<a, b>>, T).resource, RevokeCall(<<a, b>>, T).bucket)
           /\ \A x : x \in Pairs(RevokeCall(<<a, b>>, T)) <=> \E t \in T : x = <<<<a, b>>, t>>
           /\ RevokeCall(<<a, b>>, T).tokens = T
<1>1. PICK c : c = RevokeCall(<<a, b>>, T)
  OBVIOUS
<1>2. /\ c.resource = (IF a = "*" THEN "any" ELSE "bucket") /\ c.tokens = T
      /\ c.bucket = IF a = "*" THEN <<>> ELSE IF b = "*" THEN <<a>> ELSE <<a, b>>
  BY <1>1 DEF RevokeCall
<1>3. CallKey(c.resource, c.bucket) = <<a, b>>
  <2>1. CASE a = "*"
    BY <1>2, <2>1 DEF CallKey
  <2>2. CASE a # "*" /\ b = "*"
    BY <1>2, <2>2, SMTT(30) DEF CallKey
  <2>3. CASE a # "*" /\ b # "*"
    BY <1>2, <2>3, SMTT(30) DEF CallKey
  <2> QED
    BY <2>1, <2>2, <2>3
<1>4. ~TargetFails(c.resource, c.bucket)
  BY <1>2, SMTT(30) DEF TargetFails
<1> QED
  BY <1>1, <1>2, <1>3, <1>4, PairsOf, SMTT(30)

-----------------------------------------------------------------------------
(* Revocation *)

\* What calls take away is what is held and not asked for.
TakeExcess(calls, held, grants) ==
    /\ \A c \in calls : ~TargetFails(c.resource, c.bucket) /\ Pairs(c) \subseteq held \ Asked(grants)
    /\ \A x \in held \ Asked(grants) : \E c \in calls : x \in Pairs(c)

\* From the entries that are held, RevokeCalls makes these calls.
LEMMA RevokesExcess ==
    ASSUME NEW held, \A h \in held : Keyed(h), NEW grants, WellNamed(grants),
           NEW entries, ReadAs(entries, held), NEW calls, calls = RevokeCalls(entries, grants)
    PROVE  TakeExcess(calls, held, grants)
<1> DEFINE Rest(k, T) == {t \in T : <<k, t>> \notin Asked(grants)}
           CallFor(k) == RevokeCall(k, Rest(k, TokensOf(held, k)))
<1>1. ASSUME NEW h \in held PROVE \E a, b, t : h = <<<<a, b>>, t>> /\ (a = "*" => b = "*")
  <2>1. Keyed(h)
    OBVIOUS
  <2>2. PICK a, b, t : h = <<<<a, b>>, t>> /\ (a = "*" => b = "*") /\ a # "" /\ a # "type"
    BY <2>1 DEF Keyed
  <2> QED
    BY <2>2
<1>2. \A c : c \in calls <=> c.tokens # {} /\ \E k \in KeysOf(held) : c = CallFor(k)
  <2> DEFINE Made(e) == RevokeCall(e.key, Rest(e.key, e.tokens))
  <2>1. \A c : c \in calls <=> c.tokens # {} /\ \E e \in entries : c = Made(e)
    BY DesiredIsAsked, SMTT(30) DEF RevokeCalls
  <2>2. ASSUME NEW k \in KeysOf(held) PROVE Made(EntryFor(held, k)) = CallFor(k)
    <3>1. PICK a, b : k = <<a, b>>
      BY <1>1, SMTT(30) DEF KeysOf
    <3>2. <<k[1], k[2]>> = k
      BY <3>1
    <3>3. EntryFor(held, k).key = k /\ EntryFor(held, k).tokens = TokensOf(held, k)
      BY <3>2 DEF EntryFor
    <3> QED
      BY <3>3
  <2> HIDE DEF Made, CallFor
  <2>3. \A c : (\E e \in entries : c = Made(e)) <=> \E k \in KeysOf(held) : c = Made(EntryFor(held, k))
    BY DEF ReadAs
  <2>4. \A c : (\E k \in KeysOf(held) : c = Made(EntryFor(held, k))) <=> \E k \in KeysOf(held) : c = CallFor(k)
    BY <2>2
  <2> QED
    BY <2>1, <2>3, <2>4
<1>3. \A h \in held : h[1] \in KeysOf(held)
  BY DEF KeysOf
<1>4. ASSUME NEW c \in calls
      PROVE  ~TargetFails(c.resource, c.bucket) /\ Pairs(c) \subseteq held \ Asked(grants)
  <2>1. PICK k \in KeysOf(held) : c = CallFor(k)
    BY <1>2
  <2>2. PICK a, b : k = <<a, b>> /\ (a = "*" => b = "*")
    BY <1>1, SMTT(30) DEF KeysOf
  <2>3. PICK T : T = Rest(<<a, b>>, TokensOf(held, k))
    OBVIOUS
  <2>4. c = RevokeCall(<<a, b>>, T)
    BY <2>1, <2>2, <2>3
  <2>5. ASSUME NEW u \in T PROVE <<<<a, b>>, u>> \in held \ Asked(grants)
    <3>1. u \in TokensOf(held, k) /\ <<<<a, b>>, u>> \notin Asked(grants)
      BY <2>3, <2>5
    <3>2. PICK y \in held : y[1] = <<a, b>> /\ y[2] = u
      BY <2>2, <3>1 DEF TokensOf
    <3>3. y = <<<<a, b>>, u>>
      BY <1>1, <3>2, SMTT(30)
    <3> QED
      BY <3>1, <3>2, <3>3
  <2> QED
    BY <2>2, <2>4, <2>5, RevokeCallPairs, SMTT(30)
<1>5. ASSUME NEW x \in held \ Asked(grants) PROVE \E c \in calls : x \in Pairs(c)
  <2>1. PICK a, b, t : x = <<<<a, b>>, t>> /\ (a = "*" => b = "*")
    BY <1>1
  <2>2. PICK k \in KeysOf(held) : k = <<a, b>> /\ x[1] = k /\ x[2] = t
    BY <1>3, <2>1
  <2>3. PICK T : T = Rest(<<a, b>>, TokensOf(held, k))
    OBVIOUS
  <2>4. t \in T
    <3>1. t \in TokensOf(held, k)
      BY <2>2 DEF TokensOf
    <3> QED
      BY <2>1, <2>3, <3>1
  <2>5. PICK c : c = RevokeCall(<<a, b>>, T)
    OBVIOUS
  <2>6. x \in Pairs(c) /\ c.tokens = T
    BY <2>1, <2>4, <2>5, RevokeCallPairs
  <2>7. c = CallFor(k)
    BY <2>2, <2>3, <2>5
  <2>8. c \in calls
    BY <1>2, <2>4, <2>6, <2>7
  <2> QED
    BY <2>6, <2>8
<1> QED
  BY <1>4, <1>5 DEF TakeExcess

\* What grants ask for is read off print-grants.
LEMMA AskedIsRead ==
    ASSUME NEW asked, IsFiniteSet(asked), WellNamed(asked), NEW held \in SUBSET Asked(asked),
           NEW inherited, IsFiniteSet(inherited), NEW w \in Nat \ {0}
    PROVE  /\ \A h \in held : Keyed(h)
           /\ ReadAs(parseDedicatedGrants(PrintGrants(held, inherited, w)), held)
<1>1. \A h \in held : Keyed(h)
  BY AskedIsKeyed
<1>2. Legible(held)
  <2>1. ASSUME NEW h \in held PROVE h[1][1] # "" /\ h[1][1] # "type"
    <3>0. Keyed(h)
      BY <1>1
    <3>1. PICK a, b, t : h = <<<<a, b>>, t>> /\ (a = "*" => b = "*") /\ a # "" /\ a # "type"
      BY <3>0 DEF Keyed
    <3>2. h[1][1] = a
      BY <3>1
    <3> QED
      BY <3>1, <3>2
  <2> QED
    BY <2>1 DEF Legible
<1>3. IsFiniteSet(held)
  BY AskedIsFinite, FS_Subset
<1> QED
  BY <1>1, <1>2, <1>3, PrintedIsRead

(***************************************************************************)
(* parseDedicatedGrants reads off print-grants exactly what a user holds:  *)
(* one entry for each target with all of its tokens, whatever the user     *)
(* inherits from groups, in whatever order print-grants lists them and     *)
(* over however many rows it spreads them (executor.go:460-506).           *)
(***************************************************************************)
THEOREM GrantsAreReadBack ==
    ASSUME NEW asked, IsFiniteSet(asked), WellNamed(asked), NEW held \in SUBSET Asked(asked),
           NEW inherited, IsFiniteSet(inherited), NEW w \in Nat \ {0}
    PROVE  parseDedicatedGrants(PrintGrants(held, inherited, w)) =
             {[key |-> h[1], tokens |-> {x[2] : x \in {y \in held : y[1] = h[1]}}] : h \in held}
<1> DEFINE Of(h) == [key |-> h[1], tokens |-> {x[2] : x \in {y \in held : y[1] = h[1]}}]
           read == parseDedicatedGrants(PrintGrants(held, inherited, w))
<1>1. (\A h \in held : Keyed(h)) /\ ReadAs(read, held)
  BY AskedIsRead
<1>2. ASSUME NEW h \in held PROVE EntryFor(held, h[1]) = Of(h)
  <2>0. Keyed(h)
    BY <1>1
  <2>1. PICK a, b, t : h = <<<<a, b>>, t>> /\ (a = "*" => b = "*") /\ a # "" /\ a # "type"
    BY <2>0 DEF Keyed
  <2>2. <<h[1][1], h[1][2]>> = h[1]
    BY <2>1
  <2> QED
    BY <2>2 DEF EntryFor, TokensOf
<1> HIDE DEF Of, read
<1>3. \A e : (\E k \in KeysOf(held) : e = EntryFor(held, k)) <=> \E h \in held : e = EntryFor(held, h[1])
  BY DEF KeysOf
<1>4. \A e : e \in read <=> \E h \in held : e = Of(h)
  <2>1. \A e : (\E h \in held : e = EntryFor(held, h[1])) <=> \E h \in held : e = Of(h)
    BY <1>2
  <2>2. \A e : e \in read <=> \E k \in KeysOf(held) : e = EntryFor(held, k)
    BY <1>1 DEF ReadAs
  <2> QED
    BY <1>3, <2>1, <2>2
<1>5. read = {Of(h) : h \in held}
  BY <1>4
<1> QED
  BY <1>5 DEF Of, read

(***************************************************************************)
(* GrantUserPermissions revokes exactly the excess: what it reads off      *)
(* print-grants that the spec does not ask for, each of its calls for a    *)
(* target riak-admin accepts, and nothing that the spec does ask for       *)
(* (manager.go:158-222).                                                   *)
(***************************************************************************)
THEOREM RevocationIsExact ==
    ASSUME NEW asked, IsFiniteSet(asked), WellNamed(asked), NEW held \in SUBSET Asked(asked),
           NEW inherited, IsFiniteSet(inherited), NEW w \in Nat \ {0},
           NEW grants, WellNamed(grants)
    PROVE  TakeExcess(RevokeCalls(parseDedicatedGrants(PrintGrants(held, inherited, w)), grants), held, grants)
<1>1. PICK entries : entries = parseDedicatedGrants(PrintGrants(held, inherited, w))
  OBVIOUS
<1>2. (\A h \in held : Keyed(h)) /\ ReadAs(entries, held)
  BY <1>1, AskedIsRead
<1> QED
  BY <1>1, <1>2, RevokesExcess
=============================================================================
