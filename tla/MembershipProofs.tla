-------------------------- MODULE MembershipProofs --------------------------
(***************************************************************************)
(* Proofs about the forming of the ring, for clusters of any size and any  *)
(* number of resizes, outages and lost disks.                              *)
(***************************************************************************)
EXTENDS Membership, FiniteSetTheorems, TLAPS

\* A leaf is Zenon's unless it names SMT.
USE ZenonT(30)

LEMMA Limits ==
    /\ Seed \in Pods /\ Pods \subseteq Rings /\ Pods \subseteq Nat
    /\ 0 \in 0 .. MaxSize /\ 0 \in 0 .. MaxEdits /\ 0 \in 0 .. MaxOutages /\ 0 \in 0 .. MaxLosses
BY SizeAssumption, LimitsAssumption, SMTT(30) DEF Seed, Pods, Rings

\* Sets of pods are finite, and there are MaxSize pods.
LEMMA PodSets ==
    ASSUME NEW S \in SUBSET Pods
    PROVE  IsFiniteSet(S) /\ Cardinality(S) \in 0 .. MaxSize
<1>1. IsFiniteSet(Pods) /\ Cardinality(Pods) = MaxSize
  BY SizeAssumption, FS_Interval, SMTT(30) DEF Pods
<1>2. IsFiniteSet(S) /\ Cardinality(S) <= Cardinality(Pods)
  BY <1>1, FS_Subset
<1>3. Cardinality(S) \in Nat
  BY <1>2, FS_CardinalityType
<1> QED
  BY <1>1, <1>2, <1>3, SizeAssumption, SMTT(30)

LEMMA AloneType ==
    ASSUME NEW p
    PROVE  Alone(p) \in [Pods -> {"none", "joining", "committed", "valid"}]
BY DEF Alone

LEMMA EndPassType ==
    ASSUME NEW s \in SUBSET Pods, EndPass(s)
    PROVE  /\ pc' \in {"idle", "visit", "plan", "commit"}
           /\ names' \subseteq Pods /\ inRing' \subseteq Pods /\ todo' \subseteq Pods
           /\ valid' \in 0 .. MaxSize /\ joined' \in BOOLEAN /\ status' \subseteq Pods
BY Limits DEF EndPass

-----------------------------------------------------------------------------
(* Type correctness *)

LEMMA InitType == Init => TypeOK
<1> SUFFICES ASSUME Init PROVE TypeOK
  OBVIOUS
<1>1. tab \in [Rings -> [Pods -> {"none", "joining", "committed", "valid"}]]
  BY AloneType DEF Init
<1>2. rid \in [Pods -> Rings]
  BY Limits DEF Init
<1> QED
  BY <1>1, <1>2, Limits DEF Init, TypeOK

\* What the operator does keeps the types.
LEMMA OperatorType == ASSUME TypeOK, Operator PROVE TypeOK'
<1> USE DEF TypeOK
<1>1. ASSUME NEW s \in SUBSET Pods, EndPass(s), UNCHANGED <<size, node, rid, tab, boundVars>>
      PROVE  TypeOK'
  BY <1>1, EndPassType DEF boundVars
<1>2. CASE ReportWithoutRing
  BY <1>1, <1>2 DEF ReportWithoutRing, Up
<1>3. CASE ReadSeed
  <2>1. Members(rid[Seed]) \subseteq Pods /\ Listed \subseteq Pods
    BY DEF Members, Listed
  <2>2. Cardinality(Valid(rid[Seed])) \in 0 .. MaxSize
    BY PodSets DEF Valid
  <2> QED
    BY <1>3, <2>1, <2>2 DEF ReadSeed, boundVars
<1>4. CASE SeedFails
  BY <1>1, <1>4 DEF SeedFails
<1>5. CASE PassFails
  BY <1>1, <1>5 DEF PassFails
<1>6. ASSUME NEW p \in Pods, SkipPeer(p) PROVE TypeOK'
  BY <1>6 DEF SkipPeer, boundVars
<1>7. ASSUME NEW p \in Pods, Stage(p)
      PROVE  /\ rid' \in [Pods -> Rings]
             /\ tab' \in [Rings -> [Pods -> {"none", "joining", "committed", "valid"}]]
  BY <1>7, Limits DEF Stage
<1>8. ASSUME NEW p \in Pods, JoinPeer(p) PROVE TypeOK'
  BY <1>7, <1>8 DEF JoinPeer, boundVars
<1>9. ASSUME NEW p \in Pods, JoinTimesOut(p) PROVE TypeOK'
  <2>1. EndPass({}) /\ Stage(p) /\ UNCHANGED <<size, node, boundVars>>
    BY <1>9 DEF JoinTimesOut
  <2> QED
    BY <1>7, <2>1, EndPassType DEF boundVars
<1>10. CASE VisitDone
  BY <1>10 DEF VisitDone, boundVars
<1>11. CASE Plan
  BY <1>11 DEF Plan, boundVars
<1>12. CASE Commit
  <2>1. tab' \in [Rings -> [Pods -> {"none", "joining", "committed", "valid"}]]
    BY <1>12 DEF Commit
  <2> QED
    BY <1>12, <2>1, EndPassType DEF Commit, boundVars
<1>13. CASE Report
  BY <1>1, <1>13 DEF Report
<1> QED
  BY <1>2, <1>3, <1>4, <1>5, <1>6, <1>8, <1>9, <1>10, <1>11, <1>12, <1>13 DEF Operator

\* So does what happens around it.
LEMMA EnvironmentType == ASSUME TypeOK, Environment PROVE TypeOK'
<1> USE DEF TypeOK
<1>1. ASSUME NEW n \in 1 .. MaxSize, Resize(n) PROVE TypeOK'
  BY <1>1, LimitsAssumption, SMTT(30) DEF Resize, passVars
<1>2. ASSUME NEW p \in Pods, PodUp(p) PROVE TypeOK'
  BY <1>2 DEF PodUp, passVars, boundVars
<1>3. ASSUME NEW p \in Pods, PodDown(p) PROVE TypeOK'
  BY <1>3, LimitsAssumption, SMTT(30) DEF PodDown, passVars
<1>4. ASSUME NEW p \in Pods, PodRemoved(p) PROVE TypeOK'
  BY <1>4 DEF PodRemoved, passVars, boundVars
<1>5. ASSUME NEW p \in Pods, LoseRing(p) PROVE TypeOK'
  <2>1. MaxSize + losses \in Rings /\ losses + 1 \in 0 .. MaxLosses
    BY <1>5, SizeAssumption, LimitsAssumption, SMTT(30) DEF LoseRing, Rings
  <2>2. rid' \in [Pods -> Rings]
    BY <1>5, <2>1 DEF LoseRing
  <2>3. tab' \in [Rings -> [Pods -> {"none", "joining", "committed", "valid"}]]
    BY <1>5, <2>1, AloneType DEF LoseRing
  <2> QED
    BY <1>5, <2>1, <2>2, <2>3 DEF LoseRing, passVars
<1>6. ASSUME NEW p \in Pods, RingSettles(p) PROVE TypeOK'
  BY <1>6 DEF RingSettles, passVars, boundVars
<1> QED
  BY <1>1, <1>2, <1>3, <1>4, <1>5, <1>6 DEF Environment

\* Type correctness: every variable keeps its shape through every call of
\* ReconcileMembership and everything that happens to pods, disks and ring.
THEOREM MembershipTypeCorrect == Spec => []TypeOK
<1>1. TypeOK /\ [Next]_vars => TypeOK'
  <2> SUFFICES ASSUME TypeOK, [Next]_vars PROVE TypeOK'
    OBVIOUS
  <2>1. CASE UNCHANGED vars
    BY <2>1 DEF vars, passVars, boundVars, TypeOK
  <2> QED
    BY <2>1, OperatorType, EnvironmentType DEF Next
<1> QED
  BY <1>1, InitType, PTL DEF Spec

-----------------------------------------------------------------------------
(* The rings *)

\* A ring has at most one member.
Single(r) == \E q \in Pods : Members(r) \subseteq {q}

\* As long as the seed keeps the ring it started with, every other ring is the
\* ring of one node.
SinglesInv == rid[Seed] = Seed => \A r \in Rings \ {Seed} : Single(r)

\* What a pass remembers to have staged is staged, until it commits.
StagedInv == /\ pc \in {"plan", "commit"} => joined
             /\ rid[Seed] = Seed /\ joined => \E p \in Pods : tab[Seed][p] = "joining"

RingInv == SinglesInv /\ StagedInv

\* A step that changes no ring keeps the first invariant, and one that also
\* leaves what a pass has staged keeps both.
LEMMA SameRings ==
    ASSUME RingInv, UNCHANGED <<rid, tab>>
    PROVE  /\ SinglesInv'
           /\ ~joined' /\ pc' \notin {"plan", "commit"} => StagedInv'
           /\ UNCHANGED <<pc, joined>> => StagedInv'
BY SMTT(30) DEF RingInv, SinglesInv, StagedInv, Single, Members

\* A join touches the seed's ring only.
LEMMA StageRings ==
    ASSUME TypeOK, RingInv, NEW p \in Pods, Stage(p)
    PROVE  /\ SinglesInv'
           /\ rid'[Seed] = rid[Seed] /\ tab'[rid[Seed]][p] = "joining"
<1>1. rid[Seed] \in Rings /\ rid'[Seed] = rid[Seed]
  BY Limits DEF TypeOK, Stage
<1>2. tab'[rid[Seed]][p] = "joining" /\ \A r \in Rings \ {rid[Seed]} : tab'[r] = tab[r]
  BY <1>1 DEF TypeOK, Stage
<1> QED
  BY <1>1, <1>2, SMTT(30) DEF RingInv, SinglesInv, Single, Members

LEMMA OperatorRings == ASSUME TypeOK, RingInv, Operator PROVE RingInv'
<1>1. ASSUME NEW s, EndPass(s), UNCHANGED <<rid, tab>> PROVE RingInv'
  BY <1>1, SameRings DEF EndPass, RingInv
<1>2. CASE ReportWithoutRing \/ SeedFails \/ PassFails \/ Report
  BY <1>1, <1>2 DEF ReportWithoutRing, SeedFails, PassFails, Report
<1>3. CASE ReadSeed
  BY <1>3, SameRings DEF ReadSeed, RingInv
<1>4. ASSUME NEW p \in Pods, SkipPeer(p) PROVE RingInv'
  BY <1>4, SameRings DEF SkipPeer, RingInv
<1>5. ASSUME NEW p \in Pods, JoinPeer(p) PROVE RingInv'
  <2>1. Stage(p) /\ pc' = pc
    BY <1>5 DEF JoinPeer
  <2>2. pc = "visit"
    BY <2>1 DEF Stage, Visiting
  <2> QED
    BY <2>1, <2>2, StageRings DEF RingInv, StagedInv
<1>6. ASSUME NEW p \in Pods, JoinTimesOut(p) PROVE RingInv'
  BY <1>6, StageRings DEF JoinTimesOut, EndPass, RingInv, StagedInv
<1>7. CASE VisitDone \/ Plan
  BY <1>7, SameRings DEF VisitDone, Plan, RingInv, StagedInv
<1>8. CASE Commit
  <2>1. /\ rid' = rid /\ pc' = "idle" /\ joined' = FALSE
        /\ \A r \in Rings : Members(r)' = Members(r)
    BY <1>8 DEF Commit, EndPass, TypeOK, Members
  <2> QED
    BY <2>1 DEF RingInv, SinglesInv, StagedInv, Single
<1> QED
  BY <1>2, <1>3, <1>4, <1>5, <1>6, <1>7, <1>8 DEF Operator

LEMMA EnvironmentRings == ASSUME TypeOK, RingInv, Environment PROVE RingInv'
<1>1. ASSUME UNCHANGED <<rid, tab, passVars>> PROVE RingInv'
  BY <1>1, SameRings DEF passVars, RingInv
<1>2. ASSUME NEW p \in Pods, LoseRing(p) PROVE RingInv'
  <2>1. PICK new \in Rings : new = MaxSize + losses /\ new # Seed
    BY <1>2, SizeAssumption, LimitsAssumption, SMTT(30) DEF LoseRing, Rings, Seed, TypeOK
  <2>2. /\ rid' = [rid EXCEPT ![p] = new] /\ tab' = [tab EXCEPT ![new] = Alone(p)]
        /\ UNCHANGED <<pc, joined>>
    BY <1>2, <2>1 DEF LoseRing, passVars
  <2>3. tab'[new] = Alone(p) /\ \A r \in Rings \ {new} : tab'[r] = tab[r]
    BY <2>1, <2>2 DEF TypeOK
  <2>4. Single(new)'
    BY <2>3 DEF Single, Members, Alone
  <2>5. rid'[Seed] = Seed => rid[Seed] = Seed
    BY <2>1, <2>2, Limits DEF TypeOK
  <2>6. SinglesInv'
    BY <2>3, <2>4, <2>5 DEF RingInv, SinglesInv, Single, Members
  <2>7. StagedInv'
    BY <2>1, <2>2, <2>3, <2>5, Limits DEF RingInv, StagedInv
  <2> QED
    BY <2>6, <2>7 DEF RingInv
<1>3. ASSUME NEW p \in Pods, RingSettles(p) PROVE RingInv'
  <2>1. /\ UNCHANGED <<rid, pc, joined>>
        /\ \A r \in Rings, q \in Pods :
             /\ tab'[r][q] = "none" <=> tab[r][q] = "none"
             /\ tab[r][q] = "joining" => tab'[r][q] = "joining"
    BY <1>3 DEF RingSettles, passVars, TypeOK
  <2>2. \A r \in Rings : Members(r)' = Members(r)
    BY <2>1 DEF Members
  <2>3. SinglesInv'
    BY <2>1, <2>2 DEF RingInv, SinglesInv, Single
  <2>4. StagedInv'
    BY <2>1, Limits DEF RingInv, StagedInv
  <2> QED
    BY <2>3, <2>4 DEF RingInv
<1> QED
  BY <1>1, <1>2, <1>3 DEF Environment, Resize, PodUp, PodDown, PodRemoved

LEMMA RingsInvariant == Spec => []RingInv
<1>1. Init => RingInv
  <2> SUFFICES ASSUME Init PROVE RingInv
    OBVIOUS
  <2>1. ASSUME NEW r \in Rings PROVE Single(r)
    BY Limits DEF Init, Single, Members, Alone
  <2> QED
    BY <2>1 DEF Init, RingInv, SinglesInv, StagedInv
<1>2. TypeOK /\ RingInv /\ [Next]_vars => RingInv'
  <2> SUFFICES ASSUME TypeOK, RingInv, [Next]_vars PROVE RingInv'
    OBVIOUS
  <2>1. CASE UNCHANGED vars
    BY <2>1, SameRings DEF vars, passVars, RingInv
  <2> QED
    BY <2>1, OperatorRings, EnvironmentRings DEF Next
<1> QED
  BY <1>1, <1>2, MembershipTypeCorrect, PTL DEF Spec

\* For every size and whatever fails, is lost or resized, ReconcileMembership
\* makes no second ring of several nodes while the seed keeps its ring.
THEOREM OnlyOneRing == Spec => []OneRing
<1>1. TypeOK /\ RingInv => OneRing
  <2> SUFFICES ASSUME TypeOK, RingInv, rid[Seed] = Seed,
                      NEW p \in Pods, Cardinality(Members(rid[p])) > 1, rid[p] # Seed
               PROVE  FALSE
    BY DEF OneRing
  <2>1. PICK q \in Pods : Members(rid[p]) \subseteq {q}
    BY DEF TypeOK, RingInv, SinglesInv, Single
  <2>2. Cardinality({q}) = 1 /\ IsFiniteSet({q})
    BY FS_Singleton
  <2>3. Cardinality(Members(rid[p])) <= 1
    BY <2>1, <2>2, FS_Subset
  <2>4. Cardinality(Members(rid[p])) \in Nat
    BY PodSets, SMTT(30) DEF Members
  <2> QED
    BY <2>3, <2>4, SMTT(30)
<1> QED
  BY <1>1, MembershipTypeCorrect, RingsInvariant, PTL

\* For every size, a plan or commit is made only for a join that is staged.
THEOREM OnlyStagedCommits == Spec => []CommitsStaged
<1>1. RingInv => CommitsStaged
  BY DEF RingInv, StagedInv, CommitsStaged
<1> QED
  BY <1>1, RingsInvariant, PTL

-----------------------------------------------------------------------------
(* Ready *)

LEMMA TwoMembers ==
    ASSUME NEW S \in SUBSET Pods, NEW p \in S, NEW q \in S, p # q
    PROVE  Cardinality(S) # 1
<1>1. Cardinality({p}) = 1 /\ IsFiniteSet({p})
  BY FS_Singleton
<1>2. Cardinality({p} \cup {q}) = 2
  BY <1>1, FS_AddElement, SMTT(30)
<1>3. Cardinality({p} \cup {q}) <= Cardinality(S)
  BY PodSets, FS_Subset
<1>4. Cardinality(S) \in Nat
  BY PodSets, SMTT(30)
<1> QED
  BY <1>2, <1>3, <1>4, SMTT(30)

\* No disk was lost and the cluster never made smaller.
Kept == losses = 0 /\ ~lowered

\* Then the seed's ring holds no stranger: its members hold that ring
\* themselves and are, like all pods, below spec.size.
NoStrangers == /\ rid[Seed] = Seed /\ tab[Seed][Seed] # "none"
               /\ \A p \in Pods : tab[Seed][p] # "none" => rid[p] = Seed /\ p < size
               /\ \A p \in Pods : node[p] # "absent" => p < size

\* So a count that equals the number of pods is the count of these pods, for
\* the pass under way and for what was reported.
CountsAreSets ==
    /\ pc # "idle" => todo \subseteq names \ {Seed}
    /\ pc # "idle" /\ valid = Cardinality(names) => \A p \in names : tab[Seed][p] = "valid"
    /\ Cardinality(status) > 1 => \A p \in status : tab[Seed][p] = "valid"

ReadyInv == Kept => NoStrangers /\ CountsAreSets

\* Members that were valid stay so.
LEMMA ValidStays ==
    ASSUME TypeOK, CountsAreSets,
           \A p \in Pods : tab[Seed][p] = "valid" => tab'[Seed][p] = "valid",
           \/ UNCHANGED passVars
           \/ EndPass(status) \/ EndPass({})
    PROVE  CountsAreSets'
<1>1. Cardinality({}) = 0
  BY FS_EmptySet
<1>2. CASE UNCHANGED passVars
  BY <1>2 DEF CountsAreSets, passVars, TypeOK
<1>3. CASE EndPass(status)
  BY <1>3 DEF CountsAreSets, EndPass, TypeOK
<1>4. CASE EndPass({})
  BY <1>1, <1>4 DEF CountsAreSets, EndPass, TypeOK
<1> QED
  BY <1>2, <1>3, <1>4

\* A node that is joined was no valid member.
LEMMA StageReady ==
    ASSUME TypeOK, Kept, NoStrangers, CountsAreSets, NEW p \in Pods, Stage(p),
           UNCHANGED <<size, node>>
    PROVE  /\ NoStrangers'
           /\ \A q \in Pods : tab[Seed][q] = "valid" => tab'[Seed][q] = "valid"
<1>1. p # Seed /\ node[p] = "up" /\ Cardinality(Members(rid[p])) = 1
  BY DEF CountsAreSets, Stage, Visiting, Standalone
<1>2. /\ rid' = [rid EXCEPT ![p] = Seed]
      /\ tab' = [tab EXCEPT ![Seed][p] = "joining"]
  BY DEF Stage, NoStrangers
<1>3. tab[Seed][p] # "valid"
  <2> SUFFICES ASSUME tab[Seed][p] = "valid" PROVE FALSE
    OBVIOUS
  <2>1. rid[p] = Seed /\ {p, Seed} \subseteq Members(Seed) /\ Members(Seed) \subseteq Pods
    BY Limits DEF NoStrangers, Members
  <2> QED
    BY <1>1, <2>1, TwoMembers
<1>4. NoStrangers'
  BY <1>1, <1>2, Limits DEF NoStrangers, TypeOK
<1> QED
  BY <1>2, <1>3, <1>4, Limits DEF TypeOK

\* When as many pods are up as the size asks for, they are the pods of the
\* cluster, and as many valid members are those pods.
LEMMA ReadSeedReady ==
    ASSUME TypeOK, NoStrangers, AllReady
    PROVE  /\ Up = Listed
           /\ Cardinality(Valid(Seed)) = Cardinality(Listed) => Valid(Seed) = Listed
<1> DEFINE Below == 0 .. size - 1
<1>1. IsFiniteSet(Below) /\ Cardinality(Below) = size
  BY FS_Interval, SMTT(30) DEF TypeOK
<1>2. Up \subseteq Below /\ Listed \subseteq Below /\ Valid(Seed) \subseteq Below
  <2>1. \A p \in Pods : p < size => p \in Below
    BY Limits, SMTT(30) DEF TypeOK
  <2>2. \A p \in Up \cup Listed \cup Valid(Seed) : p \in Pods /\ p < size
    BY DEF Up, Listed, Valid, NoStrangers
  <2> QED
    BY <2>1, <2>2
<1>3. Up = Below
  BY <1>1, <1>2, FS_Subset DEF AllReady
<1>4. Up \subseteq Listed
  BY DEF Up, Listed
<1>5. Listed = Below
  BY <1>2, <1>3, <1>4
<1>6. Cardinality(Valid(Seed)) = size => Valid(Seed) = Below
  BY <1>1, <1>2, FS_Subset
<1> QED
  BY <1>1, <1>3, <1>5, <1>6

LEMMA OperatorReady == ASSUME TypeOK, ReadyInv, Operator PROVE ReadyInv'
<1> SUFFICES ASSUME Kept' PROVE NoStrangers' /\ CountsAreSets'
  BY DEF ReadyInv
<1>1. Kept /\ NoStrangers /\ CountsAreSets
  BY SMTT(30) DEF ReadyInv, Kept, Operator, ReportWithoutRing, ReadSeed, SeedFails, PassFails, SkipPeer,
         JoinPeer, JoinTimesOut, VisitDone, Plan, Commit, Report, boundVars
<1>2. ASSUME UNCHANGED <<size, node, rid, tab>> PROVE NoStrangers'
  BY <1>1, <1>2 DEF NoStrangers
<1>3. CASE ReportWithoutRing
  <2>1. CASE AllReady /\ size = 1
    <3>1. pc' = "idle" /\ Cardinality(status') = 1
      BY <1>3, <2>1 DEF ReportWithoutRing, EndPass, AllReady
    <3> QED
      BY <1>2, <1>3, <3>1, SMTT(30) DEF ReportWithoutRing, CountsAreSets
  <2>2. CASE ~AllReady
    BY <1>1, <1>2, <1>3, <2>2, ValidStays DEF ReportWithoutRing
  <2> QED
    BY <1>3, <2>1, <2>2 DEF ReportWithoutRing
<1>4. CASE ReadSeed
  <2>1. /\ AllReady /\ pc' = "visit" /\ names' = Listed /\ todo' = Listed \ {Seed}
        /\ valid' = Cardinality(Valid(Seed)) /\ UNCHANGED <<size, node, rid, tab, status>>
    BY <1>1, <1>4 DEF ReadSeed, NoStrangers
  <2>2. valid' = Cardinality(names') => \A p \in names' : tab[Seed][p] = "valid"
    BY <1>1, <2>1, ReadSeedReady DEF Valid
  <2> QED
    BY <1>1, <1>2, <2>1, <2>2 DEF CountsAreSets
<1>5. CASE SeedFails \/ PassFails
  BY <1>1, <1>2, <1>5, ValidStays DEF SeedFails, PassFails
<1>6. ASSUME NEW p \in Pods, SkipPeer(p) PROVE NoStrangers' /\ CountsAreSets'
  BY <1>1, <1>2, <1>6 DEF SkipPeer, CountsAreSets
<1>7. ASSUME NEW p \in Pods, JoinPeer(p) PROVE NoStrangers' /\ CountsAreSets'
  <2>1. NoStrangers' /\ \A q \in Pods : tab[Seed][q] = "valid" => tab'[Seed][q] = "valid"
    BY <1>1, <1>7, StageReady DEF JoinPeer
  <2>2. UNCHANGED <<pc, names, valid, status>> /\ todo' \subseteq todo
    BY <1>7 DEF JoinPeer
  <2> QED
    BY <1>1, <2>1, <2>2 DEF CountsAreSets, TypeOK
<1>8. ASSUME NEW p \in Pods, JoinTimesOut(p) PROVE NoStrangers' /\ CountsAreSets'
  BY <1>1, <1>8, StageReady, ValidStays DEF JoinTimesOut
<1>9. CASE VisitDone \/ Plan
  BY <1>1, <1>2, <1>9 DEF VisitDone, Plan, CountsAreSets
<1>10. CASE Commit
  <2>1. /\ UNCHANGED <<size, node, rid>>
        /\ \A q \in Pods : /\ tab'[Seed][q] = "none" <=> tab[Seed][q] = "none"
                           /\ tab[Seed][q] = "valid" => tab'[Seed][q] = "valid"
    BY <1>1, <1>10, Limits DEF Commit, TypeOK, NoStrangers
  <2> QED
    BY <1>1, <1>10, <2>1, ValidStays, Limits DEF Commit, NoStrangers
<1>11. CASE Report
  <2>1. CASE valid = Cardinality(names)
    <3>1. pc' = "idle" /\ status' = names /\ UNCHANGED tab
      BY <1>11, <2>1 DEF Report, EndPass
    <3>2. \A p \in names : tab[Seed][p] = "valid"
      BY <1>1, <1>11, <2>1 DEF CountsAreSets, Report
    <3> QED
      BY <1>2, <1>11, <3>1, <3>2 DEF Report, CountsAreSets
  <2>2. CASE valid # Cardinality(names)
    BY <1>1, <1>2, <1>11, <2>2, ValidStays DEF Report
  <2> QED
    BY <2>1, <2>2
<1> QED
  BY <1>3, <1>4, <1>5, <1>6, <1>7, <1>8, <1>9, <1>10, <1>11 DEF Operator

LEMMA EnvironmentReady == ASSUME TypeOK, ReadyInv, Environment PROVE ReadyInv'
<1> SUFFICES ASSUME Kept' PROVE NoStrangers' /\ CountsAreSets'
  BY DEF ReadyInv
<1>1. ASSUME NEW n \in 1 .. MaxSize, Resize(n) PROVE NoStrangers' /\ CountsAreSets'
  <2>1. Kept /\ size <= size' /\ UNCHANGED <<node, rid, tab, passVars>>
    <3>1. Kept /\ ~(n < size) /\ size' = n /\ UNCHANGED <<node, rid, tab, passVars>>
      BY <1>1 DEF Kept, Resize
    <3> QED
      BY <3>1, SizeAssumption, SMTT(30) DEF TypeOK
  <2>2. NoStrangers'
    <3>1. \A p \in Pods : p < size => p < size'
      BY <1>1, <2>1, Limits, SMTT(30) DEF TypeOK, Resize
    <3> QED
      BY <2>1, <3>1 DEF ReadyInv, NoStrangers
  <2> QED
    BY <2>1, <2>2, ValidStays DEF ReadyInv
<1>2. ASSUME NEW p \in Pods, PodUp(p) \/ PodDown(p) \/ PodRemoved(p)
      PROVE  NoStrangers' /\ CountsAreSets'
  <2>1. Kept /\ UNCHANGED <<size, rid, tab, passVars>>
    BY <1>2, SMTT(30) DEF Kept, PodUp, PodDown, PodRemoved, boundVars
  <2>2. \A q \in Pods : node'[q] # "absent" => q < size
    BY <1>2, <2>1 DEF PodUp, PodDown, PodRemoved, ReadyInv, NoStrangers, TypeOK
  <2> QED
    BY <2>1, <2>2, ValidStays DEF ReadyInv, NoStrangers
<1>3. ASSUME NEW p \in Pods, LoseRing(p) PROVE FALSE
  BY <1>3, SMTT(30) DEF LoseRing, Kept, TypeOK
<1>4. ASSUME NEW p \in Pods, RingSettles(p) PROVE NoStrangers' /\ CountsAreSets'
  <2>1. /\ Kept /\ UNCHANGED <<size, node, rid, passVars>>
        /\ \A q \in Pods : /\ tab'[Seed][q] = "none" <=> tab[Seed][q] = "none"
                           /\ tab[Seed][q] = "valid" => tab'[Seed][q] = "valid"
    BY <1>4, Limits DEF RingSettles, TypeOK, Kept, boundVars
  <2> QED
    BY <2>1, ValidStays, Limits DEF ReadyInv, NoStrangers
<1> QED
  BY <1>1, <1>2, <1>3, <1>4 DEF Environment

\* For every size: while no disk is lost and the size is not lowered, Ready is
\* reported only for pods that are valid members of the seed's ring, although
\* ReconcileMembership compares two numbers read at different times.
THEOREM ReadyIsMembership == Spec => []ReadyUnlessLost
<1>1. Init => ReadyInv
  <2> SUFFICES ASSUME Init PROVE NoStrangers /\ CountsAreSets
    BY DEF ReadyInv
  <2>1. Cardinality({}) = 0
    BY FS_EmptySet
  <2>2. size \in Nat /\ 0 < size
    BY SizeAssumption, SMTT(30) DEF Init
  <2>3. \A p \in Pods : tab[Seed][p] = IF p = Seed THEN "valid" ELSE "none"
    BY Limits DEF Init, Alone
  <2>4. NoStrangers
    BY <2>2, <2>3, Limits DEF Init, NoStrangers, Seed
  <2> QED
    BY <2>1, <2>4 DEF Init, CountsAreSets
<1>2. TypeOK /\ ReadyInv /\ [Next]_vars => ReadyInv'
  <2> SUFFICES ASSUME TypeOK, ReadyInv, [Next]_vars PROVE ReadyInv'
    OBVIOUS
  <2>1. CASE UNCHANGED vars
    BY <2>1 DEF vars, passVars, boundVars, ReadyInv, Kept, NoStrangers, CountsAreSets
  <2> QED
    BY <2>1, OperatorReady, EnvironmentReady DEF Next
<1>3. TypeOK /\ ReadyInv => ReadyUnlessLost
  BY DEF TypeOK, ReadyInv, Kept, NoStrangers, CountsAreSets, ReadyUnlessLost, ReadyMeansMembers
<1> QED
  BY <1>1, <1>2, <1>3, MembershipTypeCorrect, PTL DEF Spec

=============================================================================
