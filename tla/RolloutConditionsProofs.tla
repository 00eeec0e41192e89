---------------------- MODULE RolloutConditionsProofs ----------------------
(***************************************************************************)
(* Proofs about the conditions of a rolling restart, for every size of the *)
(* cluster and every stallTimeout.                                         *)
(***************************************************************************)
EXTENDS RolloutConditions, TLAPS

\* A leaf is SMT's unless it names Zenon.
USE SMTT(30)

(***************************************************************************)
(* The clock on record is never ahead of the run of blocked passes it      *)
(* stands for, unless a pass that went on could not say so; and a stall on *)
(* record has outlived the timeout.                                        *)
(***************************************************************************)
ClockInv ==
    /\ conds.blocked # "none" /\ ~unsaid => heldFor >= conds.age
    /\ conds.stalled = "yes" => conds.age > Timeout
CInv == TypeOK /\ ClockInv

Conds == [update: {"none", "Waiting", "Restarting", "Finishing"}, age: Ages,
          blocked: {"none", "Paused", "WaitingForCluster"}, stalled: {"none", "yes", "no"}]

\* What clearBlocked and clearRolloutConditions leave
LEMMA ClearedConds ==
    ASSUME NEW c \in Conds
    PROVE  /\ clearBlocked(c) \in Conds
           /\ clearBlocked(c).blocked = "none" /\ clearBlocked(c).stalled = "none"
           /\ clearRolloutConditions(c) \in Conds
           /\ clearRolloutConditions(c).blocked = "none"
           /\ clearRolloutConditions(c).stalled = "none"
<1>1. 0 \in Ages
  BY ConditionsAssumption DEF Ages
<1> QED
  BY <1>1, ZenonT(30) DEF Conds, clearBlocked, clearRolloutConditions

\* What markBlocked leaves: the clock stands, or starts when none was running.
LEMMA BlockedConds ==
    ASSUME NEW c \in Conds, NEW reason \in {"Paused", "WaitingForCluster"},
           NEW canStall \in BOOLEAN
    PROVE  LET d == markBlocked(c, reason, canStall)
           IN  /\ d \in Conds
               /\ d.blocked = reason /\ d.stalled \in {"yes", "no"}
               /\ d.age = IF c.blocked = "none" THEN 0 ELSE c.age
               /\ d.stalled = "yes" => d.age > Timeout
<1>1. 0 \in Ages
  BY ConditionsAssumption DEF Ages
<1> QED
  BY <1>1, ZenonT(30) DEF Conds, markBlocked, SetBlocked

\* What one pass leaves in memory: nothing about a block unless the rollout is
\* held, and then the old clock or a new one.
LEMMA OutcomeConds ==
    ASSUME TypeOK
    PROVE  /\ Outcome \in Conds
           /\ (Outcome.blocked = "none") <=> (Outcome.stalled = "none")
           /\ ~Held => Outcome.blocked = "none"
           /\ Held => Outcome.age = IF conds.blocked = "none" THEN 0 ELSE conds.age
           /\ Outcome.stalled = "yes" => Outcome.age > Timeout
<1> USE DEF TypeOK
<1>1. conds \in Conds /\ [conds EXCEPT !.update = "Finishing"] \in Conds
      /\ [conds EXCEPT !.update = "Restarting"] \in Conds
  BY DEF Conds
<1>2. CASE ~inProgress
  BY <1>1, <1>2, ClearedConds DEF Outcome, Held
<1>3. CASE inProgress /\ partition = 0
  BY <1>1, <1>3, ClearedConds DEF Outcome, Held
<1>4. CASE inProgress /\ partition # 0 /\ paused
  <2> DEFINE d == markBlocked(conds, "Paused", FALSE)
  <2>1. Outcome = d /\ Held
    BY <1>4 DEF Outcome, Held
  <2>2. /\ d \in Conds /\ d.blocked = "Paused" /\ d.stalled \in {"yes", "no"}
        /\ d.age = IF conds.blocked = "none" THEN 0 ELSE conds.age
        /\ d.stalled = "yes" => d.age > Timeout
    BY <1>1, BlockedConds, ZenonT(30)
  <2> HIDE DEF d
  <2> QED
    BY <2>1, <2>2
<1>5. CASE inProgress /\ partition # 0 /\ ~paused /\ ~settled
  <2> DEFINE d == markBlocked(conds, "WaitingForCluster", TRUE)
  <2>1. Outcome = d /\ Held
    BY <1>5 DEF Outcome, Held
  <2>2. /\ d \in Conds /\ d.blocked = "WaitingForCluster" /\ d.stalled \in {"yes", "no"}
        /\ d.age = IF conds.blocked = "none" THEN 0 ELSE conds.age
        /\ d.stalled = "yes" => d.age > Timeout
    BY <1>1, BlockedConds, ZenonT(30)
  <2> HIDE DEF d
  <2> QED
    BY <2>1, <2>2
<1>6. CASE inProgress /\ partition # 0 /\ ~paused /\ settled
  BY <1>1, <1>6, ClearedConds DEF Outcome, Held
<1> QED
  BY <1>2, <1>3, <1>4, <1>5, <1>6

LEMMA AgeFacts ==
    /\ 0 \in Ages /\ \A a \in Ages : a \in Int /\ a >= 0 /\ a <= Timeout + 1
    /\ \A a \in Ages : Older(a) \in Ages /\ Older(a) >= a
    /\ Older(-1) = -1
    /\ \A a, b \in Ages : a >= b => Older(a) >= Older(b)
BY ConditionsAssumption DEF Ages, Older

LEMMA TypeParts ==
    TypeOK <=> /\ inProgress \in BOOLEAN /\ settled \in BOOLEAN
               /\ paused \in BOOLEAN /\ unsaid \in BOOLEAN
               /\ partition \in 0 .. Nodes /\ conds \in Conds
               /\ (conds.blocked = "none") <=> (conds.stalled = "none")
               /\ heldFor \in Ages \cup {-1}
BY DEF TypeOK, Conds

LEMMA InitClock == Init => CInv
<1> SUFFICES ASSUME Init PROVE CInv
  OBVIOUS
<1>1. conds \in Conds /\ conds.blocked = "none" /\ conds.stalled = "none"
  BY AgeFacts DEF Init, NoConds, Conds
<1>2. partition \in 0 .. Nodes
  BY ConditionsAssumption DEF Init
<1>3. TypeOK
  BY <1>1, <1>2, TypeParts, ZenonT(30) DEF Init
<1> QED
  BY <1>1, <1>3 DEF CInv, ClockInv

\* A pass that finds the rollout held starts or keeps its run, any other ends it.
LEMMA PassClock ==
    ASSUME CInv, NEW recorded \in BOOLEAN, ReconcileRollout(recorded)
    PROVE  CInv'
<1>1. /\ Outcome \in Conds
      /\ (Outcome.blocked = "none") <=> (Outcome.stalled = "none")
      /\ ~Held => Outcome.blocked = "none"
      /\ Held => Outcome.age = IF conds.blocked = "none" THEN 0 ELSE conds.age
      /\ Outcome.stalled = "yes" => Outcome.age > Timeout
  BY OutcomeConds DEF CInv
<1>2. conds' = IF recorded THEN Outcome ELSE conds
  BY DEF ReconcileRollout
<1>3. partition' \in 0 .. Nodes
  <2>1. CASE Releases
    BY <2>1, ConditionsAssumption DEF CInv, TypeOK, Releases, ReconcileRollout
  <2>2. CASE ~Releases
    BY <2>2 DEF CInv, TypeOK, ReconcileRollout
  <2> QED
    BY <2>1, <2>2
<1>4. /\ heldFor' = IF ~Held THEN -1 ELSE IF heldFor = -1 THEN 0 ELSE heldFor
      /\ unsaid' = IF Held THEN unsaid ELSE ~recorded /\ conds.blocked # "none"
  BY DEF ReconcileRollout, Observe
<1>5. inProgress' \in BOOLEAN /\ settled' \in BOOLEAN /\ paused' \in BOOLEAN /\ unsaid' \in BOOLEAN
  BY <1>4, TypeParts, ZenonT(30) DEF ReconcileRollout, CInv
<1>6. heldFor' \in Ages \cup {-1}
  BY <1>4, AgeFacts DEF CInv, TypeOK
<1>7. /\ conds' \in Conds
      /\ (conds'.blocked = "none") <=> (conds'.stalled = "none")
  BY <1>1, <1>2, TypeParts DEF CInv
<1>8. TypeOK'
  <2>1. {inProgress', settled', paused', unsaid'} \subseteq BOOLEAN
    BY <1>5
  <2> QED
    BY <1>3, <1>6, <1>7, <2>1 DEF TypeOK, Conds
<1>9. conds'.stalled = "yes" => conds'.age > Timeout
  BY <1>1, <1>2 DEF CInv, ClockInv
<1>10. ASSUME conds'.blocked # "none", ~unsaid' PROVE heldFor' >= conds'.age
  <2>1. Held
    BY <1>1, <1>2, <1>4, <1>10, ZenonT(30)
  <2>2. ~unsaid /\ heldFor' = IF heldFor = -1 THEN 0 ELSE heldFor
    BY <2>1, <1>4, <1>10
  <2>3. conds.blocked # "none" => heldFor >= conds.age
    BY <2>2 DEF CInv, ClockInv
  <2>4. conds'.age = 0 \/ (conds.blocked # "none" /\ conds'.age = conds.age)
    BY <2>1, <1>1, <1>2, <1>10
  <2>5. conds.age \in Ages /\ heldFor \in Ages \cup {-1}
    BY DEF CInv, TypeOK
  <2> QED
    BY <2>2, <2>3, <2>4, <2>5, AgeFacts
<1> QED
  BY <1>8, <1>9, <1>10 DEF CInv, ClockInv

LEMMA FailClock ==
    ASSUME CInv, ReconcileRolloutFails
    PROVE  CInv'
<1>1. CASE Releases
  <2>1. ~Held
    BY <1>1 DEF Releases, Held
  <2>2. heldFor' = -1 /\ unsaid' = (conds.blocked # "none")
    BY <1>1, <2>1 DEF ReconcileRolloutFails, Observe
  <2>3. TypeOK'
    BY <2>2 DEF ReconcileRolloutFails, CInv, TypeOK
  <2> QED
    BY <2>2, <2>3, ZenonT(30) DEF ReconcileRolloutFails, CInv, ClockInv
<1>2. CASE ~Releases
  BY <1>2 DEF ReconcileRolloutFails, CInv, TypeOK, ClockInv
<1> QED
  BY <1>1, <1>2

\* Both clocks advance together, up to the same bound.
LEMMA TickClock ==
    ASSUME CInv, Tick
    PROVE  CInv'
<1> DEFINE aged == IF conds.blocked = "none" THEN conds.age ELSE Older(conds.age)
<1>1. conds \in Conds /\ conds.age \in Ages /\ heldFor \in Ages \cup {-1}
  BY DEF CInv, TypeOK, Conds
<1>2. conds' = [conds EXCEPT !.age = aged] /\ heldFor' = Older(heldFor)
  BY DEF Tick
<1>3. aged \in Ages /\ aged >= conds.age
  BY <1>1, AgeFacts
<1>4. conds.blocked # "none" => aged = Older(conds.age)
  OBVIOUS
<1> HIDE DEF aged
<1>5. /\ conds'.age = aged /\ conds'.blocked = conds.blocked
      /\ conds'.stalled = conds.stalled /\ conds' \in Conds
  BY <1>1, <1>2, <1>3 DEF Conds
<1>6. heldFor' \in Ages \cup {-1}
  BY <1>1, <1>2, AgeFacts
<1>7. TypeOK'
  BY <1>5, <1>6 DEF Tick, CInv, TypeOK, Conds
<1>8. conds'.stalled = "yes" => conds'.age > Timeout
  BY <1>1, <1>3, <1>5, AgeFacts, ConditionsAssumption DEF CInv, ClockInv
<1>9. ASSUME conds'.blocked # "none", ~unsaid' PROVE heldFor' >= conds'.age
  <2>1. conds.blocked # "none" /\ ~unsaid
    BY <1>5, <1>9 DEF Tick
  <2>2. heldFor >= conds.age
    BY <2>1 DEF CInv, ClockInv
  <2>3. heldFor \in Ages
    BY <1>1, <2>2, AgeFacts
  <2> QED
    BY <1>1, <1>2, <1>4, <1>5, <2>1, <2>2, <2>3, AgeFacts
<1> QED
  BY <1>7, <1>8, <1>9 DEF CInv, ClockInv

LEMMA StepClock == CInv /\ [Next]_vars => CInv'
<1> SUFFICES ASSUME CInv, [Next]_vars PROVE CInv'
  OBVIOUS
<1>1. ASSUME NEW recorded \in BOOLEAN, ReconcileRollout(recorded) PROVE CInv'
  BY <1>1, PassClock
<1>2. CASE ReconcileRolloutFails
  BY <1>2, FailClock
<1>3. CASE EditTemplate
  BY <1>3, ConditionsAssumption DEF EditTemplate, CInv, TypeOK, ClockInv
<1>4. CASE Finish \/ Pause \/ Settle
  BY <1>4, ZenonT(30) DEF Finish, Pause, Settle, CInv, TypeOK, ClockInv
<1>5. CASE Tick
  BY <1>5, TickClock
<1>6. CASE UNCHANGED vars
  BY <1>6 DEF vars, CInv, TypeOK, ClockInv
<1> QED
  BY <1>1, <1>2, <1>3, <1>4, <1>5, <1>6 DEF Next

\* Type correctness of the conditions: RolloutStalled is on record exactly
\* when RolloutBlocked is (markBlocked, clearBlocked), for every size and
\* timeout.
THEOREM ConditionsTypeCorrect == Spec => []TypeOK
<1>1. CInv => TypeOK
  BY DEF CInv
<1> QED
  BY <1>1, InitClock, StepClock, PTL DEF Spec

\* RolloutStalled is only raised for a rollout that every pass of the last
\* stallTimeout found blocked, for every size of the cluster and every
\* timeout, unless a pass that went on could not record it (markBlocked,
\* setCondition).
THEOREM StallsAreHeld == Spec => []StalledMeansHeld
<1>1. CInv => StalledMeansHeld
  <2> SUFFICES ASSUME CInv, conds.stalled = "yes", ~unsaid PROVE heldFor > Timeout
    BY DEF StalledMeansHeld
  <2>1. conds.blocked # "none"
    BY DEF CInv, TypeOK
  <2>2. heldFor >= conds.age /\ conds.age > Timeout
    BY <2>1 DEF CInv, ClockInv
  <2> QED
    BY <2>2, ConditionsAssumption DEF CInv, TypeOK, Ages
<1> QED
  BY <1>1, InitClock, StepClock, PTL DEF Spec

=============================================================================
