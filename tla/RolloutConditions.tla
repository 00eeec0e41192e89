------------------------- MODULE RolloutConditions -------------------------
(***************************************************************************)
(* What a rolling restart reports of itself: the conditions                *)
(* UpdateInProgress, RolloutBlocked and RolloutStalled that                *)
(* reconcileRollout keeps in the RiakCluster's status (rollout.go).        *)
(*                                                                         *)
(* The stall clock is not kept anywhere else: it is the time since         *)
(* RolloutBlocked last became True, as the status has it.  The conditions  *)
(* of a pass are recorded by the status write that ends it, and a pass     *)
(* that fails later (at the scrape object) or whose write is refused       *)
(* leaves the old ones, although the node it released restarts.            *)
(*                                                                         *)
(* How a node is chosen and restarted is module Rollout; here the cluster  *)
(* is settled or not, and a release unsettles it.  Times are ages, counted *)
(* up to Timeout + 1.                                                      *)
(***************************************************************************)
EXTENDS Integers

CONSTANTS Nodes,    \* size of the cluster
          Timeout   \* spec.rollout.stallTimeout

ASSUME ConditionsAssumption == Nodes \in Nat \ {0} /\ Timeout \in Nat

VARIABLES
    inProgress, \* the StatefulSet's update revision is not on every pod
    partition,  \* ordinals from here on may restart
    settled,    \* clusterSettled
    paused,     \* spec.rollout.paused
    conds,      \* the conditions on record
    heldFor,    \* history: age of the uninterrupted run of passes that found the
                \* rollout blocked, -1 without one
    unsaid      \* history: a pass went on, and its record still says blocked

vars == <<inProgress, partition, settled, paused, conds, heldFor, unsaid>>

Ages == 0 .. Timeout + 1
NoConds == [update |-> "none", blocked |-> "none", age |-> 0, stalled |-> "none"]

\* One type invariant: RolloutBlocked is absent or True with a reason, and
\* RolloutStalled is there exactly when RolloutBlocked is.
TypeOK ==
    /\ {inProgress, settled, paused, unsaid} \subseteq BOOLEAN
    /\ partition \in 0 .. Nodes
    /\ conds \in [update: {"none", "Waiting", "Restarting", "Finishing"}, age: Ages,
                  blocked: {"none", "Paused", "WaitingForCluster"}, stalled: {"none", "yes", "no"}]
    /\ (conds.blocked = "none") <=> (conds.stalled = "none")
    /\ heldFor \in Ages \cup {-1}

Init == /\ inProgress = FALSE /\ partition = 0 /\ settled \in BOOLEAN /\ paused \in BOOLEAN
        /\ conds = NoConds /\ heldFor = -1 /\ unsaid = FALSE

-----------------------------------------------------------------------------
(* The conditions *)

MutSetBlocked(c, reason) == [c EXCEPT !.blocked = reason, !.age = 0]
\* setCondition(RolloutBlocked, True): its time of transition stands while it
\* is True already, whatever the reason.
SetBlocked(c, reason) ==
    [c EXCEPT !.blocked = reason, !.age = IF c.blocked = "none" THEN 0 ELSE @]

markBlocked(c, reason, canStall) ==
    LET b == SetBlocked(c, reason)
    IN  [b EXCEPT !.update = "Waiting",
                  !.stalled = IF canStall /\ b.age > Timeout THEN "yes" ELSE "no"]

MutClearBlocked(c) == [c EXCEPT !.blocked = "none", !.age = 0]
clearBlocked(c) == [c EXCEPT !.blocked = "none", !.stalled = "none", !.age = 0]
MutClearRolloutConditions(c) == clearBlocked(c)
clearRolloutConditions(c) == [clearBlocked(c) EXCEPT !.update = "none"]

-----------------------------------------------------------------------------
(* The passes *)

Held == inProgress /\ partition > 0 /\ (paused \/ ~settled)
Releases == inProgress /\ partition > 0 /\ ~paused /\ settled

MutOutcome ==
    IF ~inProgress THEN clearRolloutConditions(conds)
    ELSE IF partition = 0 THEN clearBlocked([conds EXCEPT !.update = "Finishing"])
    ELSE IF paused THEN markBlocked(conds, "Paused", FALSE)
    ELSE IF ~settled THEN markBlocked(conds, "WaitingForCluster", TRUE)
    ELSE [conds EXCEPT !.update = "Restarting"]
\* The conditions reconcileRollout leaves in memory
Outcome ==
    IF ~inProgress THEN clearRolloutConditions(conds)
    ELSE IF partition = 0 THEN clearBlocked([conds EXCEPT !.update = "Finishing"])
    ELSE IF paused THEN markBlocked(conds, "Paused", FALSE)
    ELSE IF ~settled THEN markBlocked(conds, "WaitingForCluster", TRUE)
    ELSE clearBlocked([conds EXCEPT !.update = "Restarting"])

Observe(recorded) ==
    /\ heldFor' = IF ~Held THEN -1 ELSE IF heldFor = -1 THEN 0 ELSE heldFor
    /\ unsaid' = IF Held THEN unsaid ELSE ~recorded /\ conds.blocked # "none"

\* One pass, whose status write succeeds or is lost
ReconcileRollout(recorded) ==
    /\ conds' = IF recorded THEN Outcome ELSE conds
    /\ IF Releases THEN partition' = partition - 1 /\ settled' = FALSE
       ELSE UNCHANGED <<partition, settled>>
    /\ Observe(recorded)
    /\ UNCHANGED <<inProgress, paused>>

\* The patch of the StatefulSet, or a read before it, fails: the error is
\* logged and the status is written with the conditions it had, also those
\* that say blocked when the cluster was found settled.
ReconcileRolloutFails ==
    /\ inProgress
    /\ IF Releases THEN Observe(FALSE) ELSE UNCHANGED <<heldFor, unsaid>>
    /\ UNCHANGED <<inProgress, partition, settled, paused, conds>>

-----------------------------------------------------------------------------
(* External: the user, the nodes, time *)

EditTemplate == /\ ~inProgress /\ inProgress' = TRUE /\ partition' = Nodes
                /\ UNCHANGED <<settled, paused, conds, heldFor, unsaid>>
Finish == /\ inProgress /\ partition = 0 /\ settled /\ inProgress' = FALSE
          /\ UNCHANGED <<partition, settled, paused, conds, heldFor, unsaid>>
Pause == paused' = ~paused /\ UNCHANGED <<inProgress, partition, settled, conds, heldFor, unsaid>>
Settle == settled' = ~settled /\ UNCHANGED <<inProgress, partition, paused, conds, heldFor, unsaid>>

Older(age) == IF age \in 0 .. Timeout THEN age + 1 ELSE age
Tick == /\ conds' = [conds EXCEPT !.age = IF conds.blocked = "none" THEN @ ELSE Older(@)]
        /\ heldFor' = Older(heldFor)
        /\ UNCHANGED <<inProgress, partition, settled, paused, unsaid>>

Next == \/ \E recorded \in BOOLEAN : ReconcileRollout(recorded)
        \/ ReconcileRolloutFails
        \/ EditTemplate \/ Finish \/ Pause \/ Settle \/ Tick

Spec == Init /\ [][Next]_vars

\* Passes repeat (RequeueAfter) and, again and again, one ends with its status
\* written; time passes.
FairSpec == Spec /\ WF_vars(ReconcileRollout(TRUE)) /\ WF_vars(Tick)

-----------------------------------------------------------------------------
(* Correctness *)

\* RolloutStalled is only raised for a rollout that every pass of the last
\* stallTimeout found blocked: no restart, no finished rollout and no lost
\* status write in between keeps an old clock running (markBlocked,
\* clearBlocked).  The exception is a pass that went on and could not say so:
\* the clock of the record then still runs.
StalledMeansHeld == conds.stalled = "yes" /\ ~unsaid => heldFor > Timeout

\* A rollout that waits for the cluster for good is reported as stalled and
\* stays so, although status writes are lost, the reasons for waiting
\* alternate and the clock lives in the status only; a pause withdraws a stall
\* that was raised before it, and raises none however long it lasts
\* (markBlocked with canStall true and false).
StallIsReported ==
    /\ <>[](inProgress /\ partition > 0 /\ ~settled /\ ~paused) => <>[](conds.stalled = "yes")
    /\ <>[](inProgress /\ partition > 0 /\ paused) => <>[](conds.stalled = "no")

\* A rollout that is over leaves no condition behind (clearRolloutConditions).
ConditionsCleared == <>[]~inProgress => <>[](conds = NoConds)

=============================================================================
