--------------------------- MODULE RollingRestart ---------------------------
(***************************************************************************)
(* What the rolling restart promises (the comment at the head of           *)
(* rollout.go), without passes, caches, partitions or the StatefulSet: a   *)
(* new template restarts nothing by itself; nodes are released one by one  *)
(* from the highest ordinal down, each only when no node above it is on an *)
(* older template; only a released node is restarted; and a node that was  *)
(* restarted never comes back on the older template, while one that was    *)
(* not may fail and come back at any time.                                 *)
(*                                                                         *)
(* Module Rollout implements it.                                           *)
(***************************************************************************)
EXTENDS Integers

CONSTANTS Ordinals, Templates

VARIABLES
    wanted,     \* the template the nodes are to run
    released,   \* ordinals that may be restarted for it
    restarted,  \* ordinals that were
    old         \* ordinals whose node runs on an older one

vars == <<wanted, released, restarted, old>>

Init == /\ wanted \in Templates
        /\ released = {} /\ restarted = {} /\ old = {}

NewTemplate == /\ wanted' \in Templates \ {wanted}
               /\ released' = {} /\ restarted' = {} /\ old' \in SUBSET Ordinals

Release(i) == /\ \A j \in released : i < j
              /\ \A j \in old : j <= i
              /\ released' = released \cup {i}
              /\ UNCHANGED <<wanted, restarted, old>>

Restart(i) == /\ i \in released \cap old
              /\ \A j \in old : j <= i
              /\ restarted' = restarted \cup {i}
              /\ UNCHANGED <<wanted, released, old>>

\* The node is gone; its successor may run on either template.
Leave(i) == old' = old \ {i} /\ UNCHANGED <<wanted, released, restarted>>

ReturnOld(i) == /\ i \notin restarted
                /\ \A j \in released : i <= j
                /\ old' = old \cup {i}
                /\ UNCHANGED <<wanted, released, restarted>>

Next == \/ NewTemplate
        \/ \E i \in Ordinals : Release(i) \/ Restart(i) \/ Leave(i) \/ ReturnOld(i)

Spec == Init /\ [][Next]_vars
=============================================================================
