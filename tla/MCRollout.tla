----------------------------- MODULE MCRollout -----------------------------
\* Rollout for TLC: the constants come from the configurations.
EXTENDS Rollout

(***************************************************************************)
(* What tells states apart when nobody waits for transfers (Waits =        *)
(* {FALSE}) and no property speaks of the phase. Left out: phase, which no *)
(* action reads; busy, which only decides when TransfersFinish resets it;  *)
(* and the snapshot and the target of a pass where it does not use them.   *)
(***************************************************************************)
SafetyView ==
    <<spec, sts, cache, seen, pod, ring, staged, pc, edits, crashes, histVars,
      IF pc = "idle" THEN spec ELSE snap,
      IF pc \in {"probe", "patch"} THEN target ELSE 0>>
=============================================================================
