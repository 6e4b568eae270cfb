----------------------------- MODULE HelperLoop -----------------------------
(***************************************************************************)
(* The whole helper PLL (softpll/spll_helper.c): the tag bookkeeping of    *)
(* HelperTags feeds one error sample after another to the regulator of     *)
(* PiController and to the detector of LockDetector.  Each component keeps *)
(* its own actions; an action of the loop is the conjunction of those that *)
(* one call of helper_start or helper_update takes.  The clock is open: it *)
(* may drift in any way, whatever the DAC says.                            *)
(***************************************************************************)
EXTENDS HelperTags, PiController, LockDetector

CONSTANT Threshold   \* ld.threshold

ASSUME LoopAssumption ==
  /\ Threshold \in Nat
  /\ Threshold < ErrorClamp   \* 200 and 150000
  /\ ErrorClamp <= MaxErr

LoopVars == <<HtVars, pi, LdVars>>

WithinThreshold(err) == -Threshold <= err /\ err <= Threshold

LoopInit == HtInit /\ PiInit /\ LdInit

\* helper_start.
Start == Restart /\ Rewind /\ Reset

\* helper_update on the first tag returns before the regulator.
First(tag) == FirstTag(tag) /\ UNCHANGED <<pi, LdVars>>

\* helper_update on every other tag: pi_update, then ld_update, on the clamped
\* error.
Track(j) == NextTag(j) /\ Update(h'.err) /\ Sample(WithinThreshold(h'.err))

LoopNext ==
  \/ Start
  \/ \E tag \in 0..TagMod-1 : First(tag)
  \/ \E j \in -Jitter..Jitter : Track(j)

LoopSpec == LoopInit /\ [][LoopNext]_LoopVars

\* The tagger of the reference stays enabled from helper_start on, and an
\* enabled tagger keeps stamping edges.
LoopFairSpec ==
  LoopSpec /\ WF_LoopVars(\/ \E tag \in 0..TagMod-1 : First(tag)
                          \/ \E j \in -Jitter..Jitter : Track(j))

-----------------------------------------------------------------------------
\* Type correctness of the three components, together with the consistency of
\* the detector's counter.  The regulator never sees an error beyond the clamp.
LoopInv == HtTypeOK /\ PiTypeOK /\ LdInv

\* The lock flag follows the clock: when the reference stays off the setpoint by
\* more than the threshold for good, the helper ends up unlocked for good, so the
\* sequencer restarts it.  This takes the exact error, the clamp being wider than
\* the threshold, and the detector's way down.
LockFollowsDrift ==
  <>[](h.tag_d0 >= 0 => ~WithinThreshold(drift + Period)) => <>[](~ld.locked)
=============================================================================
