----------------------------- MODULE HelperTags -----------------------------
(***************************************************************************)
(* How the helper PLL turns raw DMTD tags into a phase error               *)
(* (helper_start and helper_update, softpll/spll_helper.c).                *)
(*                                                                         *)
(* The hardware stamps each edge of the reference with a counter of        *)
(* TAG_BITS bits, so tags wrap at TagMod = 1 << TAG_BITS; edges come one   *)
(* Period = 1 << HPLL_N apart, give or take.  The code unwraps them with   *)
(* p_adder and, so that 32 bits are enough, rebases p_adder and p_setpoint *)
(* by HELPER_TAG_WRAPAROUND.  drift is the truth it has to follow, a       *)
(* history variable: the time of the last edge minus the time of the first *)
(* one and one Period for each edge in between.                            *)
(***************************************************************************)
EXTENDS Integers

CONSTANTS TagMod, Period,
          Wraparound,    \* HELPER_TAG_WRAPAROUND
          ErrorClamp,    \* HELPER_ERROR_CLAMP
          Jitter,        \* largest deviation of one spacing from Period
          MaxDrift       \* largest accumulated deviation

ASSUME TagsAssumption ==
  /\ TagMod \in Nat /\ Period \in Nat /\ Wraparound \in Nat
  /\ ErrorClamp \in Nat /\ Jitter \in Nat /\ MaxDrift \in Nat
  /\ Jitter < Period
  /\ Period + Jitter < TagMod
  /\ Period + MaxDrift <= Wraparound

VARIABLES h, drift

HtVars == <<h, drift>>

\* err is the error handed to pi_update and ld_update; it is 0 when the call
\* returns early.
helper_start(s) == [s EXCEPT !.p_setpoint = 0, !.p_adder = 0, !.tag_d0 = -1]

clamp(err) ==
  IF err < -ErrorClamp THEN -ErrorClamp ELSE IF err > ErrorClamp THEN ErrorClamp ELSE err

\* A slip of helper_update: p_setpoint is rebased without p_adder.
helper_update_half(s, tag) ==
  IF s.tag_d0 < 0 THEN [s EXCEPT !.p_setpoint = tag, !.tag_d0 = tag, !.err = 0]
  ELSE
  LET adder  == IF s.tag_d0 > tag THEN s.p_adder + TagMod ELSE s.p_adder
      rebase == IF tag + adder > Wraparound /\ s.p_setpoint > Wraparound THEN Wraparound ELSE 0
  IN  [s EXCEPT !.p_adder = adder, !.p_setpoint = @ - rebase + Period,
                !.tag_d0 = tag, !.err = clamp(tag + adder - s.p_setpoint)]

\* A tag from ref_src.
helper_update(s, tag) ==
  IF s.tag_d0 < 0 THEN [s EXCEPT !.p_setpoint = tag, !.tag_d0 = tag, !.err = 0]
  ELSE
  LET adder  == IF s.tag_d0 > tag THEN s.p_adder + TagMod ELSE s.p_adder
      rebase == IF tag + adder > Wraparound /\ s.p_setpoint > Wraparound THEN Wraparound ELSE 0
  IN  [s EXCEPT !.p_adder = adder - rebase, !.p_setpoint = @ - rebase + Period,
                !.tag_d0 = tag, !.err = clamp(tag + adder - s.p_setpoint)]

HtInit ==
  /\ h = helper_start([p_adder |-> 0, p_setpoint |-> 0, tag_d0 |-> 0, err |-> 0])
  /\ drift = 0

\* The first edge, anywhere in the counter's range.
FirstTag(tag) ==
  /\ h.tag_d0 < 0
  /\ h' = helper_update(h, tag)
  /\ drift' = 0

\* The next edge, Period + j after the last one.  The first of them sets the
\* pace: p_setpoint still points at the first edge, one Period behind.
NextTag(j) ==
  /\ h.tag_d0 >= 0
  /\ drift + j \in -MaxDrift..MaxDrift
  /\ h' = helper_update(h, (h.tag_d0 + Period + j) % TagMod)
  /\ drift' = drift + j

Restart == h' = helper_start(h) /\ drift' = 0

HtNext ==
  \/ \E tag \in 0..TagMod-1 : FirstTag(tag)
  \/ \E j \in -Jitter..Jitter : NextTag(j)
  \/ Restart

HtSpec == HtInit /\ [][HtNext]_HtVars

-----------------------------------------------------------------------------
(***************************************************************************)
(* Type correctness, with the bounds that make 32-bit integers enough:     *)
(* the unwrapped values never get further than one excursion of the drift  *)
(* and one tag period past the wraparound threshold.                       *)
(***************************************************************************)
Reach == Wraparound + TagMod + Period + MaxDrift

HtTypeOK ==
  /\ h \in [p_adder : Int, p_setpoint : 0..Reach, tag_d0 : -1..TagMod-1,
            err : -ErrorClamp..ErrorClamp]
  /\ h.tag_d0 >= 0 => h.tag_d0 + h.p_adder \in -MaxDrift..Reach
  /\ drift \in -MaxDrift..MaxDrift

\* The bookkeeping is exact: through any number of tag wraparounds and rebases
\* the distance between the last unwrapped tag and the setpoint is the true
\* drift, so the helper never slips a cycle.
TracksDrift == IF h.tag_d0 >= 0 THEN h.tag_d0 + h.p_adder - h.p_setpoint = drift
                                ELSE h.p_adder = 0

\* The error given to the regulator is the true one, clamped: "Maximum abs
\* value of the phase error. If the error is bigger, it's clamped".
ErrorIsTrue ==
  [][h.tag_d0 >= 0 /\ h'.tag_d0 >= 0 => h'.err = clamp(drift' + Period)]_HtVars
=============================================================================
