------------------------------ MODULE SpllMain ------------------------------
(***************************************************************************)
(* The main DDMTD PLL (softpll/spll_main.c) as operators on its state      *)
(* (struct spll_main_state).  The same code drives the auxiliary channels. *)
(*                                                                         *)
(* Tag values are abstracted here to whether a tag has been captured, and  *)
(* the two errors computed from them to whether they are inside the        *)
(* threshold of their lock detector: f_ok for freq_error, p_ok for err.    *)
(* Module MainTags has the arithmetic.  Phase shifts are in DMTD units, as *)
(* from_picos returns them.                                                *)
(*                                                                         *)
(* A gain schedule is a record [n_stages, current_stage, locked_d,         *)
(* stages], stages[i] being the lock_samples of stage i; n_stages = 0      *)
(* stands for gain_sched == NULL.  The gains themselves (kp, ki, shift)    *)
(* only reach pi_update and are left out.                                  *)
(***************************************************************************)
EXTENDS SpllCommon

CONSTANTS FreqLock, FreqDelock,    \* freq_ld.lock_samples, .delock_samples
          PhaseLock, PhaseDelock   \* phase_ld.lock_samples, .delock_samples

ASSUME MainAssumption ==
  /\ FreqLock \in Nat \ {0} /\ FreqDelock \in Nat
  /\ PhaseLock \in Nat \ {0} /\ PhaseDelock \in Nat

ld_config(lock, delock) ==
  [lock_cnt |-> 0, lock_samples |-> lock, delock_samples |-> delock,
   locked |-> FALSE, lock_changed |-> FALSE]

\* The state as spll_very_init leaves it: all zero, with the board's schedule.
main_zero(sched) ==
  [enabled |-> FALSE, locked |-> FALSE, id_ref |-> 0, id_out |-> 0,
   tag_ref |-> TRUE, tag_out |-> TRUE,      \* tag 0 passes for a captured one
   freq_ld |-> ld_config(0, 0), phase_ld |-> ld_config(0, 0),
   gain_sched |-> sched, ps_freeze |-> FALSE, vco_freeze |-> FALSE,
   phase_shift_current |-> 0, phase_shift_target |-> 0]

\* The part of mpll_init and mpll_start that rewinds the schedule.
RewindSchedule(gs) == [gs EXCEPT !.current_stage = 0, !.locked_d = FALSE]

\* Neither `locked' nor the captured tags nor the phase shift are touched.
mpll_init(m, id_ref, id_out) ==
  [m EXCEPT !.ps_freeze = FALSE, !.vco_freeze = FALSE, !.enabled = FALSE,
            !.freq_ld = ld_config(FreqLock, FreqDelock),
            !.phase_ld = ld_config(PhaseLock, PhaseDelock),
            !.id_ref = id_ref, !.id_out = id_out,
            !.gain_sched = RewindSchedule(@)]

\* A slip of mpll_start: the schedule resumes where it was.
mpll_start_resumes(m) ==
  LET ph == IF m.gain_sched.n_stages > 0
            THEN [m.phase_ld EXCEPT !.lock_samples =
                                      m.gain_sched.stages[m.gain_sched.current_stage]]
            ELSE m.phase_ld
  IN  [m EXCEPT !.ps_freeze = FALSE, !.vco_freeze = FALSE,
                !.tag_ref = FALSE, !.tag_out = FALSE,
                !.phase_shift_target = 0, !.phase_shift_current = 0,
                !.enabled = TRUE, !.locked = FALSE, !.gain_sched.locked_d = FALSE,
                !.phase_ld = ld_init(ph), !.freq_ld = ld_init(@)]

\* The taggers are enabled by the caller's side of the model.
mpll_start(m) ==
  LET ph == IF m.gain_sched.n_stages > 0
            THEN [m.phase_ld EXCEPT !.lock_samples = m.gain_sched.stages[0]]
            ELSE m.phase_ld
  IN  [m EXCEPT !.ps_freeze = FALSE, !.vco_freeze = FALSE,
                !.tag_ref = FALSE, !.tag_out = FALSE,
                !.phase_shift_target = 0, !.phase_shift_current = 0,
                !.enabled = TRUE, !.locked = FALSE,
                !.gain_sched = RewindSchedule(@),
                !.phase_ld = ld_init(ph), !.freq_ld = ld_init(@)]

mpll_stop(m) == [m EXCEPT !.enabled = FALSE]

-----------------------------------------------------------------------------
\* Enter stage k: its lock_samples, and the phase detector starts over.
EnterStage(m, k) ==
  [m EXCEPT !.gain_sched.current_stage = k, !.gain_sched.locked_d = FALSE,
            !.phase_ld = [@ EXCEPT !.lock_samples = m.gain_sched.stages[k],
                                   !.lock_cnt = 0, !.lock_changed = FALSE,
                                   !.locked = FALSE]]

\* A slip of mpll_handle_gain_schedule: the lock of any stage is taken for the
\* lock of the last one.
mpll_handle_gain_schedule_any(m) ==
  LET gs == m.gain_sched IN
  IF gs.n_stages = 0 THEN [m EXCEPT !.locked = m.phase_ld.locked]
  ELSE IF gs.locked_d /\ ~m.phase_ld.locked THEN EnterStage([m EXCEPT !.locked = FALSE], 0)
  ELSE IF ~gs.locked_d /\ m.phase_ld.locked
       THEN IF gs.current_stage = gs.n_stages - 1
            THEN [m EXCEPT !.locked = TRUE, !.gain_sched.locked_d = TRUE]
            ELSE [EnterStage(m, gs.current_stage + 1) EXCEPT !.locked = TRUE]
       ELSE [m EXCEPT !.gain_sched.locked_d = m.phase_ld.locked]

mpll_handle_gain_schedule(m) ==
  LET gs == m.gain_sched IN
  IF gs.n_stages = 0 THEN [m EXCEPT !.locked = m.phase_ld.locked]
  ELSE IF gs.locked_d /\ ~m.phase_ld.locked       \* out of lock: restart
       THEN EnterStage([m EXCEPT !.locked = FALSE], 0)
  ELSE IF ~gs.locked_d /\ m.phase_ld.locked       \* lock acquired: advance
       THEN IF gs.current_stage = gs.n_stages - 1
            THEN [m EXCEPT !.locked = TRUE, !.gain_sched.locked_d = TRUE]
            ELSE EnterStage(m, gs.current_stage + 1)
       ELSE [m EXCEPT !.gain_sched.locked_d = m.phase_ld.locked]

-----------------------------------------------------------------------------
\* Slips of ShiftPhase: it does not wait for the lock; it only moves up.
ShiftPhase_eager(m) ==
  LET cur == m.phase_shift_current  tgt == m.phase_shift_target
  IN  [m EXCEPT !.phase_shift_current =
                   IF cur < tgt THEN cur + 1 ELSE IF cur > tgt THEN cur - 1 ELSE cur]
ShiftPhase_up(m) ==
  IF m.locked /\ ~m.ps_freeze /\ m.phase_shift_current < m.phase_shift_target
  THEN [m EXCEPT !.phase_shift_current = @ + 1] ELSE m

\* One unit towards the phase shift target, while locked.
ShiftPhase(m) ==
  LET cur == m.phase_shift_current  tgt == m.phase_shift_target
  IN  IF m.locked /\ ~m.ps_freeze
      THEN [m EXCEPT !.phase_shift_current =
                        IF cur < tgt THEN cur + 1 ELSE IF cur > tgt THEN cur - 1 ELSE cur]
      ELSE m

\* Whether a tag from source completes a pair of tags in an enabled PLL.
CompletesPair(m, source) ==
  /\ m.enabled
  /\ m.tag_ref \/ source = m.id_ref
  /\ m.tag_out \/ source = m.id_out

\* lock_changed of these two detectors is never read, and left out.
ld_sample(ld, ok) == [ld_update(ld, ok) EXCEPT !.lock_changed = FALSE]

\* Both tags are there: the two detectors, the phase shifter, the schedule.
mpll_pair(m, f_ok, p_ok) ==
  LET m1 == ShiftPhase([m EXCEPT !.freq_ld = ld_sample(@, f_ok),
                                 !.tag_ref = FALSE, !.tag_out = FALSE])
  IN  IF m1.freq_ld.locked
      THEN mpll_handle_gain_schedule([m1 EXCEPT !.phase_ld = ld_sample(@, p_ok)])
      ELSE m1

mpll_update(m, source, f_ok, p_ok) ==
  IF CompletesPair(m, source) THEN mpll_pair(m, f_ok, p_ok)
  ELSE IF m.enabled
  THEN [m EXCEPT !.tag_ref = @ \/ source = m.id_ref, !.tag_out = @ \/ source = m.id_out]
  ELSE m

\* Whether that call writes DAC_MAIN.
writes_dac(m, source) == CompletesPair(m, source) /\ ~m.vco_freeze

mpll_set_phase_shift(m, shift) == [m EXCEPT !.phase_shift_target = shift]

mpll_shifter_busy(m) == m.phase_shift_target # m.phase_shift_current
=============================================================================
