------------------------------- MODULE MainPll ------------------------------
(***************************************************************************)
(* One DDMTD PLL (softpll/spll_main.c) with its gain schedule, driven by   *)
(* any sequence of tags, errors and calls: mpll_init on a mode switch,     *)
(* mpll_start, mpll_stop, mpll_set_phase_shift and the freeze controls.    *)
(*                                                                         *)
(* seen[k] counts the samples inside the phase threshold processed since   *)
(* stage k was last entered; it is a history variable.  calm holds once    *)
(* the environment has settled: no more calls, every error is small.       *)
(***************************************************************************)
EXTENDS SpllMain

CONSTANTS Stages,     \* stages of the gain schedule: 0..n-1 -> lock_samples
          NStages,    \* their number; 0 without a schedule
          MaxShift    \* bound on phase shift targets

Requirements == IF NStages = 0 THEN [k \in {0} |-> PhaseLock] ELSE Stages

ASSUME StagesAssumption ==
  /\ NStages \in Nat /\ MaxShift \in Nat
  /\ NStages > 0 => Stages \in [0..NStages-1 -> Nat \ {0}]

\* mpll_init's 50 and 20000 samples, with which the frequency detector keeps a
\* lock until the PLL is started again.
ASSUME FreqAssumption == FreqLock < FreqDelock

VARIABLES m, seen, calm

vars == <<m, seen, calm>>

REF == 0    \* channel numbers of the two inputs, and of a third party
OUT == 1
THIRD == 2

StageOf(x) == x.gain_sched.current_stage
KStages == DOMAIN Requirements
Fresh == [k \in KStages |-> 0]

Init ==
  /\ m = mpll_init(main_zero([n_stages |-> NStages, current_stage |-> 0,
                              locked_d |-> FALSE, stages |-> Stages]), REF, OUT)
  /\ seen = Fresh
  /\ calm = FALSE

\* spll_init calls mpll_init again when the mode changes.
Reinit == ~calm /\ m' = mpll_init(m, REF, OUT) /\ seen' = Fresh /\ UNCHANGED calm

StartPll == ~calm /\ m' = mpll_start(m) /\ seen' = Fresh /\ UNCHANGED calm

Stop == ~calm /\ m' = mpll_stop(m) /\ UNCHANGED <<seen, calm>>

SetPhaseShift(shift) ==
  ~calm /\ m' = mpll_set_phase_shift(m, shift) /\ UNCHANGED <<seen, calm>>

\* spll_pshifter_freeze and spll_vco_freeze.
Freeze(ps, vco) ==
  /\ ~calm
  /\ m' = [m EXCEPT !.ps_freeze = ps, !.vco_freeze = vco]
  /\ UNCHANGED <<seen, calm>>

\* One tag.  A sample counts for the stage in which the detector saw it; the
\* count of a stage starts over when the schedule (re-)enters it.
Tag(source, f_ok, p_ok) ==
  /\ calm => f_ok /\ p_ok
  /\ m' = mpll_update(m, source, f_ok, p_ok)
  /\ LET k == StageOf(m)
         used == CompletesPair(m, source) /\ m'.freq_ld.locked /\ p_ok
         counted == IF used /\ seen[k] < Requirements[k]
                    THEN [seen EXCEPT ![k] = @ + 1] ELSE seen
     IN  seen' = IF m.locked /\ ~m'.locked /\ m.enabled
                 THEN Fresh ELSE counted
  /\ UNCHANGED calm

Settle == ~calm /\ m.enabled /\ ~m.ps_freeze /\ calm' = TRUE /\ UNCHANGED <<m, seen>>

Next ==
  \/ Reinit \/ StartPll \/ Stop \/ Settle
  \/ \E shift \in -MaxShift..MaxShift : SetPhaseShift(shift)
  \/ \E ps, vco \in BOOLEAN : Freeze(ps, vco)
  \/ \E source \in {REF, OUT, THIRD}, f_ok, p_ok \in BOOLEAN : Tag(source, f_ok, p_ok)

Spec == Init /\ [][Next]_vars

\* Both taggers are enabled by mpll_start, so both channels keep delivering.
FairSpec ==
  /\ Spec
  /\ WF_vars(\E f_ok, p_ok \in BOOLEAN : Tag(REF, f_ok, p_ok))
  /\ WF_vars(\E f_ok, p_ok \in BOOLEAN : Tag(OUT, f_ok, p_ok))

-----------------------------------------------------------------------------
\* The `locked' that sequencing_fsm and the aligner read is backed: while the
\* PLL runs it is the phase detector, in the last stage, of a PLL whose
\* frequency branch is locked, and the schedule knows it.
LockedIsCurrent ==
  m.enabled =>
    /\ m.locked =>
         /\ m.freq_ld.locked /\ m.phase_ld.locked
         /\ StageOf(m) = IF NStages = 0 THEN 0 ELSE NStages - 1
    /\ NStages > 0 => m.gain_sched.locked_d = m.locked

\* "PLL lock acquired? advance stage": the PLL reports a lock only after every
\* stage of the schedule has seen its own lock_samples samples inside the
\* threshold since the PLL was started or last lost its lock.
EveryStageEarned ==
  m.enabled /\ m.locked => \A k \in KStages : seen[k] >= Requirements[k]

\* The phase shifter moves one unit at a time, only while the PLL is locked,
\* and never away from its target; only mpll_start takes it back to zero.
ShiftIsGradual ==
  [][m'.phase_shift_current # m.phase_shift_current =>
       \/ m'.phase_shift_current = 0 /\ m'.phase_shift_target = 0 /\ ~m'.locked
       \/ /\ m.locked /\ ~m.ps_freeze
          /\ \/ /\ m'.phase_shift_current = m.phase_shift_current + 1
                /\ m'.phase_shift_current <= m.phase_shift_target
             \/ /\ m'.phase_shift_current = m.phase_shift_current - 1
                /\ m'.phase_shift_current >= m.phase_shift_target]_vars

\* The inductive invariant.  While the PLL runs, its lock is the phase detector's
\* and the schedule's memory of it, and needs the frequency branch, which cannot
\* unlock under it.  The samples seen in a stage are at least those the detector
\* has counted there, and every stage left behind has seen its own.
Detectors == [lock_cnt : Nat, lock_samples : Nat, delock_samples : Nat,
              locked : BOOLEAN, lock_changed : BOOLEAN]
Schedules == [n_stages : {NStages}, current_stage : KStages, locked_d : BOOLEAN, stages : {Stages}]
MainFields == {"enabled", "locked", "id_ref", "id_out", "tag_ref", "tag_out",
               "freq_ld", "phase_ld", "gain_sched", "ps_freeze", "vco_freeze",
               "phase_shift_current", "phase_shift_target"}

MainShape(x) ==
  /\ DOMAIN x = MainFields
  /\ x.enabled \in BOOLEAN /\ x.locked \in BOOLEAN /\ x.ps_freeze \in BOOLEAN
  /\ x.freq_ld \in Detectors /\ x.phase_ld \in Detectors /\ x.gain_sched \in Schedules
  /\ x.phase_shift_current \in Int /\ x.phase_shift_target \in Int

MainTypeOK == MainShape(m) /\ seen \in [KStages -> Nat]

LastStage == IF NStages = 0 THEN 0 ELSE NStages - 1

MainInv ==
  /\ MainTypeOK
  /\ m.freq_ld.lock_samples = FreqLock /\ m.freq_ld.delock_samples = FreqDelock
  /\ m.freq_ld.lock_cnt <= FreqLock
  /\ NStages = 0 => m.phase_ld.lock_samples = PhaseLock
  /\ m.enabled =>
       /\ m.phase_ld.lock_samples = Requirements[StageOf(m)]
       /\ m.locked = m.phase_ld.locked /\ (NStages > 0 => m.gain_sched.locked_d = m.locked)
       /\ m.locked => m.freq_ld.locked /\ StageOf(m) = LastStage
       /\ seen[StageOf(m)] >= m.phase_ld.lock_cnt
       /\ \A k \in KStages : k < StageOf(m) \/ m.locked => seen[k] >= Requirements[k]

\* Once the errors are small for good, the PLL goes through all stages, locks,
\* reaches the requested phase shift and stays there: mpll_shifter_busy ends.
LocksAndShifts == calm ~> [](m.locked /\ ~mpll_shifter_busy(m))
=============================================================================
