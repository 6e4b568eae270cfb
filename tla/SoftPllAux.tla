----------------------------- MODULE SoftPllAux -----------------------------
(***************************************************************************)
(* The SoftPLL of a slave with auxiliary outputs: SoftPll with the state   *)
(* machine that the spll_update task runs for each of them                 *)
(* (spll_update_aux_clock of softpll/softpll_ng.c).                        *)
(*                                                                         *)
(* As in SoftPllGm, a pass reads the state and decides, then makes its     *)
(* writes one by one; the interrupt may come between any two.  Tags are    *)
(* served at once.                                                         *)
(*                                                                         *)
(*   out_en     OCCR.OUT_EN, the outputs that the hardware wants locked    *)
(*   tracker    for an output that is only monitored: enabled, ready       *)
(*   shift_ps   softpll.mpll_shift_ps                                      *)
(*   aux_mode   what each output is for (spll_set_aux_mode, which only the *)
(*              boards call, when they initialise)                         *)
(*                                                                         *)
(* In the code a tracker shares its memory with the output's PLL (a union  *)
(* in struct spll_aux_state), but covers only what mpll_start sets anew or *)
(* the abstraction leaves out, and ptracker_init sets all of the tracker   *)
(* before `ready' is looked at; so the two are separate here.              *)
(***************************************************************************)
EXTENDS SoftPll

CONSTANTS AuxModes,  \* what the boards choose from: "SLAVE", "PHASE_MONITOR"
          Shifts     \* the arguments of spll_set_phase_shift

ASSUME AuxAssumption == AuxModes \subseteq {"SLAVE", "PHASE_MONITOR"} /\ Shifts \subseteq Int

VARIABLES out_en, tracker, shift_ps, aux_mode

auxonly == <<out_en, tracker, shift_ps, aux_mode>>
auxvars == <<vars, auxonly>>

-----------------------------------------------------------------------------
(***************************************************************************)
(* The writes of a pass                                                    *)
(***************************************************************************)
Set(i, what) == <<[op |-> what, ch |-> i]>>
Goto(i, state) == <<[op |-> "aux", ch |-> i, to |-> state]>>
StatusSteps(i, on) == <<[op |-> "load_occr", ch |-> i], [op |-> "store_occr", ch |-> i, on |-> on]>>

\* A slip of StartSteps: the output's own tagger is forgotten.
StartSteps_mute(i) ==
  Set(i, "reset") \o Set(i, "init_phase_ld") \o Set(i, "init_freq_ld")
  \o TaggerSteps(s.aux[i].dmtd.id_ref, TRUE)
\* spll_start_channel: mpll_start outside the interrupt.
StartSteps(i) ==
  Set(i, "reset") \o Set(i, "init_phase_ld") \o Set(i, "init_freq_ld")
  \o TaggerSteps(s.aux[i].dmtd.id_ref, TRUE) \o TaggerSteps(MAIN_CHANNEL + i, TRUE)

\* spll_stop_channel, that is mpll_stop.
StopSteps(i) == TaggerSteps(MAIN_CHANNEL + i, FALSE) \o Set(i, "disable")

\* mpll_start up to the lock detectors.
mpll_reset(m) == [mpll_start(m) EXCEPT !.freq_ld = m.freq_ld, !.phase_ld = m.phase_ld]

\* A write to struct spll_main_state of one output.
AuxSet ==
  /\ task # <<>> /\ Head(task).op \in {"reset", "init_phase_ld", "init_freq_ld", "disable"}
  /\ LET i == Head(task).ch
         m == s.aux[i].dmtd
     IN  s' = [s EXCEPT !.aux[i].dmtd =
                 CASE Head(task).op = "reset"         -> mpll_reset(m)
                   [] Head(task).op = "init_phase_ld" -> [m EXCEPT !.phase_ld = ld_init(@)]
                   [] Head(task).op = "init_freq_ld"  -> [m EXCEPT !.freq_ld = ld_init(@)]
                   [] Head(task).op = "disable"       -> [m EXCEPT !.enabled = FALSE]]
  /\ task' = Tail(task)
  /\ UNCHANGED <<trr, reg, calm, auxonly>>

AuxGoto ==
  /\ task # <<>> /\ Head(task).op = "aux"
  /\ s' = [s EXCEPT !.aux[Head(task).ch].seq_state = Head(task).to]
  /\ task' = Tail(task)
  /\ UNCHANGED <<trr, reg, calm, auxonly>>

\* set_channel_status from a task: load, modify, store.
LoadOccr ==
  /\ task # <<>> /\ Head(task).op = "load_occr"
  /\ reg' = s.occr
  /\ task' = Tail(task)
  /\ UNCHANGED <<s, trr, calm, auxonly>>

StoreOccr ==
  /\ task # <<>> /\ Head(task).op = "store_occr"
  /\ LET i == Head(task).ch
     IN  s' = [s EXCEPT !.occr = IF Head(task).on THEN reg \cup ({i} \cap OutLock)
                                                  ELSE reg \ {i}]
  /\ reg' = {}
  /\ task' = Tail(task)
  /\ UNCHANGED <<trr, calm, auxonly>>

-----------------------------------------------------------------------------
(***************************************************************************)
(* spll_update_aux_clock, one action per state                             *)
(***************************************************************************)
Pass(i, w) ==
  /\ task = <<>> /\ w # <<>>
  /\ task' = w
  /\ UNCHANGED <<s, trr, reg, calm, out_en, shift_ps, aux_mode>>

\* A slip of AuxSwitchedOff: an output that is still locking is not released.
AuxSwitchedOff_late(i) ==
  /\ s.aux[i].seq_state \in {"SLAVE_READY", "MONITOR_READY"} /\ i \notin out_en
  /\ Pass(i, StopSteps(i) \o StatusSteps(i, FALSE) \o Goto(i, "DISABLED"))
  /\ UNCHANGED tracker

AuxSwitchedOff(i) ==
  /\ s.aux[i].seq_state # "DISABLED" /\ i \notin out_en
  /\ Pass(i, StopSteps(i) \o StatusSteps(i, FALSE) \o Goto(i, "DISABLED"))
  /\ UNCHANGED tracker

AuxDisabled(i) ==
  /\ s.aux[i].seq_state = "DISABLED"
  /\ s.mpll.locked /\ i \in out_en
  /\ \/ /\ aux_mode[i] = "SLAVE" /\ s.seq_state = "READY"
        /\ Pass(i, StartSteps(i) \o Goto(i, "LOCK_PLL"))
        /\ UNCHANGED tracker
     \/ /\ aux_mode[i] = "PHASE_MONITOR"
        /\ Pass(i, Goto(i, "WAIT_MONITOR_LOCK") \o TaggerSteps(MAIN_CHANNEL + i, TRUE)
                   \o TaggerSteps(MAIN_CHANNEL, TRUE))
        /\ tracker' = [tracker EXCEPT ![i] = [enabled |-> TRUE, ready |-> FALSE]]

\* The monitor states: AUX_WAIT_MONITOR_LOCK falls through to the next case.
AuxMonitor(i) ==
  /\ s.aux[i].seq_state \in {"WAIT_MONITOR_LOCK", "MONITOR_READY"} /\ i \in out_en
  /\ \/ /\ s.aux[i].seq_state = "WAIT_MONITOR_LOCK" /\ tracker[i].ready
        /\ Pass(i, Goto(i, "MONITOR_READY") \o StatusSteps(i, TRUE))
     \/ /\ ~(s.aux[i].seq_state = "WAIT_MONITOR_LOCK" /\ tracker[i].ready)
        /\ ~s.mpll.locked
        /\ Pass(i, StatusSteps(i, FALSE) \o Goto(i, "DISABLED"))
  /\ UNCHANGED tracker

\* set_phase_shift, whose other assignment leaves mpll_shift_ps as it is here.
AuxLockPll(i) ==
  /\ s.aux[i].seq_state = "LOCK_PLL" /\ i \in out_en
  /\ s.aux[i].dmtd.phase_ld.locked
  /\ task = <<>>
  /\ s' = [s EXCEPT !.aux[i].dmtd = mpll_set_phase_shift(@, shift_ps)]
  /\ task' = Goto(i, "ALIGN_PHASE")
  /\ UNCHANGED <<trr, reg, calm, auxonly>>

AuxAlignPhase(i) ==
  /\ s.aux[i].seq_state = "ALIGN_PHASE" /\ i \in out_en
  /\ ~mpll_shifter_busy(s.aux[i].dmtd)
  /\ Pass(i, StatusSteps(i, TRUE) \o Goto(i, "SLAVE_READY"))
  /\ UNCHANGED tracker

\* A slip of AuxSlaveReady: the flag stays up.
AuxSlaveReady_flag(i) ==
  /\ s.aux[i].seq_state = "SLAVE_READY" /\ i \in out_en
  /\ ~s.mpll.locked \/ ~s.aux[i].dmtd.phase_ld.locked
  /\ Pass(i, Goto(i, "DISABLED"))
  /\ UNCHANGED tracker

AuxSlaveReady(i) ==
  /\ s.aux[i].seq_state = "SLAVE_READY" /\ i \in out_en
  /\ ~s.mpll.locked \/ ~s.aux[i].dmtd.phase_ld.locked
  /\ Pass(i, StatusSteps(i, FALSE) \o Goto(i, "DISABLED"))
  /\ UNCHANGED tracker

AuxPass(i) ==
  \/ AuxSwitchedOff(i) \/ AuxDisabled(i) \/ AuxMonitor(i)
  \/ AuxLockPll(i) \/ AuxAlignPhase(i) \/ AuxSlaveReady(i)

\* spll_set_phase_shift(SPLL_ALL_CHANNELS, v).
SetPhaseShift(v) ==
  /\ ~calm /\ task = <<>>
  /\ s' = [s EXCEPT !.mpll = mpll_set_phase_shift(@, v),
                    !.aux = [i \in AuxIds |->
                               IF s.aux[i].seq_state = "SLAVE_READY"
                               THEN [s.aux[i] EXCEPT !.dmtd = mpll_set_phase_shift(@, v)]
                               ELSE s.aux[i]]]
  /\ shift_ps' = v
  /\ UNCHANGED <<trr, task, reg, calm, out_en, tracker, aux_mode>>

-----------------------------------------------------------------------------
\* The interrupt also completes the average of a monitored output, some time.
AuxIrq(ch, ok) ==
  /\ Irq(ch, ok)
  /\ \/ UNCHANGED tracker
     \/ \E i \in AuxIds :
          /\ ch = MAIN_CHANNEL + i /\ tracker[i].enabled
          /\ s'.helper.ld.locked /\ s'.seq_state = "READY"
          /\ tracker' = [tracker EXCEPT ![i].ready = TRUE]
  /\ UNCHANGED <<out_en, shift_ps, aux_mode>>

\* The hardware enable flags change.
SetOutEn(en) ==
  /\ ~calm /\ en # out_en
  /\ out_en' = en
  /\ UNCHANGED <<vars, tracker, shift_ps, aux_mode>>

AuxInit ==
  /\ Init
  /\ out_en = {} /\ shift_ps = 0
  /\ tracker = [i \in AuxIds |-> [enabled |-> FALSE, ready |-> FALSE]]
  /\ aux_mode \in [AuxIds -> AuxModes]

AuxNext ==
  \/ \E i \in AuxIds : AuxPass(i)
  \/ AuxSet \/ AuxGoto \/ LoadOccr \/ StoreOccr
  \/ (LoadCer \/ StoreCer) /\ UNCHANGED auxonly
  \/ \E v \in Shifts : SetPhaseShift(v)
  \/ \E en \in SUBSET AuxIds : SetOutEn(en)
  \/ \E ch \in Channels, ok \in Errors : AuxIrq(ch, ok)
  \/ Elapse /\ UNCHANGED auxonly
  \/ \E mode \in Modes, ref \in SlaveRefs : SpllInit(mode, ref) /\ UNCHANGED auxonly
  \/ Settle /\ s.eic /\ UNCHANGED auxonly

AuxSpec == AuxInit /\ [][AuxNext]_auxvars

\* As in SoftPll; and spll_update is called regularly, and an average completes.
AuxFairness ==
  /\ \A ch \in Channels \ {EXT_CHANNEL} :
       WF_auxvars(\E ok \in Errors : AuxIrq(ch, ok))
  /\ WF_auxvars(Elapse /\ UNCHANGED auxonly)
  /\ \A i \in AuxIds : WF_auxvars(AuxPass(i))
  /\ WF_auxvars(AuxSet \/ AuxGoto \/ LoadOccr \/ StoreOccr
                \/ ((LoadCer \/ StoreCer) /\ UNCHANGED auxonly))
  /\ \A i \in AuxIds : SF_auxvars(\E ok \in Errors : AuxIrq(MAIN_CHANNEL + i, ok) /\ tracker'[i].ready)

AuxFairSpec == AuxSpec /\ AuxFairness

-----------------------------------------------------------------------------
AuxReady == {"SLAVE_READY", "MONITOR_READY"}

\* Between two passes the lock flag of an auxiliary output in OCCR tells its
\* state, although the interrupt writes the same register.
AuxFlagMeansReady ==
  task = <<>> => \A i \in AuxIds : i \in s.occr <=> s.aux[i].seq_state \in AuxReady

\* Between two passes an output that is locking, aligning or locked has its PLL
\* enabled and its two channels delivering tags.
AuxFed ==
  task = <<>> => \A i \in AuxIds :
    s.aux[i].seq_state \in {"LOCK_PLL", "ALIGN_PHASE", "SLAVE_READY"} =>
      /\ s.aux[i].dmtd.enabled
      /\ {s.aux[i].dmtd.id_ref, s.aux[i].dmtd.id_out} \subseteq s.taggers

\* Once the errors stay small and nobody interferes, the outputs that are
\* enabled end up locked (or monitored), the others released, for good.
AuxRecovers ==
  <>[](calm => \A i \in AuxIds :
                 IF i \in out_en THEN s.aux[i].seq_state \in AuxReady
                                 ELSE s.aux[i].seq_state = "DISABLED" /\ i \notin s.occr)
=============================================================================
