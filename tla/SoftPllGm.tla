----------------------------- MODULE SoftPllGm ------------------------------
(***************************************************************************)
(* The SoftPLL of a grandmaster: SoftPll with the PPS aligner of           *)
(* softpll/spll_external.c, which the spll_update task runs while the      *)
(* interrupt runs the sequencer.                                           *)
(*                                                                         *)
(* A pass of the aligner reads align_state and what it decides on          *)
(* (AlignFsm), then makes its writes one by one: the interrupt may come    *)
(* between any two of them.  Times are abstract: a timeout may expire at   *)
(* any time until the environment is calm.  So are the samples of the      *)
(* aligner: AlignSteps of them are off target after each synchronisation.  *)
(* The LJD daughterboard of the switch is absent, and no phase tracker is  *)
(* in use.  Tags are served at once.                                       *)
(*                                                                         *)
(*   al.shift    align_shift                                               *)
(*   al.latency  pps_latency_ps, al.old the static old_ext_pps_latency_ps  *)
(***************************************************************************)
EXTENDS SoftPll

CONSTANTS AlignSteps,  \* samples off target before the PPS is aligned, at most
          Latencies    \* values of pps_latency_ps

ASSUME GmAssumption == AlignSteps \in Nat /\ Latencies \subseteq Int /\ 0 \in Latencies

VARIABLE al

gmvars == <<vars, al>>

BoardLatency == 1  \* get_pps_latency

-----------------------------------------------------------------------------
AlignTo(state) == <<[op |-> "align", to |-> state]>>
Shift(v)       == <<[op |-> "shift", to |-> v]>>

\* A pass of external_align_fsm, up to its writes: w lists them, and a is what
\* becomes of the variables that only the aligner uses.
AlignPass(state, w, a) ==
  /\ s.mode = "GRAND_MASTER" /\ task = <<>> /\ s.align_state = state
  /\ task' = w /\ al' = a
  /\ UNCHANGED <<s, trr, reg, calm>>

\* time_after(timer_get_tics(), timeout + 5 s): a locking that goes well takes less.
TimedOut == ~calm

AlignWaitClkin ==
  /\ "STOPPED" \notin s.eccr
  /\ AlignPass("WAIT_CLKIN", <<[op |-> "pllrst"]>> \o AlignTo("WAIT_PLOCK"), al)

AlignWaitPlock ==
  \/ "STOPPED" \in s.eccr /\ AlignPass("WAIT_PLOCK", AlignTo("WAIT_CLKIN"), al)
  \/ "LOCKED" \in s.eccr /\ AlignPass("WAIT_PLOCK", AlignTo("START"), al)

AlignStart ==
  \/ /\ s.helper.ld.locked
     /\ AlignPass("START", <<[op |-> "mpll_start"]>> \o AlignTo("START_MAIN"), al)
  \/ /\ ~s.helper.ld.locked /\ TimedOut
     /\ AlignPass("START", AlignTo("WAIT_CLKIN"), al)

AlignStartMain ==
  \/ /\ s.helper.ld.locked /\ s.mpll.locked
     /\ AlignPass("START_MAIN", AlignTo("INIT_CSYNC"), al)
  \/ /\ ~(s.helper.ld.locked /\ s.mpll.locked) /\ TimedOut
     /\ AlignPass("START_MAIN", AlignTo("WAIT_CLKIN"), al)

\* The PPS generator has synchronised; two seconds have passed.
AlignInitCsync == AlignPass("INIT_CSYNC", AlignTo("WAIT_CSYNC"), al)
AlignWaitCsync == AlignPass("WAIT_CSYNC", AlignTo("START_ALIGNMENT"), [al EXCEPT !.shift = 0])

AlignStartAlignment == AlignPass("START_ALIGNMENT", AlignTo("WAIT_SAMPLE"), al)

AlignWaitSample ==
  /\ ~mpll_shifter_busy(s.mpll)
  /\ \/ /\ al.shift < AlignSteps            \* off target
        /\ AlignPass("WAIT_SAMPLE", Shift(al.shift + 1), [al EXCEPT !.shift = @ + 1])
     \/ LET sh == al.shift + BoardLatency + al.latency
        IN  AlignPass("WAIT_SAMPLE", Shift(sh) \o AlignTo("COMPENSATE_DELAY"),
                 [al EXCEPT !.shift = sh, !.old = al.latency])

\* A slip of AlignCompensateDelay: it does not wait for the shifter.
AlignCompensateDelay_hasty == AlignPass("COMPENSATE_DELAY", AlignTo("LOCKED"), al)

AlignCompensateDelay ==
  /\ ~mpll_shifter_busy(s.mpll)
  /\ AlignPass("COMPENSATE_DELAY", AlignTo("LOCKED"), al)

\* Both conditionals of the case: a change of latency comes after, and
\* overrides, the restart.
AlignLocked ==
  LET restart == IF external_locked(s) THEN <<>> ELSE AlignTo("WAIT_CLKIN")
      sh == al.shift - al.old + al.latency
  IN  IF al.old # al.latency
      THEN AlignPass("LOCKED", restart \o Shift(sh) \o AlignTo("COMPENSATE_DELAY"),
                [al EXCEPT !.shift = sh, !.old = al.latency])
      ELSE restart # <<>> /\ AlignPass("LOCKED", restart, al)

AlignFsm ==
  \/ AlignWaitClkin \/ AlignWaitPlock \/ AlignStart \/ AlignStartMain
  \/ AlignInitCsync \/ AlignWaitCsync \/ AlignStartAlignment
  \/ AlignWaitSample \/ AlignCompensateDelay \/ AlignLocked

\* The writes of a pass.  mpll_start runs with interrupts disabled.
AlignWrite ==
  /\ task # <<>> /\ Head(task).op \in {"align", "shift", "mpll_start", "pllrst"}
  /\ s' = CASE Head(task).op = "align"      -> [s EXCEPT !.align_state = Head(task).to]
            [] Head(task).op = "shift"      -> [s EXCEPT !.mpll = mpll_set_phase_shift(@, Head(task).to)]
            [] Head(task).op = "mpll_start" -> [start_main(s) EXCEPT !.cpu_irq = TRUE]
            [] Head(task).op = "pllrst"     -> [s EXCEPT !.eccr = @ \ {"LOCKED"}]
  /\ task' = Tail(task)
  /\ UNCHANGED <<trr, reg, calm, al>>

\* spll_update_ext_pps_latency_ps.
SetLatency(v) ==
  /\ ~calm /\ task = <<>>
  /\ al' = [al EXCEPT !.latency = v]
  /\ UNCHANGED vars

-----------------------------------------------------------------------------
\* The 10 MHz input and its PLL, which a reset (SPLL_ECCR_EXT_REF_PLLRST) unlocks.
ExtPllLocks ==
  /\ s.eccr = {}
  /\ s' = [s EXCEPT !.eccr = {"LOCKED"}]
  /\ UNCHANGED <<trr, task, reg, calm, al>>

ExtPllUnlocks ==
  /\ ~calm /\ s.eccr = {"LOCKED"}
  /\ s' = [s EXCEPT !.eccr = {}]
  /\ UNCHANGED <<trr, task, reg, calm, al>>

ExtPlug ==
  /\ ~calm
  /\ s' = [s EXCEPT !.eccr = IF "STOPPED" \in @ THEN {} ELSE {"STOPPED"}]
  /\ UNCHANGED <<trr, task, reg, calm, al>>

GmInit == Init /\ al = [shift |-> 0, latency |-> 0, old |-> 0]

GmSettle == Settle /\ s.eic /\ "STOPPED" \notin s.eccr

GmNext ==
  \/ AlignFsm \/ AlignWrite
  \/ \E v \in Latencies : SetLatency(v)
  \/ ExtPllLocks \/ ExtPllUnlocks \/ ExtPlug
  \/ \E ch \in Channels, ok \in Errors : Irq(ch, ok) /\ UNCHANGED al
  \/ Elapse /\ UNCHANGED al
  \/ \E mode \in Modes, ref \in SlaveRefs : SpllInit(mode, ref) /\ UNCHANGED al
  \/ GmSettle /\ UNCHANGED al

GmSpec == GmInit /\ [][GmNext]_gmvars

\* As in SoftPll; and spll_update is called regularly and the 10 MHz PLL locks.
\* The interrupt needs strong fairness where a pass of the aligner delays it.
GmFairness ==
  /\ \A ch \in {MAIN_CHANNEL, EXT_CHANNEL} :
       SF_gmvars(\E ok \in Errors : Irq(ch, ok) /\ UNCHANGED al)
  /\ WF_gmvars(Elapse /\ UNCHANGED al)
  /\ WF_gmvars(AlignWrite)
  /\ SF_gmvars(AlignFsm)
  /\ WF_gmvars(ExtPllLocks)

GmFairSpec == GmSpec /\ GmFairness

-----------------------------------------------------------------------------
\* In a grandmaster the aligner reports ALIGN_STATE_LOCKED only with the shift it
\* computed, the latency it last looked at included, fully applied by the main PLL.
AlignedMeansShifted ==
  s.mode = "GRAND_MASTER" /\ s.align_state = "LOCKED" /\ task = <<>>
    => /\ s.mpll.phase_shift_current = al.shift
       /\ ~mpll_shifter_busy(s.mpll)

\* "Wait until we are locked to external 10MHz clock": SEQ_READY is entered only
\* from real locks, and of a main PLL, where the mode has one, that receives the
\* tags it is driven by.
GmReadyIsEarned ==
  [][s.seq_state # "READY" /\ s'.seq_state = "READY"
       => /\ Locked
          /\ s.mode # "FREE_RUNNING_MASTER" =>
               {s.mpll.id_ref, s.mpll.id_out} \subseteq s.taggers]_gmvars

\* Once the 10 MHz input is good and nobody interferes, the grandmaster ends up
\* aligned, with the current latency applied, and stays so.
GmRecovers ==
  <>[](calm /\ s.eic => /\ s.seq_state = "READY" /\ s.align_state = "LOCKED"
                        /\ al.old = al.latency)
=============================================================================
