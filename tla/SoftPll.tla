------------------------------ MODULE SoftPll -------------------------------
(***************************************************************************)
(* The SoftPLL (softpll/softpll_ng.c): the sequencer and the loops that    *)
(* the tag interrupt runs, and the calls that tasks make into them.        *)
(*                                                                         *)
(* s is struct softpll_state together with the registers of the SPLL core: *)
(*   taggers       RCER and OCER, the channels that deliver tags           *)
(*   occr          the lock flags of OCCR, by output number                *)
(*   dacs_clear    both DACs hold what SEQ_CLEAR_DACS wrote to them        *)
(*   cpu_irq, eic  the interrupt, as enabled in the CPU and in the core    *)
(*   dac_timeout   whether the deadline has passed, in SEQ_WAIT_CLEAR_DACS *)
(* Channels are numbered as in the code: 0..NRef-1 the references, NRef    *)
(* the main output, then the auxiliary ones, then the external clock.      *)
(* trr is the tag FIFO, as the set of channels with a tag left in it: the  *)
(* order of arrival is arbitrary.                                          *)
(*                                                                         *)
(* The interrupt preempts tasks; it is never preempted.  task holds what   *)
(* is left to do of the call in progress: a read-modify-write of a         *)
(* register is two steps, with the value read in reg.  With Preemptible    *)
(* FALSE a call is as good as atomic: what a lock would give.              *)
(*                                                                         *)
(* calm holds once the environment has settled: the errors are small and   *)
(* nobody calls spll_init or spll_shutdown any more.                       *)
(***************************************************************************)
EXTENDS SpllMain, Sequences, FiniteSets

CONSTANTS NRef, NOut,               \* spll_n_chan_ref, spll_n_chan_out
          Modes,                    \* the modes spll_init is called with
          SlaveRefs,                \* its slave_ref_channel arguments
          Tracked,                  \* the channels with a phase tracker in use
          HelperLock, HelperDelock, \* helper.ld.lock_samples, .delock_samples
          ExtSupported,             \* the core has the external reference
          Preemptible,              \* the interrupt may come in the middle of a call
          FifoMax,                  \* bound: tags in the FIFO
          Faults                    \* bound: the errors that may be large

ASSUME SoftPllAssumption ==
  /\ NRef \in Nat \ {0} /\ NOut \in 1..3
  /\ Modes \subseteq {"DISABLED", "GRAND_MASTER", "FREE_RUNNING_MASTER", "SLAVE"}
  /\ SlaveRefs \subseteq 0..NRef-1 /\ Tracked \subseteq 0..NRef-1
  /\ HelperLock \in Nat \ {0} /\ HelperDelock \in Nat
  /\ ExtSupported \in BOOLEAN /\ Preemptible \in BOOLEAN
  /\ FifoMax \in Nat /\ Faults \subseteq {"h", "f", "p", "af", "ap"}

VARIABLES s, trr, task, reg, calm

vars == <<s, trr, task, reg, calm>>

Refs == 0..NRef-1
MAIN_CHANNEL == NRef
AuxIds == 1..NOut-1
EXT_CHANNEL == NRef + NOut
Channels == 0..EXT_CHANNEL
OutLock == 0..7      \* the bits of OCCR.OUT_LOCK
NoSchedule == [n_stages |-> 0, current_stage |-> 0, locked_d |-> FALSE, stages |-> <<>>]

-----------------------------------------------------------------------------
(***************************************************************************)
(* Registers, helper PLL, external reference                               *)
(***************************************************************************)
spll_enable_tagger(x, ch, enable) ==
  [x EXCEPT !.taggers = IF enable THEN @ \cup {ch} ELSE @ \ {ch}]

set_channel_status(x, ch, locked) ==
  [x EXCEPT !.occr = IF locked THEN @ \cup ({ch} \cap OutLock) ELSE @ \ {ch}]

\* helper.fresh is tag_d0 < 0: the next tag only sets the setpoint.
helper_start(x) ==
  [spll_enable_tagger(x, x.helper.ref_src, TRUE) EXCEPT
     !.helper.fresh = TRUE, !.helper.ld = ld_init(@)]

helper_update(x, source, ok) ==
  IF source # x.helper.ref_src THEN x
  ELSE IF x.helper.fresh THEN [x EXCEPT !.helper.fresh = FALSE]
  ELSE [x EXCEPT !.helper.ld = ld_update(@, ok), !.dacs_clear = FALSE]

\* A slip of start_main: the lock of the previous run is kept.
start_main_stale(x) ==
  [x EXCEPT !.mpll = [mpll_start(@) EXCEPT !.locked = x.mpll.locked],
            !.taggers = @ \cup {x.mpll.id_ref, x.mpll.id_out}]
start_main(x) ==
  [x EXCEPT !.mpll = mpll_start(@), !.taggers = @ \cup {x.mpll.id_ref, x.mpll.id_out}]

start_ptrackers(x) ==
  [x EXCEPT !.taggers = IF x.ptracker_mask = {} THEN @
                        ELSE @ \cup x.ptracker_mask \cup {MAIN_CHANNEL}]

\* The external reference.  eccr holds the two status bits of the 10 MHz PLL.
external_init(x) ==
  [x EXCEPT !.helper.ref_src = EXT_CHANNEL,
            !.mpll = mpll_init(@, EXT_CHANNEL, MAIN_CHANNEL),
            !.align_state = "EXT_OFF"]

\* A slip of external_start: the aligner is not started over.
external_start_keeps(x) == helper_start(x)
external_start(x) == [helper_start(x) EXCEPT !.align_state = "WAIT_CLKIN"]

\* The aligner has synchronised the counters.
Synchronised == {"START_ALIGNMENT", "WAIT_SAMPLE", "COMPENSATE_DELAY", "LOCKED"}

external_locked(x) ==
  /\ x.helper.ld.locked /\ x.mpll.locked
  /\ "LOCKED" \in x.eccr /\ "STOPPED" \notin x.eccr
  /\ x.align_state \in Synchronised

-----------------------------------------------------------------------------
(***************************************************************************)
(* The sequencer, one operator per state of the switch                     *)
(***************************************************************************)
seq_clear_dacs(x) ==
  [spll_enable_tagger(x, MAIN_CHANNEL, TRUE) EXCEPT
     !.dacs_clear = TRUE, !.dac_timeout = FALSE, !.seq_state = "WAIT_CLEAR_DACS"]

seq_wait_clear_dacs(x) ==
  IF x.dac_timeout
  THEN [x EXCEPT !.dac_timeout = FALSE,
                 !.seq_state = IF x.mode = "GRAND_MASTER" THEN "START_EXT" ELSE "START_HELPER"]
  ELSE x

seq_start_ext(x) ==
  [external_start(spll_enable_tagger(x, MAIN_CHANNEL, FALSE)) EXCEPT !.seq_state = "WAIT_EXT"]

\* Note that the reference's number selects the flag.
become_ready(x) ==
  [set_channel_status(start_ptrackers(x), x.mpll.id_ref, TRUE) EXCEPT !.seq_state = "READY"]

seq_wait_ext(x) == IF external_locked(x) THEN become_ready(x) ELSE x

seq_start_helper(x) == [helper_start(x) EXCEPT !.seq_state = "WAIT_HELPER"]

seq_wait_helper(x) ==
  IF x.helper.ld.locked /\ x.helper.ld.lock_changed
  THEN IF x.mode = "SLAVE" THEN [x EXCEPT !.seq_state = "START_MAIN"] ELSE become_ready(x)
  ELSE x

seq_start_main(x) == [start_main(x) EXCEPT !.seq_state = "WAIT_MAIN"]

seq_wait_main(x) == IF x.mpll.locked THEN become_ready(x) ELSE x

\* Slips of seq_ready: the flag stays up; the sequence is resumed half way.
seq_ready_flag(x) ==
  IF ~x.helper.ld.locked \/ (x.mode = "SLAVE" /\ ~x.mpll.locked)
  THEN [x EXCEPT !.seq_state = "CLEAR_DACS"] ELSE x
seq_ready_resume(x) ==
  IF ~x.helper.ld.locked \/ (x.mode = "SLAVE" /\ ~x.mpll.locked)
  THEN [set_channel_status(x, x.mpll.id_ref, FALSE) EXCEPT !.seq_state = "WAIT_HELPER"] ELSE x
seq_ready(x) ==
  IF \/ x.mode = "GRAND_MASTER" /\ ~external_locked(x)
     \/ ~x.helper.ld.locked
     \/ x.mode = "SLAVE" /\ ~x.mpll.locked
  THEN [set_channel_status(x, x.mpll.id_ref, FALSE) EXCEPT !.seq_state = "CLEAR_DACS"]
  ELSE x

\* A slip of sequencing_fsm: SEQ_WAIT_HELPER only looks at tags of the main output.
sequencing_fsm_main(x, source) ==
  CASE x.seq_state = "DISABLED"        -> x
    [] x.seq_state = "CLEAR_DACS"      -> seq_clear_dacs(x)
    [] x.seq_state = "WAIT_CLEAR_DACS" -> seq_wait_clear_dacs(x)
    [] x.seq_state = "START_HELPER"    -> seq_start_helper(x)
    [] x.seq_state = "WAIT_HELPER"     -> IF source = MAIN_CHANNEL THEN seq_wait_helper(x) ELSE x
    [] x.seq_state = "START_MAIN"      -> seq_start_main(x)
    [] x.seq_state = "WAIT_MAIN"       -> seq_wait_main(x)
    [] x.seq_state = "READY"           -> seq_ready(x)
sequencing_fsm(x, source) ==
  CASE x.seq_state = "DISABLED"        -> x
    [] x.seq_state = "CLEAR_DACS"      -> seq_clear_dacs(x)
    [] x.seq_state = "WAIT_CLEAR_DACS" -> seq_wait_clear_dacs(x)
    [] x.seq_state = "START_EXT"       -> seq_start_ext(x)
    [] x.seq_state = "WAIT_EXT"        -> seq_wait_ext(x)
    [] x.seq_state = "START_HELPER"    -> seq_start_helper(x)
    [] x.seq_state = "WAIT_HELPER"     -> seq_wait_helper(x)
    [] x.seq_state = "START_MAIN"      -> seq_start_main(x)
    [] x.seq_state = "WAIT_MAIN"       -> seq_wait_main(x)
    [] x.seq_state = "READY"           -> seq_ready(x)

-----------------------------------------------------------------------------
(***************************************************************************)
(* The loops.  ok says which of the errors of this tag are small: h for    *)
(* the helper, f and p for the main PLL, af[i] and ap[i] for auxiliary i.  *)
(***************************************************************************)
update_main(x, source, ok) ==
  [x EXCEPT !.mpll = mpll_update(@, source, ok.f, ok.p),
            !.dacs_clear = @ /\ ~writes_dac(x.mpll, source)]

update_aux(x, source, ok) ==
  IF x.seq_state = "READY" /\ x.mode = "SLAVE"
  THEN [x EXCEPT !.aux = [i \in AuxIds |->
          [seq_state |-> x.aux[i].seq_state,
           dmtd |-> mpll_update(x.aux[i].dmtd, source, ok.af[i], ok.ap[i])]]]
  ELSE x

update_loops(x, source, ok) ==
  LET y == helper_update(x, source, ok.h)
  IN  IF y.helper.ld.locked THEN update_aux(update_main(y, source, ok), source, ok) ELSE y

May(e) == IF e \in Faults THEN BOOLEAN ELSE {TRUE}
Errors == [h : May("h"), f : May("f"), p : May("p"),
           af : [AuxIds -> May("af")], ap : [AuxIds -> May("ap")]]
Small == [h |-> TRUE, f |-> TRUE, p |-> TRUE,
          af |-> [i \in AuxIds |-> TRUE], ap |-> [i \in AuxIds |-> TRUE]]

\* spll_irq_entry, for one tag: one that comes now or was left in the FIFO.
Irq(source, ok) ==
  /\ s.cpu_irq /\ s.eic /\ (Preemptible \/ task = <<>>)
  /\ source \in s.taggers \cup trr
  /\ calm => ok = Small
  /\ s' = update_loops(sequencing_fsm(s, source), source, ok)
  /\ trr' = trr \ {source}
  /\ UNCHANGED <<task, reg, calm>>

\* A tag comes from an enabled channel and is not served at once.
HwTag(ch) ==
  /\ ch \in s.taggers \ trr /\ Cardinality(trr) < FifoMax
  /\ trr' = trr \cup {ch}
  /\ UNCHANGED <<s, task, reg, calm>>

\* The deadline of SEQ_WAIT_CLEAR_DACS passes.
Elapse ==
  /\ s.seq_state = "WAIT_CLEAR_DACS" /\ ~s.dac_timeout
  /\ s' = [s EXCEPT !.dac_timeout = TRUE]
  /\ UNCHANGED <<trr, task, reg, calm>>

-----------------------------------------------------------------------------
(***************************************************************************)
(* Calls made by tasks                                                     *)
(***************************************************************************)
\* spll_very_init: everything zero, so the helper's tag_d0 passes for a tag.
spll_very_init ==
  [mode |-> "DISABLED", seq_state |-> "DISABLED", dac_timeout |-> FALSE,
   helper |-> [ref_src |-> 0, fresh |-> FALSE, ld |-> ld_config(HelperLock, HelperDelock)],
   mpll |-> main_zero(NoSchedule), align_state |-> "EXT_OFF",
   aux |-> [i \in AuxIds |-> [seq_state |-> "DISABLED", dmtd |-> main_zero(NoSchedule)]],
   taggers |-> {}, occr |-> {}, eccr |-> {}, dacs_clear |-> FALSE,
   ptracker_mask |-> {}, cpu_irq |-> FALSE, eic |-> FALSE]

\* The part of spll_init that every mode goes through.
init_common(x, mode, ref) ==
  [x EXCEPT !.cpu_irq = FALSE, !.eic = FALSE, !.mode = mode,
            !.taggers = {}, !.occr = {}, !.dacs_clear = FALSE, !.dac_timeout = FALSE,
            !.seq_state = IF mode = "DISABLED" THEN "DISABLED" ELSE "CLEAR_DACS",
            !.helper.ref_src = IF mode = "SLAVE" THEN ref ELSE MAIN_CHANNEL,
            !.mpll = mpll_init(@, ref, MAIN_CHANNEL),
            !.aux = [i \in AuxIds |-> [seq_state |-> "DISABLED",
                                       dmtd |-> mpll_init(x.aux[i].dmtd, ref, MAIN_CHANNEL + i)]]]

\* Its end: interrupts and the main tagger on.
init_done(x) == [spll_enable_tagger(x, MAIN_CHANNEL, TRUE) EXCEPT !.eic = TRUE, !.cpu_irq = TRUE]

spll_init(x, mode, ref) ==
  LET y == init_common(x, mode, ref)
  IN  CASE mode = "DISABLED" -> y
        [] mode = "GRAND_MASTER" -> IF ExtSupported THEN init_done(external_init(y)) ELSE y
        [] OTHER -> init_done(y)

SpllInit(mode, ref) ==
  /\ ~calm /\ task = <<>>
  /\ s' = spll_init(s, mode, ref)
  /\ trr' = IF mode = "GRAND_MASTER" /\ ~ExtSupported THEN trr ELSE {}
  /\ UNCHANGED <<task, reg, calm>>

spll_shutdown(x) == [x EXCEPT !.cpu_irq = FALSE, !.eic = FALSE, !.taggers = {}]

SpllShutdown ==
  /\ ~calm /\ task = <<>>
  /\ s' = spll_shutdown(s)
  /\ UNCHANGED <<trr, task, reg, calm>>

\* spll_set_gain_schedule, spll_set_pi_gain(_kp_ki) and
\* spll_set_ptracker_average_samples: what they change is not in the model,
\* but they end by enabling the CPU's interrupts, whatever they were.
SetUnderIrqLock ==
  /\ task = <<>>
  /\ s' = [s EXCEPT !.cpu_irq = TRUE]
  /\ UNCHANGED <<trr, task, reg, calm>>

\* spll_enable_tagger from a task: load, modify, store.
Register(ch) == IF ch >= NRef THEN NRef..EXT_CHANNEL ELSE Refs
TaggerSteps(ch, on) == <<[op |-> "load_cer", ch |-> ch, on |-> on],
                         [op |-> "store_cer", ch |-> ch, on |-> on]>>

\* spll_enable_ptracker.
EnablePtracker(ch) ==
  /\ task = <<>>
  /\ task' = TaggerSteps(ch, TRUE) \o TaggerSteps(MAIN_CHANNEL, TRUE)
              \o <<[op |-> "mask", ch |-> ch, on |-> TRUE]>>
  /\ UNCHANGED <<s, trr, reg, calm>>

\* A slip of DisablePtracker: the reference of the main PLL is not spared.
DisablePtracker_any(ch) ==
  /\ task = <<>>
  /\ s' = [s EXCEPT !.ptracker_mask = @ \ {ch}]
  /\ task' = TaggerSteps(ch, FALSE)
  /\ UNCHANGED <<trr, reg, calm>>

DisablePtracker(ch) ==
  /\ task = <<>>
  /\ s' = [s EXCEPT !.ptracker_mask = @ \ {ch}]
  /\ task' = IF ch # s.mpll.id_ref THEN TaggerSteps(ch, FALSE) ELSE <<>>
  /\ UNCHANGED <<trr, reg, calm>>

LoadCer ==
  /\ task # <<>> /\ Head(task).op = "load_cer"
  /\ reg' = s.taggers \cap Register(Head(task).ch)
  /\ task' = Tail(task)
  /\ UNCHANGED <<s, trr, calm>>

StoreCer ==
  /\ task # <<>> /\ Head(task).op = "store_cer"
  /\ LET ch == Head(task).ch
         new == IF Head(task).on THEN reg \cup {ch} ELSE reg \ {ch}
     IN  s' = [s EXCEPT !.taggers = (@ \ Register(ch)) \cup new]
  /\ reg' = {}
  /\ task' = Tail(task)
  /\ UNCHANGED <<trr, calm>>

SetMask ==
  /\ task # <<>> /\ Head(task).op = "mask"
  /\ s' = [s EXCEPT !.ptracker_mask = @ \cup {Head(task).ch}]
  /\ task' = Tail(task)
  /\ UNCHANGED <<trr, reg, calm>>

-----------------------------------------------------------------------------
Init ==
  /\ s = spll_very_init
  /\ trr = {} /\ task = <<>> /\ reg = {} /\ calm = FALSE

Settle ==
  /\ ~calm
  /\ calm' = TRUE
  /\ UNCHANGED <<s, trr, task, reg>>

TaskStep == LoadCer \/ StoreCer \/ SetMask

Next ==
  \/ \E ch \in Channels, ok \in Errors : Irq(ch, ok)
  \/ \E ch \in Channels : HwTag(ch)
  \/ Elapse
  \/ \E mode \in Modes, ref \in SlaveRefs : SpllInit(mode, ref)
  \/ SpllShutdown
  \/ SetUnderIrqLock
  \/ \E ch \in Tracked : EnablePtracker(ch) \/ DisablePtracker(ch)
  \/ TaskStep
  \/ Settle

Spec == Init /\ [][Next]_vars

\* Every enabled channel goes on delivering tags, the interrupt is served, the
\* deadline passes and a call that has begun goes on.
Fairness ==
  /\ \A ch \in Channels : WF_vars(\E ok \in Errors : Irq(ch, ok))
  /\ WF_vars(Elapse)
  /\ WF_vars(TaskStep)

FairSpec == Spec /\ Fairness

-----------------------------------------------------------------------------
(***************************************************************************)
(* Properties                                                              *)
(***************************************************************************)
\* The lock flag in OCCR, for a reference that has one, is up exactly while the
\* sequencer is in SEQ_READY: every way out of it, spll_init included, takes it
\* down, whatever the reference was.
FlagMeansReady ==
  s.mpll.id_ref \in OutLock => (s.mpll.id_ref \in s.occr <=> s.seq_state = "READY")

\* SEQ_WAIT_HELPER leaves on the edge of the helper's lock (locked and
\* lock_changed).  The edge cannot be missed: a helper that is locked there
\* has only just locked, whichever channel the tags come from.
HelperEdgeNotMissed ==
  s.seq_state = "WAIT_HELPER" /\ s.helper.ld.locked => s.helper.ld.lock_changed

\* SEQ_READY is entered only from real locks: of the helper and, in a slave or
\* a grandmaster, of both detectors of a main PLL that is running.
Locked == /\ s.helper.ld.locked
          /\ s.mode # "FREE_RUNNING_MASTER" =>
               /\ s.mpll.enabled /\ s.mpll.locked
               /\ s.mpll.freq_ld.locked /\ s.mpll.phase_ld.locked
ReadyIsEarned == [][s.seq_state # "READY" /\ s'.seq_state = "READY" => Locked]_vars

\* While a PLL runs, the channels it works on deliver tags, whatever the phase
\* trackers enable and disable in the same registers meanwhile.
Feeding ==
  CASE s.seq_state \in {"WAIT_HELPER", "START_MAIN", "WAIT_MAIN", "READY"} ->
         {s.helper.ref_src, MAIN_CHANNEL}
    [] s.seq_state = "WAIT_EXT" -> {EXT_CHANNEL}
    [] s.seq_state = "DISABLED" -> {}
    [] OTHER -> {MAIN_CHANNEL}
TaggersFeedLoops == s.eic => Feeding \subseteq s.taggers

\* Once the errors stay small and the mode is left alone, the SoftPLL ends up
\* in SEQ_READY and stays there, from whatever state it was in.
Recovers == <>[](calm /\ s.eic /\ s.cpu_irq => s.seq_state = "READY")
=============================================================================
