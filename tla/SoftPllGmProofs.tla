-------------------------- MODULE SoftPllGmProofs ---------------------------
(***************************************************************************)
(* Proofs about the PPS aligner of a grandmaster (module SoftPllGm), which *)
(* the spll_update task drives beside the interrupt.                       *)
(*                                                                         *)
(* A pass is a list of writes with interrupts between them.  The           *)
(* invariant says, for each list that can be left of a pass, what the      *)
(* state is at that point; SoftPllProofs says what an interrupt leaves of  *)
(* it (IrqFrame).                                                          *)
(***************************************************************************)
EXTENDS SoftPllGm, SoftPllProofs

\* What holds of the state whatever the aligner is doing.
Base(x) ==
  /\ Good(x) /\ (FreqLock < FreqDelock => Backed(x.mpll)) /\ Plain(x)
  /\ x.mpll.phase_shift_current \in Int /\ x.mpll.phase_shift_target \in Int
  /\ x.seq_state # "DISABLED" => x.mpll.id_out = MAIN_CHANNEL
  /\ ~Preemptible => Fed(x)

\* The aligner's states from the start of the main PLL on.
Running == {"START_MAIN", "INIT_CSYNC", "WAIT_CSYNC"} \cup Synchronised

\* The main PLL runs and, if no interrupt comes into a pass, gets its tags.
Driven(x) ==
  /\ x.mpll.enabled
  /\ ~Preemptible => {x.mpll.id_ref, x.mpll.id_out} \subseteq x.taggers

\* What the aligner's state q stands for.
Stands(x, a, q) ==
  /\ q \in Running => Driven(x)
  /\ q \in {"COMPENSATE_DELAY", "LOCKED"} => x.mpll.phase_shift_target = a.shift
  /\ q = "LOCKED" => x.mpll.phase_shift_current = a.shift

ToAlign(q) == [op |-> "align", to |-> q]
ToShift(v) == [op |-> "shift", to |-> v]

\* What can be left of a pass, and what it may count on.
Midway(x, a, w) ==
  \/ \E q : w = <<ToAlign(q)>> /\ Stands(x, a, q)
  \/ w = <<ToShift(a.shift)>> /\ x.align_state \in {"WAIT_SAMPLE", "WAIT_CLKIN"}
  \/ w = <<ToShift(a.shift), ToAlign("COMPENSATE_DELAY")>> /\ Driven(x)
  \/ /\ w = <<ToAlign("WAIT_CLKIN"), ToShift(a.shift), ToAlign("COMPENSATE_DELAY")>>
     /\ Driven(x)
  \/ w = <<[op |-> "mpll_start"], ToAlign("START_MAIN")>>
  \/ w = <<[op |-> "pllrst"], ToAlign("WAIT_PLOCK")>>

Work(x, a, w) ==
  \/ w = <<>> /\ (x.mode = "GRAND_MASTER" => Stands(x, a, x.align_state))
  \/ /\ w # <<>> /\ x.mode = "GRAND_MASTER" /\ Midway(x, a, w)
     /\ x.align_state \in Running => Driven(x)

Latent(a) ==
  DOMAIN a = {"shift", "latency", "old"} /\ a.shift \in Int /\ a.latency \in Int /\ a.old \in Int

GmInv == Base(s) /\ Latent(al) /\ Work(s, al, task)

\* After spll_very_init.
LEMMA GmInitInv == GmInit => GmInv
  <1> SUFFICES ASSUME GmInit PROVE GmInv
    OBVIOUS
  <1>1. IInv /\ Fed(s)
    BY InitIInv, FeedInit DEF GmInit, FeedInv
  <1>2. s.mode = "DISABLED" /\ s.seq_state = "DISABLED" /\ task = <<>>
    BY Zenon DEF GmInit, Init, spll_very_init
  <1>3. s.mpll.phase_shift_current = 0 /\ s.mpll.phase_shift_target = 0
    BY Zenon DEF GmInit, Init, spll_very_init, main_zero
  <1>4. Base(s)
    BY <1>1, <1>2, <1>3 DEF Base, IInv
  <1>5. Latent(al)
    BY DEF GmInit, Latent
  <1>6. Work(s, al, task)
    BY <1>2 DEF Work
  <1>7. QED BY <1>4, <1>5, <1>6 DEF GmInv

\* Steps that leave alone what Base is about.
LEMMA BaseFrame ==
  ASSUME NEW x, NEW y, Base(x), DOMAIN y = Fields, y.mode = x.mode, y.eic = x.eic,
         y.seq_state = x.seq_state, y.helper = x.helper, y.mpll = x.mpll, y.aux = x.aux,
         y.occr = x.occr, x.taggers \subseteq y.taggers
  PROVE  Base(y)
  <1>1. Good(y)
    BY GoodFrame DEF Base
  <1>2. Plain(y)
    BY Zenon DEF Base, Plain
  <1>3. SameRoute(x, y)
    BY DEF SameRoute
  <1>4. Fed(x) => Fed(y)
    BY <1>3, FedFrame
  <1>5. QED BY <1>1, <1>2, <1>4 DEF Base

\* An interrupt keeps Base; it needs the aligner's word that the main PLL is
\* driven when it takes the external lock for granted.
LEMMA IrqBase ==
  ASSUME Base(s), NEW ch, NEW ok \in Errors, Irq(ch, ok),
         s.mode = "GRAND_MASTER" /\ s.align_state \in Running => Driven(s) \/ Preemptible
  PROVE  Base(s')
  <1>1. Good(s') /\ (FreqLock < FreqDelock => Backed(s'.mpll))
    BY IrqGood DEF Base
  <1>2. IrqLeaves(s, s')
    BY SMTT(30), IrqFrame DEF Base
  <1>3. /\ s'.mpll.phase_shift_current \in Int /\ s'.mpll.phase_shift_target \in Int
        /\ s'.mpll.id_out = s.mpll.id_out
    BY <1>2 DEF IrqLeaves, Kept, Restarted, Base
  <1>4. s'.seq_state # "DISABLED" => s.seq_state # "DISABLED"
    <2>1. ASSUME s.seq_state = "DISABLED"
          PROVE  s'.seq_state = "DISABLED"
      <3>1. sequencing_fsm(s, ch) = s
        BY <2>1 DEF sequencing_fsm
      <3>2. LoopsLeave(s, s')
        BY <3>1, LoopsLeaves DEF Irq, Base
      <3>3. QED BY <2>1, <3>2 DEF LoopsLeave
    <2>2. QED BY <2>1
  <1>5. ASSUME ~Preemptible
        PROVE  Fed(s')
    <2> DEFINE y == sequencing_fsm(s, ch)
               z == update_loops(y, ch, ok)
    <2>1. Good(s) /\ Fed(s) /\ s.eic
      BY <1>5 DEF Base, Irq
    <2>2. ASSUME s.seq_state = "WAIT_EXT", external_locked(s)
          PROVE  MAIN_CHANNEL \in s.taggers
      <3>1. s.mode = "GRAND_MASTER" /\ s.align_state \in Running
        BY <2>1, <2>2 DEF Fed, Routed, external_locked, Running
      <3>2. s.mpll.id_out = MAIN_CHANNEL
        BY <2>2 DEF Base
      <3>3. QED BY <1>5, <3>1, <3>2 DEF Driven
    <2>3. Between(y) /\ Fed(y)
      BY <2>1, <2>2, Sequencer, SequencerFed
    <2>4. s' = z
      BY DEF Irq
    <2> HIDE DEF y
    <2>5. SameRoute(y, z) /\ z.taggers = y.taggers /\ z.seq_state = y.seq_state
      BY <2>3, LoopsRoute
    <2> HIDE DEF z
    <2>6. QED BY <2>3, <2>4, <2>5, FedFrame
  <1>6. QED BY <1>1, <1>2, <1>3, <1>4, <1>5 DEF Base, IrqLeaves
\* An interrupt between two writes, or between two passes, keeps what the aligner
\* counts on: the shifter does not leave its target.
LEMMA IrqWork ==
  ASSUME GmInv, NEW ch, NEW ok \in Errors, Irq(ch, ok)
  PROVE  Work(s', al, task)
  <1>1. /\ Base(s) /\ Latent(al) /\ Work(s, al, task) /\ (Preemptible \/ task = <<>>)
    BY DEF GmInv, Irq
  <1>2. IrqLeaves(s, s')
    BY <1>1, IrqFrame DEF Base
  <1>3. s'.mode = s.mode
    BY <1>2 DEF IrqLeaves
  <1>4. CASE s.mode # "GRAND_MASTER"
    BY <1>1, <1>3, <1>4 DEF Work
  <1>5. CASE s.mode = "GRAND_MASTER"
    <2>1. Kept(s.mpll, s'.mpll)
      BY <1>1, <1>2, <1>5 DEF IrqLeaves, Base, Good, ModeOf
    <2>2. ASSUME Driven(s), Preemptible \/ s.taggers \subseteq s'.taggers
          PROVE  Driven(s')
      BY <2>1, <2>2 DEF Driven, Kept
    <2>3. ASSUME NEW q, Stands(s, al, q), Preemptible \/ s.taggers \subseteq s'.taggers
          PROVE  Stands(s', al, q)
      BY SMTT(30), <1>1, <2>1, <2>2, <2>3 DEF Stands, Kept, Base
    <2>4. CASE task = <<>>
      <3>1. CASE s'.align_state = s.align_state /\ s.taggers \subseteq s'.taggers
        BY SMTT(30), <1>1, <1>5, <2>3, <2>4, <3>1 DEF Work
      <3>2. CASE s'.align_state = "WAIT_CLKIN"
        <4>1. Stands(s', al, "WAIT_CLKIN")
          BY DEF Stands, Running, Synchronised
        <4>2. QED BY <2>4, <3>2, <4>1 DEF Work
      <3>3. QED BY <1>2, <3>1, <3>2 DEF IrqLeaves
    <2>5. CASE task # <<>>
      <3>1. Preemptible /\ Midway(s, al, task) /\ (s.align_state \in Running => Driven(s))
        BY <1>1, <2>5 DEF Work
      <3>2. s'.align_state \in {s.align_state, "WAIT_CLKIN"}
        BY <1>2 DEF IrqLeaves
      <3>3. Midway(s', al, task)
        BY SMTT(30), <2>2, <2>3, <3>1, <3>2 DEF Midway
      <3>4. s'.align_state \in Running => Driven(s')
        BY <2>2, <3>1, <3>2 DEF Running, Synchronised
      <3>5. QED BY SMTT(30), <1>3, <1>5, <2>5, <3>3, <3>4 DEF Work
    <2>6. QED BY SMTT(30), <2>4, <2>5
  <1>6. QED BY <1>4, <1>5

\* A pass decides on writes that its state justifies.
LEMMA PassWork ==
  ASSUME GmInv, AlignFsm
  PROVE  GmInv'
  <1>1. /\ Base(s) /\ Latent(al) /\ s' = s /\ s.mode = "GRAND_MASTER"
        /\ Stands(s, al, s.align_state)
    BY Zenon DEF GmInv, Work, AlignFsm, AlignPass, AlignWaitClkin, AlignWaitPlock, AlignStart,
           AlignStartMain, AlignInitCsync, AlignWaitCsync, AlignStartAlignment,
           AlignWaitSample, AlignCompensateDelay, AlignLocked
  <1>2. ASSUME NEW q, NEW p, AlignPass(p, AlignTo(q), al), Stands(s, al, q)
        PROVE  GmInv'
    <2>1. s.align_state = p /\ task' = <<ToAlign(q)>> /\ al' = al
      BY <1>2 DEF AlignPass, AlignTo, ToAlign
    <2>2. QED BY <1>1, <1>2, <2>1 DEF GmInv, Work, Midway, Stands
  <1>3. \A q : q \notin Running => Stands(s, al, q)
    BY DEF Stands, Running, Synchronised
  <1>4. CASE AlignWaitClkin
    <2>1. task' = <<[op |-> "pllrst"], ToAlign("WAIT_PLOCK")>> /\ al' = al
      BY <1>4, Cat11, Zenon DEF AlignWaitClkin, AlignPass, AlignTo, ToAlign
    <2>2. QED BY <1>1, <2>1 DEF GmInv, Work, Midway, Stands
  <1>5. CASE AlignWaitPlock
    <2>1. "WAIT_CLKIN" \notin Running /\ "START" \notin Running
      BY DEF Running, Synchronised
    <2>2. QED BY SMTT(30), <1>2, <1>3, <1>5, <2>1 DEF AlignWaitPlock
  <1>6. CASE AlignStart
    <2>1. CASE AlignPass("START", <<[op |-> "mpll_start"]>> \o AlignTo("START_MAIN"), al)
      <3>1. task' = <<[op |-> "mpll_start"], ToAlign("START_MAIN")>> /\ al' = al
        BY <2>1, Cat11, Zenon DEF AlignPass, AlignTo, ToAlign
      <3>2. QED BY <1>1, <3>1 DEF GmInv, Work, Midway, Stands
    <2>2. CASE AlignPass("START", AlignTo("WAIT_CLKIN"), al)
      <3>1. "WAIT_CLKIN" \notin Running
        BY DEF Running, Synchronised
      <3>2. QED BY <1>2, <1>3, <2>2, <3>1
    <2>3. QED BY SMTT(30), <1>6, <2>1, <2>2 DEF AlignStart
  <1>7. CASE AlignStartMain
    <2>1. CASE AlignPass("START_MAIN", AlignTo("INIT_CSYNC"), al)
      <3>1. Stands(s, al, "INIT_CSYNC")
        BY <1>1, <2>1 DEF AlignPass, Stands, Running
      <3>2. QED BY <1>2, <2>1, <3>1
    <2>2. CASE AlignPass("START_MAIN", AlignTo("WAIT_CLKIN"), al)
      <3>1. "WAIT_CLKIN" \notin Running
        BY DEF Running, Synchronised
      <3>2. QED BY <1>2, <1>3, <2>2, <3>1
    <2>3. QED BY <1>7, <2>1, <2>2 DEF AlignStartMain
  <1>8. CASE AlignInitCsync
    <2>1. Stands(s, al, "WAIT_CSYNC")
      BY <1>1, <1>8 DEF AlignInitCsync, AlignPass, Stands, Running
    <2>2. QED BY <1>2, <1>8, <2>1 DEF AlignInitCsync
  <1>9. CASE AlignWaitCsync
    <2>1. /\ s.align_state = "WAIT_CSYNC" /\ task' = <<ToAlign("START_ALIGNMENT")>>
          /\ al' = [al EXCEPT !.shift = 0]
      BY <1>9 DEF AlignWaitCsync, AlignPass, AlignTo, ToAlign
    <2>2. Latent(al')
      BY <1>1, <2>1 DEF Latent
    <2>3. Stands(s, al', "START_ALIGNMENT") /\ Driven(s)
      BY <1>1, <2>1 DEF Stands, Running, Synchronised
    <2>4. QED BY <1>1, <2>1, <2>2, <2>3 DEF GmInv, Work, Midway
  <1>10. CASE AlignStartAlignment
    <2>1. Stands(s, al, "WAIT_SAMPLE")
      BY <1>1, <1>10 DEF AlignStartAlignment, AlignPass, Stands, Running, Synchronised
    <2>2. QED BY <1>2, <1>10, <2>1 DEF AlignStartAlignment
  <1>11. CASE AlignWaitSample
    <2>1. s.align_state = "WAIT_SAMPLE" /\ Driven(s)
      BY <1>1, <1>11 DEF AlignWaitSample, AlignPass, Stands, Running, Synchronised
    <2>2. CASE AlignPass("WAIT_SAMPLE", Shift(al.shift + 1), [al EXCEPT !.shift = @ + 1])
      <3>1. task' = <<ToShift(al.shift + 1)>> /\ al' = [al EXCEPT !.shift = @ + 1]
        BY <2>2 DEF AlignPass, Shift, ToShift
      <3>2. Latent(al') /\ al'.shift = al.shift + 1
        BY <1>1, <3>1 DEF Latent
      <3>3. QED BY <1>1, <2>1, <3>1, <3>2 DEF GmInv, Work, Midway
    <2>3. CASE LET sh == al.shift + BoardLatency + al.latency
               IN  AlignPass("WAIT_SAMPLE", Shift(sh) \o AlignTo("COMPENSATE_DELAY"),
                             [al EXCEPT !.shift = sh, !.old = al.latency])
      <3> DEFINE sh == al.shift + BoardLatency + al.latency
      <3>1. /\ task' = <<ToShift(sh), ToAlign("COMPENSATE_DELAY")>>
            /\ al' = [al EXCEPT !.shift = sh, !.old = al.latency]
        BY <2>3, Cat11, Zenon DEF AlignPass, Shift, AlignTo, ToShift, ToAlign
      <3>2. sh \in Int
        BY <1>1 DEF BoardLatency, Latent
      <3> HIDE DEF sh
      <3>3. Latent(al') /\ al'.shift = sh
        BY <1>1, <3>1, <3>2 DEF Latent
      <3>4. QED BY SMTT(30), <1>1, <2>1, <3>1, <3>3 DEF GmInv, Work, Midway
    <2>4. QED BY <1>11, <2>2, <2>3 DEF AlignWaitSample
  <1>12. CASE AlignCompensateDelay
    <2>1. Stands(s, al, "LOCKED")
      BY <1>1, <1>12
         DEF AlignCompensateDelay, AlignPass, Stands, Running, Synchronised, mpll_shifter_busy
    <2>2. QED BY <1>2, <1>12, <2>1 DEF AlignCompensateDelay
  <1>13. CASE AlignLocked
    <2> DEFINE restart == IF external_locked(s) THEN <<>> ELSE AlignTo("WAIT_CLKIN")
               sh == al.shift - al.old + al.latency
    <2>1. \/ AlignPass("LOCKED", restart \o Shift(sh) \o AlignTo("COMPENSATE_DELAY"),
                       [al EXCEPT !.shift = sh, !.old = al.latency])
          \/ restart # <<>> /\ AlignPass("LOCKED", restart, al)
      BY <1>13, Zenon DEF AlignLocked
    <2>2. restart = <<>> \/ restart = <<ToAlign("WAIT_CLKIN")>>
      BY Zenon DEF AlignTo, ToAlign
    <2>3. sh \in Int
      BY <1>1 DEF Latent
    <2> HIDE DEF restart, sh
    <2>4. s.align_state = "LOCKED" /\ Driven(s)
      BY <1>1, <2>1 DEF AlignPass, Stands, Running, Synchronised
    <2>5. CASE restart # <<>> /\ AlignPass("LOCKED", restart, al)
      <3>1. "WAIT_CLKIN" \notin Running
        BY DEF Running, Synchronised
      <3>2. QED BY SMTT(30), <1>2, <1>3, <2>2, <2>5, <3>1 DEF AlignTo, ToAlign
    <2>6. CASE AlignPass("LOCKED", restart \o Shift(sh) \o AlignTo("COMPENSATE_DELAY"),
                         [al EXCEPT !.shift = sh, !.old = al.latency])
      <3>1. \/ task' = <<ToShift(sh), ToAlign("COMPENSATE_DELAY")>>
            \/ task' = <<ToAlign("WAIT_CLKIN"), ToShift(sh), ToAlign("COMPENSATE_DELAY")>>
        <4>1. <<>> \o <<ToShift(sh)>> = <<ToShift(sh)>>
          <5>1. <<ToShift(sh)>> \in Seq({ToShift(sh)})
            OBVIOUS
          <5>2. QED BY <5>1, ConcatEmptySeq, Zenon
        <4>2. task' = restart \o <<ToShift(sh)>> \o <<ToAlign("COMPENSATE_DELAY")>>
          BY <2>6, Zenon DEF AlignPass, Shift, AlignTo, ToShift, ToAlign
        <4>3. CASE restart = <<>>
          BY <4>1, <4>2, <4>3, Cat11, Zenon
        <4>4. CASE restart = <<ToAlign("WAIT_CLKIN")>>
          <5>1. restart \o <<ToShift(sh)>> = <<ToAlign("WAIT_CLKIN"), ToShift(sh)>>
            BY <4>4, Cat11, Zenon
          <5>2. QED BY <4>2, <5>1, Cat21, Zenon
        <4>5. QED BY <2>2, <4>3, <4>4
      <3>2. al' = [al EXCEPT !.shift = sh, !.old = al.latency]
        BY <2>6 DEF AlignPass
      <3>3. Latent(al') /\ al'.shift = sh
        BY <1>1, <2>3, <3>2 DEF Latent
      <3>4. QED BY SMTT(30), <1>1, <2>4, <3>1, <3>3 DEF GmInv, Work, Midway
    <2>7. QED BY <2>1, <2>5, <2>6
  <1>14. QED BY SMTT(30), <1>4, <1>5, <1>6, <1>7, <1>8, <1>9, <1>10, <1>11, <1>12, <1>13 DEF AlignFsm
\* start_main, as the aligner calls it: the main PLL runs and gets its tags.
LEMMA StartBase ==
  ASSUME Base(s), s.mode = "GRAND_MASTER", NEW y, y = [start_main(s) EXCEPT !.cpu_irq = TRUE]
  PROVE  Base(y) /\ Driven(y) /\ y.mode = s.mode /\ y.align_state = s.align_state
  <1> DEFINE m == mpll_start(s.mpll)
             t == s.taggers \cup {s.mpll.id_ref, s.mpll.id_out}
             b == [s EXCEPT !.mpll = m]
             c == [b EXCEPT !.taggers = t]
  <1>1. y = [c EXCEPT !.cpu_irq = TRUE]
    BY Zenon DEF start_main
  <1>2. Good(s) /\ Plain(s) /\ s.seq_state # "DISABLED"
    BY DEF Base, Good, ModeOf
  <1>3. MainShape(m) /\ FreqShape(m) /\ m.enabled /\ ~m.locked /\ m.id_ref = s.mpll.id_ref
    BY <1>2, MpllStart DEF Good, Shape
  <1>4. /\ m.id_out = s.mpll.id_out
        /\ m.phase_shift_current = 0 /\ m.phase_shift_target = 0
    BY <1>2, Zenon DEF Plain, mpll_start, MainFields
  <1>5. s.taggers \subseteq t /\ {s.mpll.id_ref, s.mpll.id_out} \subseteq t
    OBVIOUS
  <1> HIDE DEF m, t
  <1>6. /\ DOMAIN b = Fields /\ b.mode = s.mode /\ b.seq_state = s.seq_state
        /\ b.helper = s.helper /\ b.mpll = m /\ b.aux = s.aux /\ b.occr = s.occr
        /\ b.eic = s.eic /\ b.align_state = s.align_state
    BY <1>2, Zenon DEF Plain, Fields
  <1> HIDE DEF b
  <1>7. /\ DOMAIN c = Fields /\ c.mode = s.mode /\ c.seq_state = s.seq_state
        /\ c.helper = s.helper /\ c.mpll = m /\ c.aux = s.aux /\ c.occr = s.occr
        /\ c.eic = s.eic /\ c.align_state = s.align_state /\ c.taggers = t
    BY <1>6, Zenon DEF Fields
  <1> HIDE DEF c
  <1>8. /\ DOMAIN y = Fields /\ y.mode = s.mode /\ y.seq_state = s.seq_state
        /\ y.helper = s.helper /\ y.mpll = m /\ y.aux = s.aux /\ y.occr = s.occr
        /\ y.eic = s.eic /\ y.align_state = s.align_state /\ y.taggers = t
    BY <1>1, <1>7, Zenon DEF Fields
  <1>9. Shape(y)
    <2>1. m.freq_ld.lock_samples = FreqLock /\ m.freq_ld.delock_samples = FreqDelock
      BY <1>3 DEF FreqShape
    <2>2. QED BY <1>2, <1>3, <1>8, <2>1, Zenon DEF Good, Shape
  <1>10. Flag(y) /\ ModeOf(y) /\ Edge(y) /\ Waiting(y)
    BY <1>2, <1>3, <1>8, Zenon DEF Good, Flag, ModeOf, Edge, Waiting
  <1>11. Plain(y) /\ Backed(y.mpll)
    BY <1>2, <1>3, <1>8, Zenon DEF Plain, MainShape, Backed
  <1>12. SameRoute(s, y)
    BY <1>3, <1>8 DEF SameRoute
  <1>13. ~Preemptible => Fed(y)
    BY Zenon, <1>5, <1>8, <1>12, FedFrame DEF Base
  <1>14. Base(y)
    BY SMTT(30), <1>4, <1>8, <1>9, <1>10, <1>11, <1>13 DEF Base, Good
  <1>15. Driven(y)
    BY SMTT(30), <1>3, <1>4, <1>5, <1>8 DEF Driven
  <1>16. QED BY <1>8, <1>14, <1>15

\* mpll_set_phase_shift: the target and nothing else.
LEMMA ShiftBase ==
  ASSUME Base(s), NEW v \in Int, NEW y, y = [s EXCEPT !.mpll = mpll_set_phase_shift(@, v)]
  PROVE  /\ Base(y) /\ y.mode = s.mode /\ y.align_state = s.align_state
         /\ y.mpll.phase_shift_target = v /\ (Driven(s) => Driven(y))
  <1> DEFINE m == mpll_set_phase_shift(s.mpll, v)
  <1>1. Good(s) /\ Plain(s)
    BY DEF Base
  <1>2. /\ DOMAIN m = MainFields /\ m.enabled = s.mpll.enabled /\ m.locked = s.mpll.locked
        /\ m.freq_ld = s.mpll.freq_ld /\ m.phase_ld = s.mpll.phase_ld
        /\ m.gain_sched = s.mpll.gain_sched /\ m.id_ref = s.mpll.id_ref
        /\ m.id_out = s.mpll.id_out /\ m.phase_shift_target = v
        /\ m.phase_shift_current = s.mpll.phase_shift_current
    BY <1>1, Zenon DEF Plain, mpll_set_phase_shift, MainFields
  <1>3. y = [s EXCEPT !.mpll = m]
    BY Zenon
  <1> HIDE DEF m
  <1>4. /\ DOMAIN y = Fields /\ y.mode = s.mode /\ y.seq_state = s.seq_state
        /\ y.helper = s.helper /\ y.mpll = m /\ y.aux = s.aux /\ y.occr = s.occr
        /\ y.eic = s.eic /\ y.align_state = s.align_state /\ y.taggers = s.taggers
    BY <1>1, <1>3, Zenon DEF Plain, Fields
  <1>5. MainShape(m) /\ FreqShape(m) /\ (Backed(s.mpll) => Backed(m))
    <2>1. MainShape(s.mpll) /\ FreqShape(s.mpll)
      BY <1>1 DEF Good, Shape
    <2>2. MainShape(m)
      BY <1>2, <2>1, Zenon DEF MainShape
    <2>3. FreqShape(m)
      BY <1>2, <2>1 DEF FreqShape
    <2>4. Backed(s.mpll) => Backed(m)
      BY <1>2, Zenon DEF Backed
    <2>5. QED BY <2>2, <2>3, <2>4
  <1>6. Shape(y)
    BY <1>1, <1>2, <1>4, <1>5, Zenon DEF Good, Shape
  <1>7. Flag(y) /\ ModeOf(y) /\ Edge(y) /\ Waiting(y)
    BY <1>1, <1>2, <1>4, Zenon DEF Good, Flag, ModeOf, Edge, Waiting
  <1>8. Plain(y)
    BY <1>1, <1>2, <1>4, Zenon DEF Plain
  <1>9. SameRoute(s, y)
    BY <1>2, <1>4 DEF SameRoute
  <1>10. ~Preemptible => Fed(y)
    BY Zenon, <1>4, <1>9, FedFrame DEF Base
  <1>11. Base(y)
    BY SMTT(30), <1>2, <1>4, <1>5, <1>6, <1>7, <1>8, <1>10 DEF Base, Good
  <1>12. Driven(s) => Driven(y)
    <2>1. /\ y.mpll.enabled = s.mpll.enabled /\ y.taggers = s.taggers
          /\ {y.mpll.id_ref, y.mpll.id_out} = {s.mpll.id_ref, s.mpll.id_out}
      BY <1>2, <1>4
    <2>2. QED BY <2>1, Zenon DEF Driven
  <1>13. QED BY SMTT(30), <1>2, <1>4, <1>11, <1>12

\* Every write of a pass leads to what the rest of it counts on.
LEMMA WriteWork ==
  ASSUME GmInv, AlignWrite
  PROVE  GmInv'
  <1>1. /\ Base(s) /\ Latent(al) /\ al' = al /\ s.mode = "GRAND_MASTER"
        /\ Midway(s, al, task) /\ (s.align_state \in Running => Driven(s))
        /\ task' = Tail(task)
    BY DEF GmInv, Work, AlignWrite
  <1>2. ASSUME NEW q, Head(task) = ToAlign(q)
        PROVE  /\ Base(s') /\ s'.mode = s.mode /\ s'.align_state = q /\ s'.mpll = s.mpll
               /\ s'.taggers = s.taggers
    <2>1. Head(task).op = "align" /\ Head(task).to = q
      BY <1>2 DEF ToAlign
    <2>2. s' = [s EXCEPT !.align_state = q]
      BY <2>1 DEF AlignWrite
    <2>3. /\ DOMAIN s' = Fields /\ s'.mode = s.mode /\ s'.seq_state = s.seq_state
          /\ s'.helper = s.helper /\ s'.mpll = s.mpll /\ s'.aux = s.aux /\ s'.occr = s.occr
          /\ s'.eic = s.eic /\ s'.align_state = q /\ s'.taggers = s.taggers
      BY <1>1, <2>2, Zenon DEF Base, Plain, Fields
    <2>4. Base(s')
      BY <1>1, <2>3, BaseFrame
    <2>5. QED BY <2>3, <2>4
  <1>3. ASSUME Head(task) = ToShift(al.shift)
        PROVE  /\ Base(s') /\ s'.mode = s.mode /\ s'.align_state = s.align_state
               /\ s'.mpll.phase_shift_target = al.shift /\ (Driven(s) => Driven(s'))
    <2>1. Head(task).op = "shift" /\ Head(task).to = al.shift
      BY <1>3 DEF ToShift
    <2>2. s' = [s EXCEPT !.mpll = mpll_set_phase_shift(@, al.shift)]
      BY <2>1 DEF AlignWrite
    <2>3. al.shift \in Int
      BY <1>1 DEF Latent
    <2>4. QED BY Zenon, <1>1, <2>2, <2>3, ShiftBase
  <1>4. CASE \E q : task = <<ToAlign(q)>> /\ Stands(s, al, q)
    <2>1. PICK q : task = <<ToAlign(q)>> /\ Stands(s, al, q)
      BY <1>4
    <2>2. Head(task) = ToAlign(q) /\ Tail(task) = <<>>
      BY <2>1
    <2>3. Stands(s', al, q)
      BY SMTT(30), <1>2, <2>1, <2>2 DEF Stands, Driven
    <2>4. QED BY SMTT(30), <1>1, <1>2, <2>2, <2>3 DEF GmInv, Work
  <1>5. CASE /\ task = <<ToShift(al.shift)>>
             /\ s.align_state \in {"WAIT_SAMPLE", "WAIT_CLKIN"}
    <2>1. Head(task) = ToShift(al.shift) /\ Tail(task) = <<>>
      BY <1>5
    <2>2. Stands(s', al, s'.align_state)
      BY SMTT(30), <1>1, <1>3, <1>5, <2>1 DEF Stands
    <2>3. QED BY SMTT(30), <1>1, <1>3, <2>1, <2>2 DEF GmInv, Work
  <1>6. CASE task = <<ToShift(al.shift), ToAlign("COMPENSATE_DELAY")>> /\ Driven(s)
    <2>1. Head(task) = ToShift(al.shift) /\ Tail(task) = <<ToAlign("COMPENSATE_DELAY")>>
      BY <1>6
    <2>2. Driven(s') /\ Stands(s', al, "COMPENSATE_DELAY")
      BY SMTT(30), <1>3, <1>6, <2>1 DEF Stands
    <2>3. QED BY SMTT(30), <1>1, <1>3, <2>1, <2>2 DEF GmInv, Work, Midway
  <1>7. CASE /\ task = <<ToAlign("WAIT_CLKIN"), ToShift(al.shift), ToAlign("COMPENSATE_DELAY")>>
             /\ Driven(s)
    <2>1. /\ Head(task) = ToAlign("WAIT_CLKIN")
          /\ Tail(task) = <<ToShift(al.shift), ToAlign("COMPENSATE_DELAY")>>
      BY <1>7
    <2>2. Driven(s')
      BY SMTT(30), <1>2, <1>7, <2>1 DEF Driven
    <2>3. QED BY SMTT(30), <1>1, <1>2, <2>1, <2>2 DEF GmInv, Work, Midway
  <1>8. CASE task = <<[op |-> "mpll_start"], ToAlign("START_MAIN")>>
    <2>1. Head(task) = [op |-> "mpll_start"] /\ Tail(task) = <<ToAlign("START_MAIN")>>
      BY <1>8
    <2>2. Head(task).op = "mpll_start"
      BY <2>1
    <2>3. s' = [start_main(s) EXCEPT !.cpu_irq = TRUE]
      BY <2>2 DEF AlignWrite
    <2>4. Base(s') /\ Driven(s') /\ s'.mode = s.mode
      BY Zenon, <1>1, <2>3, StartBase
    <2>5. Stands(s', al, "START_MAIN")
      BY SMTT(30), <2>4 DEF Stands
    <2>6. QED BY SMTT(30), <1>1, <2>1, <2>4, <2>5 DEF GmInv, Work, Midway
  <1>9. CASE task = <<[op |-> "pllrst"], ToAlign("WAIT_PLOCK")>>
    <2>1. Head(task) = [op |-> "pllrst"] /\ Tail(task) = <<ToAlign("WAIT_PLOCK")>>
      BY <1>9
    <2>2. Head(task).op = "pllrst"
      BY <2>1
    <2>3. s' = [s EXCEPT !.eccr = @ \ {"LOCKED"}]
      BY <2>2 DEF AlignWrite
    <2>4. /\ DOMAIN s' = Fields /\ s'.mode = s.mode /\ s'.seq_state = s.seq_state
          /\ s'.helper = s.helper /\ s'.mpll = s.mpll /\ s'.aux = s.aux /\ s'.occr = s.occr
          /\ s'.eic = s.eic /\ s'.align_state = s.align_state /\ s'.taggers = s.taggers
      BY <1>1, <2>3, Zenon DEF Base, Plain, Fields
    <2>5. Base(s')
      BY SMTT(30), <1>1, <2>4, BaseFrame
    <2>6. Driven(s) => Driven(s')
      BY <2>4 DEF Driven
    <2>7. Stands(s', al, "WAIT_PLOCK")
      BY DEF Stands, Running, Synchronised
    <2>8. QED BY SMTT(30), <1>1, <2>1, <2>4, <2>5, <2>6, <2>7 DEF GmInv, Work, Midway
  <1>10. QED BY SMTT(30), <1>1, <1>4, <1>5, <1>6, <1>7, <1>8, <1>9 DEF Midway
\* Every step of a grandmaster's SoftPLL, the interrupt between any two writes
\* included.
LEMMA GmStep ==
  ASSUME GmInv, [GmNext]_gmvars, ExtSupported
  PROVE  GmInv'
  <1>0. Base(s) /\ Latent(al) /\ Work(s, al, task) /\ DOMAIN s = Fields
    BY DEF GmInv, Base, Plain
  <1>1. ASSUME NEW ch \in Channels, NEW ok \in Errors, Irq(ch, ok), UNCHANGED al
        PROVE  GmInv'
    <2>1. Work(s', al, task)
      BY <1>1, IrqWork
    <2>2. s.mode = "GRAND_MASTER" /\ s.align_state \in Running => Driven(s)
      BY <1>0 DEF Work, Stands
    <2>3. Base(s')
      BY SMTT(30), <1>0, <1>1, <2>2, IrqBase
    <2>4. QED BY SMTT(30), <1>0, <1>1, <2>1, <2>3 DEF GmInv, Irq
  <1>2. ASSUME NEW mode \in Modes, NEW ref \in SlaveRefs, SpllInit(mode, ref), UNCHANGED al
        PROVE  GmInv'
    <2>1. s' = spll_init(s, mode, ref) /\ task' = <<>> /\ Good(s) /\ Plain(s)
      BY <1>0, <1>2 DEF SpllInit, Base
    <2>2. Good(s') /\ ~s'.mpll.enabled
      BY <2>1, SpllInitGood
    <2>3. Backed(s'.mpll)
      BY <2>2 DEF Backed
    <2>4. InitLeaves(s, s', mode, ref)
      BY <2>1, SpllInitPlain
    <2>5. Fed(s')
      BY SMTT(30), <2>1, SpllInitFed
    <2>6. Base(s')
      BY SMTT(30), <1>0, <2>2, <2>3, <2>4, <2>5 DEF Base, InitLeaves
    <2>7. s'.mode = "GRAND_MASTER" => Stands(s', al, s'.align_state)
      BY <2>4 DEF InitLeaves, Stands, Running, Synchronised
    <2>8. QED BY SMTT(30), <1>0, <1>2, <2>1, <2>6, <2>7 DEF GmInv, Work
  <1>3. ASSUME \/ ExtPllLocks \/ ExtPllUnlocks \/ ExtPlug
               \/ Elapse /\ UNCHANGED al
               \/ GmSettle /\ UNCHANGED al
               \/ UNCHANGED gmvars
        PROVE  GmInv'
    <2>1. /\ DOMAIN s' = Fields /\ s'.mode = s.mode /\ s'.seq_state = s.seq_state
          /\ s'.helper = s.helper /\ s'.mpll = s.mpll /\ s'.aux = s.aux /\ s'.occr = s.occr
          /\ s'.eic = s.eic /\ s'.align_state = s.align_state /\ s'.taggers = s.taggers
      <3>1. CASE \E e : s' = [s EXCEPT !.eccr = e]
        BY <1>0, <3>1, Zenon DEF Fields
      <3>2. CASE Elapse
        BY <1>0, <3>2, Zenon DEF Elapse, Fields
      <3>3. CASE s' = s
        BY <1>0, <3>3
      <3>4. QED
        BY <1>3, <3>1, <3>2, <3>3, Zenon
           DEF ExtPllLocks, ExtPllUnlocks, ExtPlug, GmSettle, Settle, gmvars, vars
    <2>2. task' = task /\ al' = al
      BY <1>3 DEF ExtPllLocks, ExtPllUnlocks, ExtPlug, Elapse, GmSettle, Settle, gmvars, vars
    <2>3. Base(s')
      BY SMTT(30), <1>0, <2>1, BaseFrame
    <2>4. Work(s', al, task)
      <3>1. Driven(s') <=> Driven(s)
        BY <2>1 DEF Driven
      <3>2. \A q : Stands(s', al, q) <=> Stands(s, al, q)
        BY SMTT(30), <2>1, <3>1 DEF Stands
      <3>3. Midway(s', al, task) <=> Midway(s, al, task)
        BY <2>1, <3>1, <3>2 DEF Midway
      <3>4. QED BY SMTT(30), <1>0, <2>1, <3>1, <3>2, <3>3 DEF Work
    <2>5. QED BY <1>0, <2>2, <2>3, <2>4 DEF GmInv
  <1>4. ASSUME NEW v \in Latencies, SetLatency(v)
        PROVE  GmInv'
    <2>1. al' = [al EXCEPT !.latency = v] /\ v \in Int /\ s' = s /\ task' = task /\ task = <<>>
      BY <1>4, GmAssumption DEF SetLatency, vars
    <2>2. Latent(al') /\ al'.shift = al.shift
      BY <1>0, <2>1 DEF Latent
    <2>3. Work(s, al', task)
      BY <1>0, <2>1, <2>2 DEF Work, Stands
    <2>4. QED BY SMTT(30), <1>0, <2>1, <2>2, <2>3 DEF GmInv
  <1>5. QED
    BY SMTT(30), <1>1, <1>2, <1>3, <1>4, PassWork, WriteWork DEF GmNext

(***************************************************************************)
(* In a grandmaster the aligner reports ALIGN_STATE_LOCKED only with its   *)
(* shift fully applied, wherever the interrupt comes in a pass.            *)
(***************************************************************************)
THEOREM AlignedTheorem ==
  ASSUME ExtSupported
  PROVE  GmSpec => []AlignedMeansShifted
  <1>1. GmInv /\ [GmNext]_gmvars => GmInv'
    BY GmStep
  <1>2. GmInv => AlignedMeansShifted
    BY DEF GmInv, Work, Stands, AlignedMeansShifted, mpll_shifter_busy
  <1>3. QED BY GmInitInv, <1>1, <1>2, PTL DEF GmSpec

\* The sequencer is the only one to enter SEQ_READY, from a state that waits.
LEMMA GmReadyStep ==
  ASSUME GmInv, [GmNext]_gmvars, ExtSupported, s.seq_state # "READY", s'.seq_state = "READY"
  PROVE  /\ FreqLock < FreqDelock => Locked
         /\ ~Preemptible /\ s.mode # "FREE_RUNNING_MASTER" =>
              {s.mpll.id_ref, s.mpll.id_out} \subseteq s.taggers
  <1>1. Base(s) /\ Work(s, al, task) /\ Good(s) /\ Plain(s) /\ DOMAIN s = Fields
    BY DEF GmInv, Base, Plain
  <1>2. PICK ch \in Channels, ok \in Errors : Irq(ch, ok)
    <2>1. ASSUME NEW mode \in Modes, NEW ref \in SlaveRefs, SpllInit(mode, ref)
          PROVE  FALSE
      <3>1. InitLeaves(s, s', mode, ref)
        BY <1>1, <2>1, SpllInitPlain DEF SpllInit
      <3>2. QED BY <3>1 DEF InitLeaves
    <2>2. ASSUME AlignWrite
          PROVE  FALSE
      <3>1. \/ \E q : s' = [s EXCEPT !.align_state = q]
            \/ \E m : s' = [s EXCEPT !.mpll = m]
            \/ \E e : s' = [s EXCEPT !.eccr = e]
            \/ s' = [start_main(s) EXCEPT !.cpu_irq = TRUE]
        BY <2>2 DEF AlignWrite
      <3>2. DOMAIN start_main(s) = Fields /\ start_main(s).seq_state = s.seq_state
        BY <1>1, Zenon DEF start_main, Fields
      <3>3. s'.seq_state = s.seq_state
        BY <1>1, <3>1, <3>2, Zenon DEF Fields
      <3>4. QED BY <3>3
    <2>3. ASSUME ExtPllLocks \/ ExtPllUnlocks \/ ExtPlug \/ Elapse
          PROVE  FALSE
      <3>1. (\E e : s' = [s EXCEPT !.eccr = e]) \/ s' = [s EXCEPT !.dac_timeout = TRUE]
        BY <2>3, Zenon DEF ExtPllLocks, ExtPllUnlocks, ExtPlug, Elapse
      <3>2. s'.seq_state = s.seq_state
        BY <1>1, <3>1, Zenon DEF Fields
      <3>3. QED BY <3>2
    <2>4. ASSUME AlignFsm \/ (\E v \in Latencies : SetLatency(v)) \/ GmSettle \/ UNCHANGED gmvars
          PROVE  FALSE
      BY Zenon, <2>4 DEF AlignFsm, AlignPass, AlignWaitClkin, AlignWaitPlock, AlignStart,
           AlignStartMain, AlignInitCsync, AlignWaitCsync, AlignStartAlignment,
           AlignWaitSample, AlignCompensateDelay, AlignLocked, SetLatency, GmSettle, Settle,
           gmvars, vars
    <2>5. QED BY SMTT(30), <2>1, <2>2, <2>3, <2>4 DEF GmNext
  <1>3. Earned(s) \/ (s.seq_state = "WAIT_EXT" /\ external_locked(s))
    BY SMTT(30), <1>1, <1>2, IrqGood
  <1>4. s.mode = "GRAND_MASTER" /\ s.align_state \in Running => Driven(s)
    BY <1>1 DEF Work, Stands
  <1>5. CASE Earned(s)
    <2>1. FreqLock < FreqDelock => Locked
      BY SMTT(30), <1>1, <1>5 DEF Base, Earned, Backed, Locked
    <2>2. ASSUME ~Preemptible, s.mode # "FREE_RUNNING_MASTER"
          PROVE  {s.mpll.id_ref, s.mpll.id_out} \subseteq s.taggers
      <3>1. s.mode = "SLAVE" /\ s.seq_state # "DISABLED"
        BY SMTT(30), <1>1, <1>5, <2>2 DEF Earned, Good, ModeOf
      <3>2. s.helper.ref_src = s.mpll.id_ref /\ s.mpll.id_out = MAIN_CHANNEL /\ s.eic
        BY SMTT(30), <1>1, <1>2, <2>2, <3>1 DEF Base, Fed, Routed, Irq
      <3>3. Wants(s) = {s.helper.ref_src, MAIN_CHANNEL}
        BY SMTT(30), <1>5, WantsAre DEF Earned
      <3>4. QED BY SMTT(30), <1>1, <2>2, <3>2, <3>3 DEF Base, Fed
    <2>3. QED BY SMTT(30), <2>1, <2>2
  <1>6. CASE s.seq_state = "WAIT_EXT" /\ external_locked(s)
    <2>1. s.helper.ld.locked /\ s.mpll.locked /\ s.align_state \in Running
      BY <1>6 DEF external_locked, Running
    <2>2. s.mode = "GRAND_MASTER"
      BY <1>1, <1>6 DEF Good, ModeOf
    <2>3. Driven(s)
      BY <1>4, <2>1, <2>2
    <2>4. QED BY SMTT(30), <1>1, <2>1, <2>2, <2>3 DEF Driven, Base, Backed, Locked
  <1>7. QED BY SMTT(30), <1>3, <1>5, <1>6

(***************************************************************************)
(* SEQ_READY is entered on real locks, of a main PLL that gets its tags,   *)
(* if no interrupt comes into a pass of the aligner.                       *)
(***************************************************************************)
THEOREM GmReadyTheorem ==
  ASSUME ExtSupported, FreqLock < FreqDelock, ~Preemptible
  PROVE  GmSpec => GmReadyIsEarned
  <1>1. GmInv /\ [GmNext]_gmvars => GmInv'
    BY GmStep
  <1>2. ASSUME GmInv, [GmNext]_gmvars, s.seq_state # "READY", s'.seq_state = "READY"
        PROVE  /\ Locked
               /\ s.mode # "FREE_RUNNING_MASTER" =>
                    {s.mpll.id_ref, s.mpll.id_out} \subseteq s.taggers
    BY <1>2, GmReadyStep
  <1>3. GmInv /\ [GmNext]_gmvars =>
          [s.seq_state # "READY" /\ s'.seq_state = "READY"
             => /\ Locked
                /\ s.mode # "FREE_RUNNING_MASTER" =>
                     {s.mpll.id_ref, s.mpll.id_out} \subseteq s.taggers]_gmvars
    BY <1>2
  <1>4. QED BY GmInitInv, <1>1, <1>3, PTL DEF GmSpec, GmReadyIsEarned

(***************************************************************************)
(* The locks are real even with interrupts in the middle of a pass; only   *)
(* the taggers need a pass that is not interrupted.                        *)
(***************************************************************************)
THEOREM GmLockTheorem ==
  ASSUME ExtSupported, FreqLock < FreqDelock
  PROVE  GmSpec => [][s.seq_state # "READY" /\ s'.seq_state = "READY" => Locked]_gmvars
  <1>1. GmInv /\ [GmNext]_gmvars => GmInv'
    BY GmStep
  <1>2. GmInv /\ [GmNext]_gmvars =>
          [s.seq_state # "READY" /\ s'.seq_state = "READY" => Locked]_gmvars
    BY GmReadyStep
  <1>3. QED BY GmInitInv, <1>1, <1>2, PTL DEF GmSpec

(***************************************************************************)
(* The lock flag of the reference, and the edge of the helper's lock, with *)
(* the aligner running.                                                    *)
(***************************************************************************)
THEOREM GmFlagTheorem ==
  ASSUME ExtSupported
  PROVE  GmSpec => [](FlagMeansReady /\ HelperEdgeNotMissed)
  <1>1. GmInv /\ [GmNext]_gmvars => GmInv'
    BY GmStep
  <1>2. GmInv => FlagMeansReady /\ HelperEdgeNotMissed
    BY DEF GmInv, Base, Good, Flag, Edge, FlagMeansReady, HelperEdgeNotMissed
  <1>3. QED BY GmInitInv, <1>1, <1>2, PTL DEF GmSpec

(***************************************************************************)
(* While a PLL of a grandmaster runs, its channels deliver tags, if no     *)
(* interrupt comes into a pass of the aligner.                             *)
(***************************************************************************)
THEOREM GmTaggersTheorem ==
  ASSUME ExtSupported, ~Preemptible
  PROVE  GmSpec => []TaggersFeedLoops
  <1>1. GmInv /\ [GmNext]_gmvars => GmInv'
    BY GmStep
  <1>2. GmInv => TaggersFeedLoops
    BY DEF GmInv, Base, Fed, Wants, Feeding, TaggersFeedLoops
  <1>3. QED BY GmInitInv, <1>1, <1>2, PTL DEF GmSpec
=============================================================================
