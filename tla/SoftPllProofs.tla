---------------------------- MODULE SoftPllProofs ---------------------------
(***************************************************************************)
(* Proofs about the sequencer and the loops of the SoftPLL (module         *)
(* SoftPll), for any number of channels and any thresholds of the lock     *)
(* detectors, with the interrupt free to come anywhere in a call.          *)
(*                                                                         *)
(* The invariant is a predicate of the state record, so that an interrupt  *)
(* can be followed in two halves: sequencing_fsm takes a state with Good   *)
(* to one with Between, and update_loops takes that back to Good.          *)
(***************************************************************************)
EXTENDS SoftPll, SequenceTheorems, TLAPS

(***************************************************************************)
(* ld_update on any record, as in LoopProofs                               *)
(***************************************************************************)
\* Any lock detector, with any pair of thresholds.
LdRec == [lock_cnt : Nat, lock_samples : Nat, delock_samples : Nat,
          locked : BOOLEAN, lock_changed : BOOLEAN]

(***************************************************************************)
(* A sample inside the threshold: the thresholds are kept, the counter     *)
(* goes up by one until it is full, the detector is locked from then on    *)
(* and lock_changed marks the sample that locked it.                       *)
(***************************************************************************)
LEMMA GoodShape ==
  ASSUME NEW d \in LdRec
  PROVE  /\ ld_good(d) \in LdRec
         /\ ld_good(d).lock_samples = d.lock_samples
         /\ ld_good(d).delock_samples = d.delock_samples
         /\ ld_good(d).lock_cnt = IF d.lock_cnt < d.lock_samples THEN d.lock_cnt + 1
                                                                 ELSE d.lock_cnt
         /\ ld_good(d).locked <=> (d.locked \/ ld_good(d).lock_cnt = d.lock_samples)
         /\ ld_good(d).lock_changed <=> (ld_good(d).locked /\ ~d.locked)
  <1> DEFINE cnt  == IF d.lock_cnt < d.lock_samples THEN d.lock_cnt + 1 ELSE d.lock_cnt
             full == cnt = d.lock_samples
  <1>1. ld_good(d) = [d EXCEPT !.lock_cnt = cnt, !.lock_changed = full /\ ~d.locked,
                               !.locked = d.locked \/ full]
    BY DEF ld_good, LdRec
  <1>2. cnt \in Nat
    BY DEF LdRec
  <1> HIDE DEF cnt, full
  <1>3. d \in [lock_cnt : Nat, lock_samples : Nat, delock_samples : Nat,
               locked : BOOLEAN, lock_changed : BOOLEAN]
    BY DEF LdRec
  <1>4. /\ full \in BOOLEAN /\ d.locked \in BOOLEAN
    BY <1>3 DEF full
  <1>5. /\ ld_good(d).lock_cnt = cnt
        /\ ld_good(d).lock_changed = (full /\ ~d.locked)
        /\ ld_good(d).locked = (d.locked \/ full)
        /\ ld_good(d).lock_samples = d.lock_samples
        /\ ld_good(d).delock_samples = d.delock_samples
    BY <1>1, <1>3, Zenon
  <1>6. ld_good(d) \in LdRec
    BY Zenon, <1>1, <1>2, <1>3 DEF LdRec
  <1>7. QED
    BY Zenon, <1>4, <1>5, <1>6 DEF cnt, full

(***************************************************************************)
(* A sample outside the threshold: the counter goes down to, and not       *)
(* below, delock_samples; a locked detector that gets there unlocks and    *)
(* restarts from zero.                                                     *)
(***************************************************************************)
LEMMA BadShape ==
  ASSUME NEW d \in LdRec
  PROVE  LET cnt == IF d.lock_cnt > d.delock_samples THEN d.lock_cnt - 1 ELSE d.lock_cnt
         IN  /\ ld_bad(d) \in LdRec
             /\ ld_bad(d).lock_samples = d.lock_samples
             /\ ld_bad(d).delock_samples = d.delock_samples
             /\ ld_bad(d).locked <=> (d.locked /\ cnt # d.delock_samples)
             /\ ld_bad(d).lock_changed <=> (d.locked /\ ~ld_bad(d).locked)
             /\ ld_bad(d).lock_cnt = IF d.locked /\ ~ld_bad(d).locked THEN 0 ELSE cnt
  <1> DEFINE cnt   == IF d.lock_cnt > d.delock_samples THEN d.lock_cnt - 1 ELSE d.lock_cnt
             loses == cnt = d.delock_samples /\ d.locked
             nxt   == IF loses THEN 0 ELSE cnt
  <1>1. ld_bad(d) = [d EXCEPT !.lock_cnt = nxt, !.lock_changed = loses,
                              !.locked = d.locked /\ ~loses]
    BY DEF ld_bad, LdRec
  <1>2. cnt \in Nat /\ nxt \in Nat
    BY DEF LdRec
  <1>3. d \in [lock_cnt : Nat, lock_samples : Nat, delock_samples : Nat,
               locked : BOOLEAN, lock_changed : BOOLEAN]
    BY DEF LdRec
  <1>4. loses \in BOOLEAN /\ d.locked \in BOOLEAN
    BY <1>3
  <1>a. loses <=> (cnt = d.delock_samples /\ d.locked)
    OBVIOUS
  <1>b. nxt = IF loses THEN 0 ELSE cnt
    OBVIOUS
  <1> HIDE DEF loses, nxt
  <1>5. /\ ld_bad(d).lock_cnt = nxt
        /\ ld_bad(d).lock_changed = loses
        /\ ld_bad(d).locked = (d.locked /\ ~loses)
        /\ ld_bad(d).lock_samples = d.lock_samples
        /\ ld_bad(d).delock_samples = d.delock_samples
    BY <1>1, <1>3, Zenon
  <1>6. ld_bad(d) \in LdRec
    BY Zenon, <1>1, <1>2, <1>3, <1>4 DEF LdRec
  <1>7. QED
    BY Zenon, <1>4, <1>5, <1>6, <1>a, <1>b

\* A sample of either kind keeps the thresholds and the bound of the counter; one
\* that locks the detector is marked; with a floor above the ceiling a lock stays.
LEMMA UpdateShape ==
  ASSUME NEW d \in LdRec, NEW ok \in BOOLEAN
  PROVE  /\ ld_update(d, ok) \in LdRec
         /\ ld_update(d, ok).lock_samples = d.lock_samples
         /\ ld_update(d, ok).delock_samples = d.delock_samples
         /\ d.lock_cnt <= d.lock_samples => ld_update(d, ok).lock_cnt <= d.lock_samples
         /\ ~d.locked /\ ld_update(d, ok).locked => ld_update(d, ok).lock_changed
         /\ d.locked /\ d.lock_cnt <= d.lock_samples /\ d.lock_samples < d.delock_samples
              => ld_update(d, ok).locked
  <1>1. CASE ok
    <2>1. ld_update(d, ok) = ld_good(d)
      BY <1>1 DEF ld_update
    <2>2. QED BY <2>1, GoodShape DEF LdRec
  <1>2. CASE ~ok
    <2>1. ld_update(d, ok) = ld_bad(d)
      BY <1>2 DEF ld_update
    <2>2. QED BY <2>1, BadShape DEF LdRec
  <1>3. QED BY <1>1, <1>2

\* The writes that keep a lock detector one.
LEMMA LdWrite ==
  ASSUME NEW d \in LdRec, NEW l \in BOOLEAN, NEW c \in Nat, NEW e \in BOOLEAN
  PROVE  [d EXCEPT !.locked = l, !.lock_cnt = c, !.lock_changed = e] \in LdRec
  BY Zenon DEF LdRec

\* ld_init unlocks and keeps the thresholds.
LEMMA InitShape ==
  ASSUME NEW d \in LdRec
  PROVE  /\ ld_init(d) \in LdRec /\ ~ld_init(d).locked /\ ld_init(d).lock_cnt = 0
         /\ ld_init(d).lock_samples = d.lock_samples
         /\ ld_init(d).delock_samples = d.delock_samples
  <1>1. d \in [lock_cnt : Nat, lock_samples : Nat, delock_samples : Nat,
               locked : BOOLEAN, lock_changed : BOOLEAN]
    BY DEF LdRec
  <1>2. ld_init(d) = [d EXCEPT !.locked = FALSE, !.lock_cnt = 0, !.lock_changed = FALSE]
    BY DEF ld_init
  <1>3. ld_init(d) \in LdRec
    <2>1. 0 \in Nat
      OBVIOUS
    <2>2. QED BY <1>2, <2>1, LdWrite, Zenon
  <1>4. /\ ld_init(d).locked = FALSE /\ ld_init(d).lock_cnt = 0
        /\ ld_init(d).lock_samples = d.lock_samples
        /\ ld_init(d).delock_samples = d.delock_samples
    BY <1>1, <1>2, Zenon
  <1>5. QED BY <1>3, <1>4

MainFields == {"enabled", "locked", "id_ref", "id_out", "tag_ref", "tag_out",
               "freq_ld", "phase_ld", "gain_sched", "ps_freeze", "vco_freeze",
               "phase_shift_current", "phase_shift_target"}

\* The shape of struct spll_main_state, without a gain schedule.
MainShape(m) ==
  /\ DOMAIN m = MainFields
  /\ m.enabled \in BOOLEAN /\ m.locked \in BOOLEAN
  /\ m.freq_ld \in LdRec /\ m.phase_ld \in LdRec
  /\ DOMAIN m.gain_sched = {"n_stages", "current_stage", "locked_d", "stages"}
  /\ m.gain_sched.n_stages = 0

\* The thresholds of a running PLL, and a counter that cannot pass them.
FreqShape(m) ==
  /\ m.freq_ld.lock_cnt <= m.freq_ld.lock_samples
  /\ m.enabled => m.freq_ld.lock_samples = FreqLock /\ m.freq_ld.delock_samples = FreqDelock

\* What `locked' stands for in a running PLL.
Backed(m) == m.enabled /\ m.locked => m.freq_ld.locked /\ m.phase_ld.locked

(***************************************************************************)
(* ld_sample is ld_update without its edge flag.                           *)
(***************************************************************************)
LEMMA SampleShape ==
  ASSUME NEW d \in LdRec, NEW ok \in BOOLEAN
  PROVE  /\ ld_sample(d, ok) \in LdRec
         /\ ld_sample(d, ok).lock_cnt = ld_update(d, ok).lock_cnt
         /\ ld_sample(d, ok).lock_samples = d.lock_samples
         /\ ld_sample(d, ok).delock_samples = d.delock_samples
         /\ ld_sample(d, ok).locked = ld_update(d, ok).locked
  <1> DEFINE u == ld_update(d, ok)
  <1>1. u \in LdRec /\ u.lock_samples = d.lock_samples /\ u.delock_samples = d.delock_samples
    BY UpdateShape
  <1>2. ld_sample(d, ok) = [u EXCEPT !.lock_changed = FALSE]
    BY DEF ld_sample
  <1> HIDE DEF u
  <1>3. u \in [lock_cnt : Nat, lock_samples : Nat, delock_samples : Nat,
               locked : BOOLEAN, lock_changed : BOOLEAN]
    BY <1>1 DEF LdRec
  <1>4. ld_sample(d, ok) \in LdRec
    BY Zenon, <1>2, <1>3 DEF LdRec
  <1>5. /\ ld_sample(d, ok).lock_cnt = u.lock_cnt /\ ld_sample(d, ok).locked = u.locked
        /\ ld_sample(d, ok).lock_samples = u.lock_samples
        /\ ld_sample(d, ok).delock_samples = u.delock_samples
    BY <1>2, <1>3, Zenon
  <1>6. QED BY <1>1, <1>4, <1>5 DEF u

\* What mpll_init sets a detector to.
LEMMA LdConfig ==
  ASSUME NEW lock \in Nat, NEW delock \in Nat
  PROVE  /\ ld_config(lock, delock) \in LdRec
         /\ ld_config(lock, delock).lock_cnt = 0
         /\ ~ld_config(lock, delock).locked
         /\ ld_config(lock, delock).lock_samples = lock
         /\ ld_config(lock, delock).delock_samples = delock
  BY DEF LdRec, ld_config

(***************************************************************************)
(* The main PLL                                                            *)
(***************************************************************************)
\* Rewinding a schedule keeps its stages.
LEMMA Rewind ==
  ASSUME NEW g, DOMAIN g = {"n_stages", "current_stage", "locked_d", "stages"}
  PROVE  /\ DOMAIN RewindSchedule(g) = {"n_stages", "current_stage", "locked_d", "stages"}
         /\ RewindSchedule(g).n_stages = g.n_stages
  BY Zenon DEF RewindSchedule

\* mpll_init stops the PLL and leaves it well formed.
LEMMA MpllInit ==
  ASSUME NEW m, MainShape(m), NEW r, NEW o
  PROVE  LET n == mpll_init(m, r, o)
         IN  MainShape(n) /\ FreqShape(n) /\ ~n.enabled /\ n.id_ref = r
  <1> DEFINE n == mpll_init(m, r, o)
             fl == ld_config(FreqLock, FreqDelock)
             pl == ld_config(PhaseLock, PhaseDelock)
  <1>1. DOMAIN m = MainFields /\ m.locked \in BOOLEAN
    BY DEF MainShape
  <1>2. /\ fl \in LdRec /\ pl \in LdRec /\ fl.lock_cnt = 0
        /\ fl.lock_samples = FreqLock /\ fl.delock_samples = FreqDelock
    BY MainAssumption, LdConfig
  <1> HIDE DEF fl, pl
  <1>4. /\ DOMAIN n = MainFields /\ n.enabled = FALSE /\ n.locked = m.locked
        /\ n.freq_ld = fl /\ n.phase_ld = pl /\ n.id_ref = r
        /\ n.gain_sched = RewindSchedule(m.gain_sched)
    BY <1>1, Zenon DEF mpll_init, MainFields, fl, pl
  <1>5. MainShape(n)
    BY <1>1, <1>2, <1>4, Rewind, Zenon DEF MainShape
  <1>6. ~n.enabled
    BY <1>4, Zenon
  <1>7. FreqShape(n)
    BY <1>2, <1>4, <1>6, MainAssumption DEF FreqShape
  <1>8. QED
    BY <1>4, <1>5, <1>6, <1>7, Zenon

\* mpll_start gives up the lock; the thresholds are those mpll_init set.
LEMMA MpllStart ==
  ASSUME NEW m, MainShape(m),
         m.freq_ld.lock_samples = FreqLock, m.freq_ld.delock_samples = FreqDelock
  PROVE  LET n == mpll_start(m)
         IN  MainShape(n) /\ FreqShape(n) /\ n.enabled /\ ~n.locked /\ n.id_ref = m.id_ref
  <1> DEFINE n == mpll_start(m)
             fl == ld_init(m.freq_ld)
             pl == ld_init(m.phase_ld)
  <1>1. DOMAIN m = MainFields /\ m.gain_sched.n_stages = 0
    BY DEF MainShape
  <1>2. /\ fl \in LdRec /\ pl \in LdRec /\ fl.lock_cnt = 0
        /\ fl.lock_samples = FreqLock /\ fl.delock_samples = FreqDelock
    BY InitShape DEF MainShape
  <1>3. (IF m.gain_sched.n_stages > 0
         THEN [m.phase_ld EXCEPT !.lock_samples = m.gain_sched.stages[0]]
         ELSE m.phase_ld) = m.phase_ld
    BY <1>1
  <1> HIDE DEF fl, pl
  <1>4. /\ DOMAIN n = MainFields /\ n.enabled = TRUE /\ n.locked = FALSE
        /\ n.freq_ld = fl /\ n.phase_ld = pl /\ n.id_ref = m.id_ref
        /\ n.gain_sched = RewindSchedule(m.gain_sched)
    BY <1>1, <1>3, Zenon DEF mpll_start, MainFields, fl, pl
  <1>5. MainShape(n)
    BY <1>2, <1>4, Rewind, Zenon DEF MainShape
  <1>6. n.enabled /\ ~n.locked
    BY <1>4, Zenon
  <1>7. FreqShape(n)
    BY <1>2, <1>4, <1>6, MainAssumption DEF FreqShape
  <1>8. QED
    BY <1>4, <1>5, <1>6, <1>7, Zenon

\* The phase shifter touches nothing else.
LEMMA Shifter ==
  ASSUME NEW m, DOMAIN m = MainFields
  PROVE  LET n == ShiftPhase(m)
         IN  /\ DOMAIN n = MainFields /\ n.enabled = m.enabled /\ n.locked = m.locked
             /\ n.freq_ld = m.freq_ld /\ n.phase_ld = m.phase_ld
             /\ n.gain_sched = m.gain_sched /\ n.id_ref = m.id_ref
  <1> DEFINE v == IF m.phase_shift_current < m.phase_shift_target
                  THEN m.phase_shift_current + 1
                  ELSE IF m.phase_shift_current > m.phase_shift_target
                       THEN m.phase_shift_current - 1 ELSE m.phase_shift_current
  <1>1. ShiftPhase(m) = m \/ ShiftPhase(m) = [m EXCEPT !.phase_shift_current = v]
    BY Zenon DEF ShiftPhase
  <1> HIDE DEF v
  <1>2. QED
    BY <1>1, Zenon DEF MainFields

\* A pair of tags: the frequency detector takes a sample, and only with its
\* lock is `locked' set, to the lock of the phase detector.
LEMMA MpllPair ==
  ASSUME NEW m, MainShape(m), NEW f \in BOOLEAN, NEW p \in BOOLEAN
  PROVE  LET n == mpll_pair(m, f, p)
             fl == ld_sample(m.freq_ld, f)
         IN  /\ MainShape(n) /\ n.enabled = m.enabled /\ n.id_ref = m.id_ref
             /\ n.freq_ld = fl
             /\ fl.locked => n.locked = n.phase_ld.locked
             /\ ~fl.locked => n.locked = m.locked
  <1> DEFINE fl == ld_sample(m.freq_ld, f)
             pl == ld_sample(m.phase_ld, p)
             m0 == [m EXCEPT !.freq_ld = fl, !.tag_ref = FALSE, !.tag_out = FALSE]
             m1 == ShiftPhase(m0)
             m2 == [m1 EXCEPT !.phase_ld = ld_sample(m1.phase_ld, p)]
             n  == mpll_pair(m, f, p)
  <1>1. fl \in LdRec /\ pl \in LdRec
    BY Zenon, SampleShape DEF MainShape
  <1>2. n = IF m1.freq_ld.locked THEN mpll_handle_gain_schedule(m2) ELSE m1
    BY Zenon DEF mpll_pair
  <1>4. /\ DOMAIN m0 = MainFields /\ m0.enabled = m.enabled /\ m0.locked = m.locked
        /\ m0.freq_ld = fl /\ m0.phase_ld = m.phase_ld
        /\ m0.gain_sched = m.gain_sched /\ m0.id_ref = m.id_ref
    BY Zenon DEF MainShape, MainFields
  <1> HIDE DEF m0
  <1>5. /\ DOMAIN m1 = MainFields /\ m1.enabled = m.enabled /\ m1.locked = m.locked
        /\ m1.freq_ld = fl /\ m1.phase_ld = m.phase_ld
        /\ m1.gain_sched = m.gain_sched /\ m1.id_ref = m.id_ref
    BY <1>4, Shifter, Zenon
  <1> HIDE DEF m1, fl, pl
  <1>6. /\ DOMAIN m2 = MainFields /\ m2.enabled = m.enabled
        /\ m2.freq_ld = fl /\ m2.phase_ld = pl
        /\ m2.gain_sched = m.gain_sched /\ m2.id_ref = m.id_ref
    BY <1>5, Zenon DEF MainFields, pl
  <1> HIDE DEF m2
  <1>7. mpll_handle_gain_schedule(m2) = [m2 EXCEPT !.locked = pl.locked]
    BY <1>6, Zenon DEF mpll_handle_gain_schedule, MainShape
  <1>8. pl.locked \in BOOLEAN
    BY <1>1, Zenon DEF LdRec
  <1> HIDE DEF n
  <1>9. CASE fl.locked
    <2>1. n = [m2 EXCEPT !.locked = pl.locked]
      BY <1>2, <1>5, <1>7, <1>9, Zenon
    <2>2. /\ DOMAIN n = MainFields /\ n.enabled = m.enabled /\ n.locked = pl.locked
          /\ n.freq_ld = fl /\ n.phase_ld = pl
          /\ n.gain_sched = m.gain_sched /\ n.id_ref = m.id_ref
      BY <1>6, <2>1, Zenon DEF MainFields
    <2>3. MainShape(n)
      BY <1>1, <1>8, <2>2, Zenon DEF MainShape
    <2>4. QED BY <1>9, <2>2, <2>3, Zenon DEF n, fl
  <1>10. CASE ~fl.locked
    <2>1. n = m1
      BY <1>2, <1>5, <1>10, Zenon
    <2>2. MainShape(n)
      BY <1>1, <1>5, <2>1, Zenon DEF MainShape
    <2>3. QED BY <1>5, <1>10, <2>1, <2>2, Zenon DEF n, fl
  <1>11. QED BY <1>9, <1>10, Zenon

\* With the thresholds of the code (FreqLock < FreqDelock) the frequency
\* detector never unlocks, so what `locked' was taken from still holds.
LEMMA MpllUpdate ==
  ASSUME NEW m, MainShape(m), FreqShape(m), NEW src, NEW f \in BOOLEAN, NEW p \in BOOLEAN
  PROVE  LET n == mpll_update(m, src, f, p)
         IN  /\ MainShape(n) /\ FreqShape(n)
             /\ n.enabled = m.enabled /\ n.id_ref = m.id_ref
             /\ n.freq_ld.lock_samples = m.freq_ld.lock_samples
             /\ n.freq_ld.delock_samples = m.freq_ld.delock_samples
             /\ FreqLock < FreqDelock /\ Backed(m) => Backed(n)
  <1> DEFINE n == mpll_update(m, src, f, p)
             k == mpll_pair(m, f, p)
             e == [m EXCEPT !.tag_ref = @ \/ src = m.id_ref, !.tag_out = @ \/ src = m.id_out]
  <1>1. n = m \/ n = e \/ n = k
    BY Zenon DEF mpll_update
  <1>2. CASE n = m
    BY <1>2
  <1>3. CASE n = e
    <2>1. /\ DOMAIN e = MainFields /\ e.enabled = m.enabled /\ e.locked = m.locked
          /\ e.freq_ld = m.freq_ld /\ e.phase_ld = m.phase_ld
          /\ e.gain_sched = m.gain_sched /\ e.id_ref = m.id_ref
      BY Zenon DEF MainShape, MainFields
    <2> HIDE DEF e
    <2>2. MainShape(e) /\ FreqShape(e) /\ (Backed(m) => Backed(e))
      BY <2>1, Zenon DEF MainShape, FreqShape, Backed
    <2>3. QED BY <1>3, <2>1, <2>2, Zenon
  <1>4. CASE n = k
    <2> DEFINE fl == ld_sample(m.freq_ld, f)
    <2>1. /\ MainShape(k) /\ k.enabled = m.enabled /\ k.id_ref = m.id_ref /\ k.freq_ld = fl
          /\ fl.locked => k.locked = k.phase_ld.locked
          /\ ~fl.locked => k.locked = m.locked
      BY MpllPair, ZenonT(40)
    <2> HIDE DEF k
    <2>2. m.freq_ld \in LdRec
      BY DEF MainShape
    <2>3. /\ fl.lock_cnt = ld_update(m.freq_ld, f).lock_cnt
          /\ fl.lock_samples = m.freq_ld.lock_samples
          /\ fl.delock_samples = m.freq_ld.delock_samples
          /\ fl.locked = ld_update(m.freq_ld, f).locked
      BY <2>2, SampleShape, Zenon
    <2>4. m.freq_ld.lock_cnt <= m.freq_ld.lock_samples
      BY DEF FreqShape
    <2>5. /\ ld_update(m.freq_ld, f).lock_cnt <= m.freq_ld.lock_samples
          /\ m.freq_ld.locked /\ m.freq_ld.lock_samples < m.freq_ld.delock_samples
               => ld_update(m.freq_ld, f).locked
      BY <2>2, <2>4, UpdateShape
    <2> HIDE DEF fl
    <2>6. fl.lock_cnt <= fl.lock_samples
      BY <2>3, <2>5, Zenon
    <2>7. FreqShape(k)
      BY <2>1, <2>3, <2>6, Zenon DEF FreqShape
    <2>8. ASSUME FreqLock < FreqDelock, Backed(m), k.enabled, k.locked
          PROVE  k.freq_ld.locked /\ k.phase_ld.locked
      <3>1. m.enabled
        BY <2>1, <2>8, Zenon
      <3>2. m.freq_ld.lock_samples < m.freq_ld.delock_samples
        BY <2>8, <3>1, Zenon DEF FreqShape
      <3>3. CASE fl.locked
        BY <2>1, <2>8, <3>3, Zenon
      <3>4. CASE ~fl.locked
        <4>1. m.locked
          BY <2>1, <2>8, <3>4, Zenon
        <4>2. m.freq_ld.locked
          BY <2>8, <3>1, <4>1, Zenon DEF Backed
        <4>3. QED BY <2>3, <2>5, <3>2, <3>4, <4>2, Zenon
      <3>5. QED BY <3>3, <3>4, Zenon
    <2>9. QED BY <1>4, <2>1, <2>3, <2>7, <2>8, Zenon DEF Backed
  <1>5. QED BY <1>1, <1>2, <1>3, <1>4, Zenon

(***************************************************************************)
(* The state record                                                        *)
(***************************************************************************)
Fields == {"mode", "seq_state", "dac_timeout", "helper", "mpll", "align_state", "aux",
           "taggers", "occr", "eccr", "dacs_clear", "ptracker_mask", "cpu_irq", "eic"}

\* The helper and the main PLL are well formed, and mpll_init has run before
\* the sequencer does.
Shape(x) ==
  /\ DOMAIN x = Fields
  /\ DOMAIN x.helper = {"ref_src", "fresh", "ld"} /\ x.helper.ld \in LdRec
  /\ MainShape(x.mpll) /\ FreqShape(x.mpll)
  /\ x.seq_state # "DISABLED" => /\ x.mpll.freq_ld.lock_samples = FreqLock
                                 /\ x.mpll.freq_ld.delock_samples = FreqDelock

Flag(x) == x.mpll.id_ref \in OutLock => (x.mpll.id_ref \in x.occr <=> x.seq_state = "READY")

SeqStates == {"DISABLED", "CLEAR_DACS", "WAIT_CLEAR_DACS", "START_EXT", "WAIT_EXT",
              "START_HELPER", "WAIT_HELPER", "START_MAIN", "WAIT_MAIN", "READY"}

\* The modes in which the sequencer goes through its states.
ModeOf(x) ==
  /\ x.seq_state # "DISABLED" => x.mode \in {"GRAND_MASTER", "FREE_RUNNING_MASTER", "SLAVE"}
  /\ x.seq_state \in {"START_HELPER", "WAIT_HELPER"} =>
       x.mode \in {"FREE_RUNNING_MASTER", "SLAVE"}
  /\ x.seq_state \in {"START_MAIN", "WAIT_MAIN"} => x.mode = "SLAVE"
  /\ x.seq_state \in {"START_EXT", "WAIT_EXT"} => x.mode = "GRAND_MASTER"
  /\ x.mode = "GRAND_MASTER" => x.seq_state # "DISABLED"
  /\ x.seq_state \in SeqStates

Edge(x) == x.seq_state = "WAIT_HELPER" /\ x.helper.ld.locked => x.helper.ld.lock_changed

\* In SEQ_WAIT_MAIN the main PLL runs, and has only locked behind a locked helper.
Waiting(x) ==
  x.seq_state = "WAIT_MAIN" => x.mpll.enabled /\ (x.mpll.locked => x.helper.ld.locked)

Good(x) == Shape(x) /\ Flag(x) /\ ModeOf(x) /\ Edge(x) /\ Waiting(x)

\* After the sequencer: a state that waits for a lock does not have it.
Between(x) ==
  /\ Shape(x) /\ Flag(x) /\ ModeOf(x)
  /\ x.seq_state = "WAIT_HELPER" => ~x.helper.ld.locked
  /\ x.seq_state = "WAIT_MAIN" => x.mpll.enabled /\ ~x.mpll.locked

\* The rest of the state can change as it likes.
LEMMA GoodFrame ==
  ASSUME NEW x, NEW y, Good(x), DOMAIN y = Fields,
         y.mode = x.mode, y.seq_state = x.seq_state, y.helper = x.helper,
         y.mpll = x.mpll, y.occr = x.occr
  PROVE  Good(y)
  BY Zenon DEF Good, Shape, Flag, ModeOf, Edge, Waiting

(***************************************************************************)
(* The loops: from Between to Good                                         *)
(***************************************************************************)
\* helper_update: a helper that locks here has its edge flag up.
LEMMA HelperUpdate ==
  ASSUME NEW x, Between(x), NEW src, NEW h \in BOOLEAN
  PROVE  LET y == helper_update(x, src, h)
         IN  /\ Between(x) => Shape(y) /\ Flag(y) /\ ModeOf(y) /\ Edge(y)
             /\ y.seq_state = x.seq_state /\ y.mpll = x.mpll
             /\ y.mode = x.mode /\ DOMAIN y = Fields
  <1> DEFINE y == helper_update(x, src, h)
             a == [x EXCEPT !.helper.fresh = FALSE]
             b == [x EXCEPT !.helper.ld = ld_update(@, h), !.dacs_clear = FALSE]
             u == ld_update(x.helper.ld, h)
  <1>1. y = x \/ y = a \/ y = b
    BY Zenon DEF helper_update
  <1>2. /\ DOMAIN x = Fields /\ DOMAIN x.helper = {"ref_src", "fresh", "ld"}
        /\ x.helper.ld \in LdRec
    BY Zenon DEF Between, Shape
  <1>3. u \in LdRec /\ (~x.helper.ld.locked /\ u.locked => u.lock_changed)
    BY <1>2, UpdateShape
  <1>4. CASE y = x
    BY <1>4, <1>2, Zenon DEF Between, Edge
  <1>5. CASE y = a
    <2>1. /\ DOMAIN a = Fields /\ DOMAIN a.helper = {"ref_src", "fresh", "ld"}
          /\ a.helper.ld = x.helper.ld /\ a.mpll = x.mpll /\ a.seq_state = x.seq_state
          /\ a.mode = x.mode /\ a.occr = x.occr /\ a.align_state = x.align_state
      BY <1>2, Zenon DEF Fields
    <2> HIDE DEF a
    <2>2. QED BY <1>5, <2>1, Zenon DEF Between, Shape, Flag, ModeOf, Edge
  <1>6. CASE y = b
    <2>1. /\ DOMAIN b = Fields /\ DOMAIN b.helper = {"ref_src", "fresh", "ld"}
          /\ b.helper.ld = u /\ b.mpll = x.mpll /\ b.seq_state = x.seq_state
          /\ b.mode = x.mode /\ b.occr = x.occr /\ b.align_state = x.align_state
      BY <1>2, Zenon DEF Fields
    <2> HIDE DEF b, u
    <2>2. QED BY <1>3, <1>6, <2>1, ZenonT(60) DEF Between, Shape, Flag, ModeOf, Edge
  <1>7. QED BY <1>1, <1>4, <1>5, <1>6, Zenon

\* The auxiliary channels have states of their own.
LEMMA AuxFrame ==
  ASSUME NEW x, NEW src, NEW ok, DOMAIN x = Fields
  PROVE  LET y == update_aux(x, src, ok)
         IN  /\ DOMAIN y = Fields /\ y.mode = x.mode /\ y.seq_state = x.seq_state
             /\ y.helper = x.helper /\ y.mpll = x.mpll
             /\ y.align_state = x.align_state /\ y.occr = x.occr
  <1> DEFINE w == [i \in AuxIds |->
                     [seq_state |-> x.aux[i].seq_state,
                      dmtd |-> mpll_update(x.aux[i].dmtd, src, ok.af[i], ok.ap[i])]]
             z == [x EXCEPT !.aux = w]
  <1>1. update_aux(x, src, ok) = x \/ update_aux(x, src, ok) = z
    BY Zenon DEF update_aux
  <1> HIDE DEF w
  <1>2. QED BY <1>1, Zenon DEF Fields

\* update_loops runs the main PLL only behind a locked helper, so that in
\* SEQ_WAIT_MAIN its lock comes with the helper's.
LEMMA LoopsGood ==
  ASSUME NEW x, Between(x), NEW src, NEW ok \in Errors
  PROVE  LET z == update_loops(x, src, ok)
         IN  /\ Good(z) /\ z.mode = x.mode /\ z.seq_state = x.seq_state
             /\ FreqLock < FreqDelock /\ Backed(x.mpll) => Backed(z.mpll)
  <1> DEFINE y == helper_update(x, src, ok.h)
             w == update_main(y, src, ok)
             n == mpll_update(y.mpll, src, ok.f, ok.p)
             v == update_aux(w, src, ok)
             z == update_loops(x, src, ok)
  <1>1. ok.h \in BOOLEAN /\ ok.f \in BOOLEAN /\ ok.p \in BOOLEAN
    BY Zenon DEF Errors, May
  <1>2. /\ Shape(y) /\ Flag(y) /\ ModeOf(y) /\ Edge(y)
        /\ y.seq_state = x.seq_state /\ y.mpll = x.mpll
        /\ y.mode = x.mode /\ DOMAIN y = Fields
    BY <1>1, HelperUpdate, Zenon
  <1>3. z = IF y.helper.ld.locked THEN v ELSE y
    BY Zenon DEF update_loops
  <1>4. w = [y EXCEPT !.mpll = n, !.dacs_clear = y.dacs_clear /\ ~writes_dac(y.mpll, src)]
    BY Zenon DEF update_main
  <1>5. /\ DOMAIN w = Fields /\ w.mode = y.mode /\ w.seq_state = y.seq_state
        /\ w.helper = y.helper /\ w.mpll = n /\ w.align_state = y.align_state /\ w.occr = y.occr
    BY <1>2, <1>4, Zenon DEF Fields
  <1>9. y.seq_state = "WAIT_MAIN" => y.mpll.enabled /\ ~y.mpll.locked
    BY <1>2, Zenon DEF Between
  <1> HIDE DEF y, w
  <1>6. /\ DOMAIN v = Fields /\ v.mode = w.mode /\ v.seq_state = w.seq_state
        /\ v.helper = w.helper /\ v.mpll = w.mpll
        /\ v.align_state = w.align_state /\ v.occr = w.occr
    BY <1>5, AuxFrame
  <1>7. MainShape(y.mpll) /\ FreqShape(y.mpll)
    BY <1>2, Zenon DEF Shape
  <1>8. /\ MainShape(n) /\ FreqShape(n) /\ n.enabled = y.mpll.enabled /\ n.id_ref = y.mpll.id_ref
        /\ n.freq_ld.lock_samples = y.mpll.freq_ld.lock_samples
        /\ n.freq_ld.delock_samples = y.mpll.freq_ld.delock_samples
        /\ FreqLock < FreqDelock /\ Backed(y.mpll) => Backed(n)
    BY <1>1, <1>7, MpllUpdate
  <1> HIDE DEF v, n, z
  <1>10. CASE y.helper.ld.locked
    <2>1. z = v
      BY <1>3, <1>10, Zenon
    <2>2. Shape(v)
      BY <1>2, <1>5, <1>6, <1>8, Zenon DEF Shape
    <2>3. Flag(v) /\ ModeOf(v) /\ Edge(v)
      <3>0. v.mpll.id_ref = y.mpll.id_ref /\ v.occr = y.occr /\ v.seq_state = y.seq_state
        BY <1>5, <1>6, <1>8, Zenon
      <3>1. Flag(v)
        BY <1>2, <3>0, ZenonT(40) DEF Flag
      <3>2. ModeOf(v)
        BY <1>2, <1>5, <1>6, <1>8, Zenon DEF ModeOf
      <3>3. Edge(v)
        BY <1>2, <1>5, <1>6, <1>8, Zenon DEF Edge
      <3> QED  BY <3>1, <3>2, <3>3, Zenon
    <2>4. Waiting(v)
      BY <1>5, <1>6, <1>8, <1>9, <1>10, Zenon DEF Waiting
    <2>5. QED BY <1>2, <1>5, <1>6, <1>8, <2>1, <2>2, <2>3, <2>4, Zenon DEF Good, z
  <1>11. CASE ~y.helper.ld.locked
    <2>1. z = y
      BY <1>3, <1>11, Zenon
    <2>2. Waiting(y)
      BY <1>9, Zenon DEF Waiting
    <2>3. QED BY <1>2, <2>1, <2>2, Zenon DEF Good, z
  <1>12. QED BY <1>10, <1>11, Zenon

(***************************************************************************)
(* The sequencer: from Good to Between                                     *)
(***************************************************************************)
\* helper_start unlocks the helper.
LEMMA HelperStart ==
  ASSUME NEW x, Shape(x)
  PROVE  LET y == helper_start(x)
         IN  /\ DOMAIN y = Fields /\ DOMAIN y.helper = {"ref_src", "fresh", "ld"}
             /\ y.helper.ld \in LdRec /\ ~y.helper.ld.locked
             /\ y.mpll = x.mpll /\ y.mode = x.mode /\ y.seq_state = x.seq_state
             /\ y.occr = x.occr /\ y.align_state = x.align_state
  <1> DEFINE t == IF TRUE THEN x.taggers \cup {x.helper.ref_src}
                  ELSE x.taggers \ {x.helper.ref_src}
             a == [x EXCEPT !.taggers = t]
             l == ld_init(x.helper.ld)
             b == [a EXCEPT !.helper = [a.helper EXCEPT !.fresh = TRUE]]
             c == [b.helper EXCEPT !.ld = ld_init(a.helper.ld)]
             y == helper_start(x)
  <1>1. /\ DOMAIN x = Fields /\ DOMAIN x.helper = {"ref_src", "fresh", "ld"}
        /\ x.helper.ld \in LdRec
    BY Zenon DEF Shape
  <1>2. l \in LdRec /\ ~l.locked
    BY <1>1, InitShape
  <1>3. y = [b EXCEPT !.helper = c]
    BY Zenon DEF helper_start, spll_enable_tagger
  <1> HIDE DEF t
  <1>4. /\ DOMAIN a = Fields /\ a.helper = x.helper /\ a.mpll = x.mpll /\ a.mode = x.mode
        /\ a.seq_state = x.seq_state /\ a.occr = x.occr /\ a.align_state = x.align_state
    BY <1>1, Zenon DEF Fields
  <1>a. /\ DOMAIN [a.helper EXCEPT !.fresh = TRUE] = {"ref_src", "fresh", "ld"}
        /\ a.helper.ld = x.helper.ld
    BY <1>1, <1>4, Zenon
  <1> HIDE DEF a
  <1>b. /\ DOMAIN b = Fields /\ DOMAIN b.helper = {"ref_src", "fresh", "ld"}
        /\ b.mpll = x.mpll /\ b.mode = x.mode
        /\ b.seq_state = x.seq_state /\ b.occr = x.occr /\ b.align_state = x.align_state
    BY <1>4, <1>a, Zenon DEF Fields
  <1> HIDE DEF b
  <1>c. DOMAIN c = {"ref_src", "fresh", "ld"} /\ c.ld = l
    BY <1>a, <1>b, Zenon
  <1> HIDE DEF c, l
  <1>5. /\ DOMAIN y = Fields /\ DOMAIN y.helper = {"ref_src", "fresh", "ld"}
        /\ y.helper.ld = l
        /\ y.mpll = x.mpll /\ y.mode = x.mode /\ y.seq_state = x.seq_state
        /\ y.occr = x.occr /\ y.align_state = x.align_state
    BY <1>3, <1>b, <1>c, Zenon DEF Fields
  <1>6. QED BY <1>2, <1>5, Zenon

\* become_ready: the flag of the reference, and SEQ_READY.
LEMMA BecomeReady ==
  ASSUME NEW x, Shape(x)
  PROVE  LET y == become_ready(x)
         IN  /\ DOMAIN y = Fields /\ y.seq_state = "READY" /\ y.mpll = x.mpll
             /\ y.helper = x.helper /\ y.mode = x.mode /\ y.align_state = x.align_state
             /\ x.mpll.id_ref \in OutLock => x.mpll.id_ref \in y.occr
  <1> DEFINE t == IF x.ptracker_mask = {} THEN x.taggers
                  ELSE x.taggers \cup x.ptracker_mask \cup {MAIN_CHANNEL}
             a == [x EXCEPT !.taggers = t]
             o == IF TRUE THEN a.occr \cup ({x.mpll.id_ref} \cap OutLock) ELSE a.occr \ {x.mpll.id_ref}
             b == [a EXCEPT !.occr = o]
             y == become_ready(x)
  <1>1. DOMAIN x = Fields
    BY DEF Shape
  <1>2. y = [b EXCEPT !.seq_state = "READY"]
    BY Zenon DEF become_ready, set_channel_status, start_ptrackers
  <1>3. x.mpll.id_ref \in OutLock => x.mpll.id_ref \in o
    BY Zenon
  <1> HIDE DEF t, o
  <1>4. /\ DOMAIN a = Fields /\ a.mpll = x.mpll /\ a.helper = x.helper /\ a.mode = x.mode
        /\ a.align_state = x.align_state
    BY <1>1, Zenon DEF Fields
  <1> HIDE DEF a
  <1>5. /\ DOMAIN b = Fields /\ b.mpll = x.mpll /\ b.helper = x.helper /\ b.mode = x.mode
        /\ b.align_state = x.align_state /\ b.occr = o
    BY <1>4, Zenon DEF Fields
  <1> HIDE DEF b
  <1>6. QED BY <1>2, <1>3, <1>5, Zenon DEF Fields

\* Where the sequencer only moves on to a state that does not wait for a lock.
LEMMA MovesOn ==
  ASSUME NEW x, NEW y, Good(x), DOMAIN y = Fields, y.helper = x.helper, y.mpll = x.mpll,
         y.mode = x.mode, y.align_state = x.align_state, ModeOf(y),
         x.seq_state # "DISABLED",
         y.seq_state \notin {"WAIT_HELPER", "WAIT_MAIN"}, Flag(y)
  PROVE  Between(y)
  BY Zenon DEF Between, Good, Shape

\* sequencing_fsm, state by state.
LEMMA FsmClearDacs ==
  ASSUME NEW x, Good(x), x.seq_state = "CLEAR_DACS"
  PROVE  Between(seq_clear_dacs(x)) /\ seq_clear_dacs(x).mpll = x.mpll
  <1> DEFINE t == IF TRUE THEN x.taggers \cup {MAIN_CHANNEL} ELSE x.taggers \ {MAIN_CHANNEL}
             a == [x EXCEPT !.taggers = t]
             y == seq_clear_dacs(x)
  <1>1. y = [a EXCEPT !.dacs_clear = TRUE, !.dac_timeout = FALSE,
                      !.seq_state = "WAIT_CLEAR_DACS"]
    BY Zenon DEF seq_clear_dacs, spll_enable_tagger
  <1> HIDE DEF t
  <1>2. /\ DOMAIN a = Fields /\ a.mpll = x.mpll /\ a.helper = x.helper /\ a.mode = x.mode
        /\ a.align_state = x.align_state /\ a.occr = x.occr
    BY Zenon DEF Good, Shape, Fields
  <1> HIDE DEF a
  <1>3. /\ DOMAIN y = Fields /\ y.mpll = x.mpll /\ y.helper = x.helper /\ y.mode = x.mode
        /\ y.align_state = x.align_state /\ y.occr = x.occr
        /\ y.seq_state = "WAIT_CLEAR_DACS"
    BY <1>1, <1>2, Zenon DEF Fields
  <1> HIDE DEF y
  <1>4. ModeOf(y)
    BY <1>3 DEF ModeOf, Good, SeqStates
  <1>5. Flag(y)
    BY <1>3 DEF Flag, Good
  <1>6. Between(y)
    BY <1>3, <1>4, <1>5, MovesOn
  <1>7. QED BY <1>3, <1>6 DEF y

\* SEQ_WAIT_CLEAR_DACS: on to the external reference or the helper.
LEMMA FsmWaitClearDacs ==
  ASSUME NEW x, Good(x), x.seq_state = "WAIT_CLEAR_DACS"
  PROVE  Between(seq_wait_clear_dacs(x)) /\ seq_wait_clear_dacs(x).mpll = x.mpll
  <1> DEFINE q == IF x.mode = "GRAND_MASTER" THEN "START_EXT" ELSE "START_HELPER"
             a == [x EXCEPT !.dac_timeout = FALSE, !.seq_state = q]
             y == seq_wait_clear_dacs(x)
  <1>1. y = a \/ y = x
    BY Zenon DEF seq_wait_clear_dacs
  <1>2. DOMAIN x = Fields
    BY DEF Good, Shape
  <1>3. CASE y = x
    BY <1>2, <1>3, MovesOn DEF Good
  <1>4. CASE y = a
    <2>1. \/ q = "START_EXT" /\ x.mode = "GRAND_MASTER"
          \/ q = "START_HELPER" /\ x.mode # "GRAND_MASTER"
      OBVIOUS
    <2> HIDE DEF q
    <2>2. /\ DOMAIN a = Fields /\ a.mpll = x.mpll /\ a.helper = x.helper /\ a.mode = x.mode
          /\ a.align_state = x.align_state /\ a.occr = x.occr
          /\ a.seq_state = q
      BY <1>2, Zenon DEF Fields
    <2> HIDE DEF a
    <2>3. ModeOf(a)
      BY <2>1, <2>2 DEF ModeOf, Good, SeqStates
    <2>4. Flag(a)
      BY <2>1, <2>2 DEF Flag, Good
    <2>5. Between(a)
      BY <2>1, <2>2, <2>3, <2>4, MovesOn
    <2>6. QED BY <1>4, <2>2, <2>5
  <1>5. QED BY <1>1, <1>3, <1>4

\* SEQ_START_EXT enables the external channel.
LEMMA FsmStartExt ==
  ASSUME NEW x, Good(x), x.seq_state = "START_EXT"
  PROVE  Between(seq_start_ext(x)) /\ seq_start_ext(x).mpll = x.mpll
  <1> DEFINE t == IF FALSE THEN x.taggers \cup {MAIN_CHANNEL} ELSE x.taggers \ {MAIN_CHANNEL}
             a == [x EXCEPT !.taggers = t]
             b == helper_start(a)
             c == [b EXCEPT !.align_state = "WAIT_CLKIN"]
             y == seq_start_ext(x)
  <1>1. y = [c EXCEPT !.seq_state = "WAIT_EXT"]
    BY Zenon DEF seq_start_ext, external_start, spll_enable_tagger
  <1> HIDE DEF t
  <1>2. /\ DOMAIN a = Fields /\ a.mpll = x.mpll /\ a.helper = x.helper /\ a.mode = x.mode
        /\ a.seq_state = x.seq_state /\ a.occr = x.occr
    BY Zenon DEF Good, Shape, Fields
  <1> HIDE DEF a
  <1>3. Shape(a)
    BY <1>2, Zenon DEF Good, Shape
  <1>4. /\ DOMAIN b = Fields /\ DOMAIN b.helper = {"ref_src", "fresh", "ld"}
        /\ b.helper.ld \in LdRec
        /\ b.mpll = x.mpll /\ b.mode = x.mode /\ b.occr = x.occr
    BY <1>2, <1>3, HelperStart
  <1> HIDE DEF b
  <1>5. /\ DOMAIN c = Fields /\ c.helper = b.helper /\ c.mpll = x.mpll /\ c.mode = x.mode
        /\ c.occr = x.occr /\ c.align_state = "WAIT_CLKIN"
    BY <1>4, Zenon DEF Fields
  <1> HIDE DEF c
  <1>6. /\ DOMAIN y = Fields /\ y.helper = b.helper /\ y.mpll = x.mpll /\ y.mode = x.mode
        /\ y.occr = x.occr /\ y.align_state = "WAIT_CLKIN" /\ y.seq_state = "WAIT_EXT"
    BY <1>1, <1>5, Zenon DEF Fields
  <1> HIDE DEF y
  <1>7. Shape(y)
    BY <1>4, <1>6, Zenon DEF Good, Shape
  <1>8. ModeOf(y)
    BY <1>6 DEF ModeOf, Good, SeqStates
  <1>9. Flag(y)
    BY <1>6 DEF Flag, Good
  <1>10. Between(y) /\ y.mpll = x.mpll
    BY <1>6, <1>7, <1>8, <1>9 DEF Between
  <1>11. QED BY <1>10 DEF y

\* SEQ_START_HELPER starts a helper without lock.
LEMMA FsmStartHelper ==
  ASSUME NEW x, Good(x), x.seq_state = "START_HELPER"
  PROVE  Between(seq_start_helper(x)) /\ seq_start_helper(x).mpll = x.mpll
  <1> DEFINE b == helper_start(x)
             y == seq_start_helper(x)
  <1>1. y = [b EXCEPT !.seq_state = "WAIT_HELPER"]
    BY Zenon DEF seq_start_helper
  <1>2. /\ DOMAIN b = Fields /\ DOMAIN b.helper = {"ref_src", "fresh", "ld"}
        /\ b.helper.ld \in LdRec /\ ~b.helper.ld.locked
        /\ b.mpll = x.mpll /\ b.mode = x.mode /\ b.occr = x.occr
        /\ b.align_state = x.align_state
    BY HelperStart DEF Good
  <1> HIDE DEF b
  <1>3. /\ DOMAIN y = Fields /\ y.helper = b.helper /\ y.mpll = x.mpll /\ y.mode = x.mode
        /\ y.occr = x.occr /\ y.align_state = x.align_state /\ y.seq_state = "WAIT_HELPER"
    BY <1>1, <1>2, ZenonT(60) DEF Fields
  <1> HIDE DEF y
  <1>4. Shape(y)
    BY <1>2, <1>3, Zenon DEF Good, Shape
  <1>5. ModeOf(y)
    BY <1>3 DEF ModeOf, Good, SeqStates
  <1>6. Flag(y)
    BY <1>3 DEF Flag, Good
  <1>7. Between(y)
    BY <1>2, <1>3, <1>4, <1>5, <1>6, Zenon DEF Between
  <1>8. QED BY <1>3, <1>7 DEF y

\* SEQ_READY, from a state whose conditions for it hold.
LEMMA ReadyBetween ==
  ASSUME NEW x, Good(x), x.seq_state # "DISABLED"
  PROVE  Between(become_ready(x)) /\ become_ready(x).mpll = x.mpll
  <1> DEFINE y == become_ready(x)
  <1>1. /\ DOMAIN y = Fields /\ y.seq_state = "READY" /\ y.mpll = x.mpll
        /\ y.helper = x.helper /\ y.mode = x.mode /\ y.align_state = x.align_state
        /\ x.mpll.id_ref \in OutLock => x.mpll.id_ref \in y.occr
    BY BecomeReady DEF Good
  <1> HIDE DEF y
  <1>2. Flag(y)
    BY <1>1 DEF Flag
  <1>3. ModeOf(y)
    BY <1>1 DEF ModeOf, Good, SeqStates
  <1>4. Between(y)
    BY <1>1, <1>2, <1>3, MovesOn
  <1>5. QED BY <1>1, <1>4 DEF y

\* SEQ_WAIT_EXT leaves when the external reference counts as locked.
LEMMA FsmWaitExt ==
  ASSUME NEW x, Good(x), x.seq_state = "WAIT_EXT"
  PROVE  /\ Between(seq_wait_ext(x)) /\ seq_wait_ext(x).mpll = x.mpll
         /\ \/ seq_wait_ext(x) = x
            \/ external_locked(x) /\ seq_wait_ext(x) = become_ready(x)
  <1>1. \/ seq_wait_ext(x) = x
        \/ external_locked(x) /\ seq_wait_ext(x) = become_ready(x)
    BY Zenon DEF seq_wait_ext
  <1>2. Between(x)
    BY DEF Between, Good
  <1>3. Between(become_ready(x)) /\ become_ready(x).mpll = x.mpll
    BY ReadyBetween
  <1>4. QED BY <1>1, <1>2, <1>3

\* SEQ_WAIT_HELPER leaves on a new lock of the helper.
LEMMA FsmWaitHelper ==
  ASSUME NEW x, Good(x), x.seq_state = "WAIT_HELPER"
  PROVE  /\ Between(seq_wait_helper(x)) /\ seq_wait_helper(x).mpll = x.mpll
         /\ seq_wait_helper(x).seq_state = "READY" =>
              x.helper.ld.locked /\ x.mode = "FREE_RUNNING_MASTER"
  <1>1. CASE x.helper.ld.locked /\ x.helper.ld.lock_changed /\ x.mode = "SLAVE"
    <2> DEFINE y == [x EXCEPT !.seq_state = "START_MAIN"]
    <2>1. seq_wait_helper(x) = y
      BY <1>1 DEF seq_wait_helper
    <2>2. /\ DOMAIN y = Fields /\ y.helper = x.helper /\ y.mpll = x.mpll /\ y.mode = x.mode
          /\ y.occr = x.occr /\ y.align_state = x.align_state /\ y.seq_state = "START_MAIN"
      BY Zenon DEF Good, Shape, Fields
    <2> HIDE DEF y
    <2>3. ModeOf(y)
      BY <1>1, <2>2 DEF ModeOf, Good, SeqStates
    <2>4. Flag(y)
      BY <2>2 DEF Flag, Good
    <2>5. Between(y)
      BY <2>2, <2>3, <2>4, MovesOn
    <2>6. QED BY <2>1, <2>2, <2>5
  <1>2. CASE x.helper.ld.locked /\ x.helper.ld.lock_changed /\ x.mode # "SLAVE"
    <2>1. seq_wait_helper(x) = become_ready(x)
      BY <1>2 DEF seq_wait_helper
    <2>2. x.mode = "FREE_RUNNING_MASTER"
      BY <1>2 DEF Good, ModeOf
    <2>3. QED BY <1>2, <2>1, <2>2, ReadyBetween
  <1>3. CASE ~(x.helper.ld.locked /\ x.helper.ld.lock_changed)
    <2>1. seq_wait_helper(x) = x
      BY <1>3 DEF seq_wait_helper
    <2>2. ~x.helper.ld.locked
      BY <1>3 DEF Good, Edge
    <2>3. Between(x)
      BY <2>2 DEF Between, Good
    <2>4. QED BY <2>1, <2>3
  <1>4. QED BY <1>1, <1>2, <1>3

\* SEQ_START_MAIN starts a main PLL without lock.
LEMMA FsmStartMain ==
  ASSUME NEW x, Good(x), x.seq_state = "START_MAIN"
  PROVE  Between(seq_start_main(x)) /\ Backed(seq_start_main(x).mpll)
         /\ seq_start_main(x).seq_state = "WAIT_MAIN"
  <1> DEFINE n == mpll_start(x.mpll)
             t == x.taggers \cup {x.mpll.id_ref, x.mpll.id_out}
             a == [x EXCEPT !.mpll = n, !.taggers = t]
             y == seq_start_main(x)
  <1>1. y = [a EXCEPT !.seq_state = "WAIT_MAIN"]
    BY Zenon DEF seq_start_main, start_main
  <1>2. /\ DOMAIN x = Fields /\ MainShape(x.mpll)
        /\ x.mpll.freq_ld.lock_samples = FreqLock /\ x.mpll.freq_ld.delock_samples = FreqDelock
    BY DEF Good, Shape
  <1>3. MainShape(n) /\ FreqShape(n) /\ n.enabled /\ ~n.locked /\ n.id_ref = x.mpll.id_ref
    BY <1>2, MpllStart
  <1> HIDE DEF n, t
  <1>4. /\ DOMAIN a = Fields /\ a.mpll = n /\ a.helper = x.helper /\ a.mode = x.mode
        /\ a.align_state = x.align_state /\ a.occr = x.occr
    BY <1>2, Zenon DEF Fields
  <1> HIDE DEF a
  <1>5. /\ DOMAIN y = Fields /\ y.mpll = n /\ y.helper = x.helper /\ y.mode = x.mode
        /\ y.align_state = x.align_state /\ y.occr = x.occr /\ y.seq_state = "WAIT_MAIN"
    BY <1>1, <1>4, Zenon DEF Fields
  <1> HIDE DEF y
  <1>6. n.freq_ld.lock_samples = FreqLock /\ n.freq_ld.delock_samples = FreqDelock
    BY <1>3, Zenon DEF FreqShape
  <1>7. Shape(y)
    BY <1>3, <1>5, <1>6, Zenon DEF Good, Shape
  <1>8. ModeOf(y)
    BY <1>5 DEF ModeOf, Good, SeqStates
  <1>9. Flag(y)
    BY <1>3, <1>5 DEF Flag, Good
  <1>10. Backed(y.mpll)
    BY <1>3, <1>5, Zenon DEF Backed
  <1>11. Between(y)
    BY <1>3, <1>5, <1>7, <1>8, <1>9, Zenon DEF Between
  <1>12. QED BY <1>5, <1>10, <1>11 DEF y

\* SEQ_WAIT_MAIN leaves on the lock of the main PLL.
LEMMA FsmWaitMain ==
  ASSUME NEW x, Good(x), x.seq_state = "WAIT_MAIN"
  PROVE  /\ Between(seq_wait_main(x)) /\ seq_wait_main(x).mpll = x.mpll
         /\ seq_wait_main(x).seq_state = "READY" =>
              x.helper.ld.locked /\ x.mpll.enabled /\ x.mpll.locked
  <1>1. CASE x.mpll.locked
    <2>1. seq_wait_main(x) = become_ready(x)
      BY <1>1 DEF seq_wait_main
    <2>2. x.helper.ld.locked /\ x.mpll.enabled
      BY <1>1 DEF Good, Waiting
    <2>3. QED BY <1>1, <2>1, <2>2, ReadyBetween
  <1>2. CASE ~x.mpll.locked
    <2>1. seq_wait_main(x) = x
      BY <1>2 DEF seq_wait_main
    <2>2. Between(x)
      BY <1>2 DEF Between, Good, Waiting
    <2>3. QED BY <2>1, <2>2
  <1>3. QED BY <1>1, <1>2

\* SEQ_READY starts again when a lock is lost.
LEMMA FsmReady ==
  ASSUME NEW x, Good(x), x.seq_state = "READY"
  PROVE  Between(seq_ready(x)) /\ seq_ready(x).mpll = x.mpll
  <1> DEFINE o == IF FALSE THEN x.occr \cup ({x.mpll.id_ref} \cap OutLock) ELSE x.occr \ {x.mpll.id_ref}
             a == [x EXCEPT !.occr = o]
             y == [a EXCEPT !.seq_state = "CLEAR_DACS"]
  <1>1. seq_ready(x) = x \/ seq_ready(x) = y
    BY Zenon DEF seq_ready, set_channel_status
  <1>2. CASE seq_ready(x) = x
    <2>1. Between(x)
      BY DEF Between, Good
    <2>2. QED BY <1>2, <2>1
  <1>3. CASE seq_ready(x) = y
    <2>1. x.mpll.id_ref \notin o
      BY Zenon
    <2> HIDE DEF o
    <2>2. /\ DOMAIN a = Fields /\ a.mpll = x.mpll /\ a.helper = x.helper /\ a.mode = x.mode
          /\ a.align_state = x.align_state /\ a.occr = o
      BY Zenon DEF Good, Shape, Fields
    <2> HIDE DEF a
    <2>3. /\ DOMAIN y = Fields /\ y.mpll = x.mpll /\ y.helper = x.helper /\ y.mode = x.mode
          /\ y.align_state = x.align_state /\ y.occr = o /\ y.seq_state = "CLEAR_DACS"
      BY <2>2, Zenon DEF Fields
    <2> HIDE DEF y
    <2>4. ModeOf(y)
      BY <2>3 DEF ModeOf, Good, SeqStates
    <2>5. Flag(y)
      BY <2>1, <2>3 DEF Flag
    <2>6. Between(y)
      BY SMTT(30), <2>3, <2>4, <2>5, MovesOn
    <2>7. QED BY <1>3, <2>3, <2>6
  <1>4. QED BY <1>1, <1>2, <1>3

\* What an entry of SEQ_READY rests on.
Earned(x) == /\ x.seq_state \in {"WAIT_HELPER", "WAIT_MAIN"} /\ x.helper.ld.locked
             /\ x.mode # "FREE_RUNNING_MASTER" => x.mpll.enabled /\ x.mpll.locked

\* The sequencer takes Good to Between, and enters SEQ_READY on locks, or in a
\* grandmaster on external_locked.
LEMMA Sequencer ==
  ASSUME NEW x, Good(x), NEW src
  PROVE  LET y == sequencing_fsm(x, src)
         IN  /\ Between(y)
             /\ Backed(x.mpll) => Backed(y.mpll)
             /\ x.seq_state # "READY" /\ y.seq_state = "READY" =>
                  Earned(x) \/ (x.seq_state = "WAIT_EXT" /\ external_locked(x))
  <1> DEFINE y == sequencing_fsm(x, src)
  <1>1. CASE x.seq_state = "DISABLED"
    <2>1. y = x
      BY <1>1 DEF sequencing_fsm
    <2>2. Between(x)
      BY <1>1 DEF Between, Good
    <2>3. QED BY <1>1, <2>1, <2>2
  <1>2. CASE x.seq_state = "CLEAR_DACS"
    <2>1. y = seq_clear_dacs(x)
      BY <1>2 DEF sequencing_fsm
    <2>2. y.seq_state # "READY"
      BY <1>2, <2>1, Zenon DEF seq_clear_dacs, spll_enable_tagger, Good, Shape, Fields
    <2>3. QED BY <1>2, <2>1, <2>2, FsmClearDacs
  <1>3. CASE x.seq_state = "WAIT_CLEAR_DACS"
    <2>1. y = seq_wait_clear_dacs(x)
      BY <1>3 DEF sequencing_fsm
    <2>2. y.seq_state # "READY"
      BY <1>3, <2>1 DEF seq_wait_clear_dacs, Good, Shape, Fields
    <2>3. QED BY <1>3, <2>1, <2>2, FsmWaitClearDacs
  <1>4. CASE x.seq_state = "START_EXT"
    <2>1. y = seq_start_ext(x)
      BY <1>4 DEF sequencing_fsm
    <2>2. Between(y) /\ y.mpll = x.mpll
      BY <1>4, <2>1, FsmStartExt
    <2>3. DOMAIN helper_start(spll_enable_tagger(x, MAIN_CHANNEL, FALSE)) = Fields
      <3> DEFINE a == spll_enable_tagger(x, MAIN_CHANNEL, FALSE)
      <3>1. /\ DOMAIN a = Fields /\ a.mpll = x.mpll /\ a.helper = x.helper
            /\ a.seq_state = x.seq_state
        BY Zenon DEF Good, Shape, Fields, spll_enable_tagger
      <3> HIDE DEF a
      <3>2. Shape(a)
        BY <3>1, Zenon DEF Good, Shape
      <3>3. DOMAIN helper_start(a) = Fields
        BY <3>2, HelperStart
      <3>4. QED BY Zenon, <3>3 DEF a
    <2>4. y.seq_state # "READY"
      BY <2>1, <2>3, Zenon DEF seq_start_ext, external_start, Fields
    <2>5. QED BY <2>2, <2>4
  <1>5. CASE x.seq_state = "WAIT_EXT"
    <2>1. y = seq_wait_ext(x)
      BY <1>5 DEF sequencing_fsm
    <2>2. QED BY <1>5, <2>1, FsmWaitExt
  <1>6. CASE x.seq_state = "START_HELPER"
    <2>1. y = seq_start_helper(x)
      BY <1>6 DEF sequencing_fsm
    <2>2. DOMAIN helper_start(x) = Fields
      BY HelperStart DEF Good
    <2>3. y.seq_state # "READY"
      BY <2>1, <2>2, Zenon DEF seq_start_helper, Fields
    <2>4. QED BY <1>6, <2>1, <2>3, FsmStartHelper
  <1>7. CASE x.seq_state = "WAIT_HELPER"
    <2>1. y = seq_wait_helper(x)
      BY <1>7 DEF sequencing_fsm
    <2>2. QED BY <1>7, <2>1, FsmWaitHelper DEF Earned
  <1>8. CASE x.seq_state = "START_MAIN"
    <2>1. y = seq_start_main(x)
      BY <1>8 DEF sequencing_fsm
    <2>2. QED BY <1>8, <2>1, FsmStartMain
  <1>9. CASE x.seq_state = "WAIT_MAIN"
    <2>1. y = seq_wait_main(x)
      BY <1>9 DEF sequencing_fsm
    <2>2. QED BY <1>9, <2>1, FsmWaitMain DEF Earned
  <1>10. CASE x.seq_state = "READY"
    <2>1. y = seq_ready(x)
      BY <1>10 DEF sequencing_fsm
    <2>2. QED BY <1>10, <2>1, FsmReady
  <1>11. x.seq_state \in SeqStates
    BY DEF Good, ModeOf
  <1>12. QED
    BY SMTT(30), <1>1, <1>2, <1>3, <1>4, <1>5, <1>6, <1>7, <1>8, <1>9, <1>10, <1>11
       DEF SeqStates

(***************************************************************************)
(* The calls                                                               *)
(***************************************************************************)
\* The part of spll_init that every mode goes through: the flags are down and
\* the main PLL is stopped.
LEMMA InitCommon ==
  ASSUME NEW x, Good(x), NEW mode \in Modes, NEW ref
  PROVE  LET y == init_common(x, mode, ref)
         IN  /\ Good(y) /\ ~y.mpll.enabled /\ y.occr = {} /\ y.mode = mode
             /\ y.seq_state = IF mode = "DISABLED" THEN "DISABLED" ELSE "CLEAR_DACS"
             /\ y.mpll.freq_ld.lock_samples = FreqLock
             /\ y.mpll.freq_ld.delock_samples = FreqDelock
  <1> DEFINE q == IF mode = "DISABLED" THEN "DISABLED" ELSE "CLEAR_DACS"
             h == IF mode = "SLAVE" THEN ref ELSE MAIN_CHANNEL
             n == mpll_init(x.mpll, ref, MAIN_CHANNEL)
             u == [i \in AuxIds |-> [seq_state |-> "DISABLED",
                                     dmtd |-> mpll_init(x.aux[i].dmtd, ref, MAIN_CHANNEL + i)]]
             a == [x EXCEPT !.cpu_irq = FALSE, !.eic = FALSE, !.mode = mode,
                            !.taggers = {}, !.occr = {}, !.dacs_clear = FALSE,
                            !.dac_timeout = FALSE, !.seq_state = q]
             b == [a EXCEPT !.helper = [a.helper EXCEPT !.ref_src = h]]
             y == init_common(x, mode, ref)
  <1>1. DOMAIN x = Fields /\ MainShape(x.mpll) /\ DOMAIN x.helper = {"ref_src", "fresh", "ld"}
        /\ x.helper.ld \in LdRec
    BY DEF Good, Shape
  <1>2. y = [b EXCEPT !.mpll = mpll_init(x.mpll, ref, MAIN_CHANNEL), !.aux = u]
    BY Zenon DEF init_common
  <1>3. MainShape(n) /\ FreqShape(n) /\ ~n.enabled
    BY <1>1, MpllInit
  <1>4. n.freq_ld = ld_config(FreqLock, FreqDelock)
    BY <1>1, Zenon DEF mpll_init, MainShape, MainFields
  <1>5. n.freq_ld.lock_samples = FreqLock /\ n.freq_ld.delock_samples = FreqDelock
    BY <1>4, LdConfig, MainAssumption
  <1>6. /\ q \in {"DISABLED", "CLEAR_DACS"} /\ (q # "DISABLED" => mode # "DISABLED")
    OBVIOUS
  <1> HIDE DEF q, h, u
  <1>7. /\ DOMAIN a = Fields /\ a.helper = x.helper /\ a.mode = mode /\ a.occr = {}
        /\ a.seq_state = q /\ a.align_state = x.align_state
    BY <1>1, Zenon DEF Fields
  <1> HIDE DEF a
  <1>8. /\ DOMAIN [a.helper EXCEPT !.ref_src = h] = {"ref_src", "fresh", "ld"}
        /\ [a.helper EXCEPT !.ref_src = h].ld = x.helper.ld
    BY <1>1, <1>7, Zenon
  <1>9. /\ DOMAIN b = Fields /\ b.mode = mode /\ b.occr = {}
        /\ b.seq_state = q /\ b.align_state = x.align_state
        /\ DOMAIN b.helper = {"ref_src", "fresh", "ld"} /\ b.helper.ld = x.helper.ld
    BY <1>7, <1>8, Zenon DEF Fields
  <1> HIDE DEF b
  <1>10. /\ DOMAIN y = Fields /\ y.mode = mode /\ y.occr = {} /\ y.seq_state = q
         /\ y.align_state = x.align_state /\ y.helper = b.helper /\ y.mpll = n
    BY <1>2, <1>9, Zenon DEF Fields
  <1> HIDE DEF y, n
  <1>11. Shape(y)
    BY <1>1, <1>3, <1>5, <1>9, <1>10, Zenon DEF Shape
  <1>12. ModeOf(y)
    BY <1>6, <1>10, SoftPllAssumption DEF ModeOf, Good, SeqStates, q
  <1>13. Flag(y) /\ Edge(y) /\ Waiting(y)
    BY <1>6, <1>10 DEF Flag, Edge, Waiting
  <1>14. QED
    BY SMTT(30), <1>3, <1>5, <1>10, <1>11, <1>12, <1>13 DEF Good, y, q

\* external_init: once more mpll_init, with the external reference.
LEMMA ExternalInit ==
  ASSUME NEW x, Good(x), x.occr = {}, x.seq_state = "CLEAR_DACS"
  PROVE  Good(external_init(x)) /\ ~external_init(x).mpll.enabled
  <1> DEFINE n == mpll_init(x.mpll, EXT_CHANNEL, MAIN_CHANNEL)
             b == [x EXCEPT !.helper = [x.helper EXCEPT !.ref_src = EXT_CHANNEL]]
             y == external_init(x)
  <1>1. DOMAIN x = Fields /\ MainShape(x.mpll) /\ DOMAIN x.helper = {"ref_src", "fresh", "ld"}
        /\ x.helper.ld \in LdRec
    BY DEF Good, Shape
  <1>2. y = [b EXCEPT !.mpll = n, !.align_state = "EXT_OFF"]
    BY Zenon DEF external_init
  <1>3. MainShape(n) /\ FreqShape(n) /\ ~n.enabled
    BY <1>1, MpllInit
  <1>4. n.freq_ld = ld_config(FreqLock, FreqDelock)
    BY <1>1, Zenon DEF mpll_init, MainShape, MainFields
  <1>5. n.freq_ld.lock_samples = FreqLock /\ n.freq_ld.delock_samples = FreqDelock
    BY <1>4, LdConfig, MainAssumption
  <1>6. /\ DOMAIN [x.helper EXCEPT !.ref_src = EXT_CHANNEL] = {"ref_src", "fresh", "ld"}
        /\ [x.helper EXCEPT !.ref_src = EXT_CHANNEL].ld = x.helper.ld
    BY <1>1, Zenon
  <1> HIDE DEF n
  <1>7. /\ DOMAIN b = Fields /\ b.mode = x.mode /\ b.occr = {} /\ b.seq_state = x.seq_state
        /\ DOMAIN b.helper = {"ref_src", "fresh", "ld"} /\ b.helper.ld = x.helper.ld
    BY <1>1, <1>6, Zenon DEF Fields
  <1> HIDE DEF b
  <1>8. /\ DOMAIN y = Fields /\ y.mode = x.mode /\ y.occr = {} /\ y.seq_state = x.seq_state
        /\ y.helper = b.helper /\ y.mpll = n /\ y.align_state = "EXT_OFF"
    BY <1>2, <1>7, Zenon DEF Fields
  <1> HIDE DEF y
  <1>9. Shape(y)
    BY <1>1, <1>3, <1>5, <1>7, <1>8, Zenon DEF Shape
  <1>10. ModeOf(y)
    BY <1>8 DEF ModeOf, Good, SeqStates
  <1>11. Flag(y) /\ Edge(y) /\ Waiting(y)
    BY <1>8 DEF Flag, Edge, Waiting
  <1>12. QED
    BY SMTT(30), <1>3, <1>8, <1>9, <1>10, <1>11 DEF Good, y

\* The end of spll_init only enables things.
LEMMA InitDone ==
  ASSUME NEW x, Good(x)
  PROVE  Good(init_done(x)) /\ init_done(x).mpll = x.mpll
  <1> DEFINE t == IF TRUE THEN x.taggers \cup {MAIN_CHANNEL} ELSE x.taggers \ {MAIN_CHANNEL}
             a == [x EXCEPT !.taggers = t]
             y == init_done(x)
  <1>1. y = [a EXCEPT !.eic = TRUE, !.cpu_irq = TRUE]
    BY Zenon DEF init_done, spll_enable_tagger
  <1> HIDE DEF t
  <1>2. /\ DOMAIN a = Fields /\ a.mode = x.mode /\ a.seq_state = x.seq_state
        /\ a.helper = x.helper /\ a.mpll = x.mpll /\ a.align_state = x.align_state
        /\ a.occr = x.occr
    BY Zenon DEF Good, Shape, Fields
  <1> HIDE DEF a
  <1>3. /\ DOMAIN y = Fields /\ y.mode = x.mode /\ y.seq_state = x.seq_state
        /\ y.helper = x.helper /\ y.mpll = x.mpll /\ y.align_state = x.align_state
        /\ y.occr = x.occr
    BY <1>1, <1>2, Zenon DEF Fields
  <1> HIDE DEF y
  <1>4. Good(y) /\ y.mpll = x.mpll
    BY <1>3, GoodFrame
  <1>5. QED BY <1>4 DEF y

\* spll_init leaves a good state, with the main PLL off.
LEMMA SpllInitGood ==
  ASSUME NEW x, Good(x), NEW mode \in Modes, NEW ref
  PROVE  Good(spll_init(x, mode, ref)) /\ ~spll_init(x, mode, ref).mpll.enabled
  <1> DEFINE y == init_common(x, mode, ref)
  <1>1. /\ Good(y) /\ ~y.mpll.enabled /\ y.occr = {}
        /\ y.seq_state = IF mode = "DISABLED" THEN "DISABLED" ELSE "CLEAR_DACS"
    BY InitCommon
  <1>2. \/ spll_init(x, mode, ref) = y
        \/ mode = "GRAND_MASTER" /\ spll_init(x, mode, ref) = init_done(external_init(y))
        \/ spll_init(x, mode, ref) = init_done(y)
    BY DEF spll_init
  <1> HIDE DEF y
  <1>3. CASE spll_init(x, mode, ref) = y
    BY <1>1, <1>3
  <1>4. CASE mode = "GRAND_MASTER" /\ spll_init(x, mode, ref) = init_done(external_init(y))
    <2>1. Good(external_init(y)) /\ ~external_init(y).mpll.enabled
      BY <1>1, <1>4, ExternalInit
    <2>2. QED BY <1>4, <2>1, InitDone
  <1>5. CASE spll_init(x, mode, ref) = init_done(y)
    BY <1>1, <1>5, InitDone
  <1>6. QED BY SMTT(30), <1>2, <1>3, <1>4, <1>5

(***************************************************************************)
(* What an interrupt leaves alone, whatever the locks and flags are.       *)
(***************************************************************************)
HelperFields == {"ref_src", "fresh", "ld"}

Plain(x) ==
  /\ DOMAIN x = Fields /\ DOMAIN x.helper = HelperFields /\ DOMAIN x.mpll = MainFields
  /\ x.seq_state \in SeqStates
  /\ DOMAIN x.aux = AuxIds
  /\ \A i \in AuxIds : /\ DOMAIN x.aux[i] = {"seq_state", "dmtd"}
                        /\ DOMAIN x.aux[i].dmtd = MainFields

\* The sequencer restarts the main PLL in one state and the aligner in another,
\* the only one in which it disables a channel, the main one; it touches one flag
\* and no auxiliary output.
FsmLeaves(x, y) ==
  /\ Plain(y)
  /\ y.mode = x.mode /\ y.aux = x.aux /\ y.eic = x.eic
  /\ \/ y.align_state = x.align_state /\ x.taggers \subseteq y.taggers
     \/ /\ x.seq_state = "START_EXT" /\ y.align_state = "WAIT_CLKIN"
        /\ x.taggers \ {MAIN_CHANNEL} \subseteq y.taggers
  /\ \/ y.mpll = x.mpll
     \/ x.seq_state = "START_MAIN" /\ y.mpll = mpll_start(x.mpll)
  /\ y.occr \ {x.mpll.id_ref} = x.occr \ {x.mpll.id_ref}

\* A step that changes seq_state and fields nobody else looks at.
LEMMA LeavesMost ==
  ASSUME NEW x, Plain(x), NEW y, DOMAIN y = Fields, DOMAIN y.helper = HelperFields,
         y.seq_state \in SeqStates, y.mode = x.mode, y.aux = x.aux, y.eic = x.eic,
         y.align_state = x.align_state, y.mpll = x.mpll,
         x.taggers \subseteq y.taggers,
         y.occr \ {x.mpll.id_ref} = x.occr \ {x.mpll.id_ref}
  PROVE  FsmLeaves(x, y)
  BY Zenon DEF FsmLeaves, Plain

\* mpll_start keeps the fields of the record.
LEMMA StartFields ==
  ASSUME NEW m, DOMAIN m = MainFields
  PROVE  DOMAIN mpll_start(m) = MainFields
  BY Zenon DEF mpll_start, MainFields

\* Starting the helper: its tagger, fresh and the detector.
LEMMA HelperStartLeaves ==
  ASSUME NEW x, Plain(x)
  PROVE  LET y == helper_start(x)
         IN  /\ Plain(y) /\ y.mode = x.mode /\ y.aux = x.aux /\ y.eic = x.eic
             /\ y.align_state = x.align_state /\ y.mpll = x.mpll /\ y.occr = x.occr
             /\ y.seq_state = x.seq_state /\ x.taggers \subseteq y.taggers
  <1> DEFINE t == IF TRUE THEN x.taggers \cup {x.helper.ref_src} ELSE x.taggers \ {x.helper.ref_src}
             a == [x EXCEPT !.taggers = t]
             f == [a.helper EXCEPT !.fresh = TRUE]
             h == [f EXCEPT !.ld = ld_init(f.ld)]
             b == [a EXCEPT !.helper = f]
             y == helper_start(x)
  <1>1. y = [b EXCEPT !.helper.ld = ld_init(@)]
    BY Zenon DEF helper_start, spll_enable_tagger
  <1>2. x.taggers \subseteq t
    BY Zenon
  <1> HIDE DEF t
  <1>3. /\ DOMAIN a = Fields /\ a.helper = x.helper /\ a.mode = x.mode /\ a.aux = x.aux
        /\ a.eic = x.eic /\ a.align_state = x.align_state /\ a.mpll = x.mpll
        /\ a.occr = x.occr /\ a.seq_state = x.seq_state /\ a.taggers = t
    BY Zenon DEF Plain, Fields
  <1> HIDE DEF a
  <1>4. DOMAIN f = HelperFields
    BY <1>3, Zenon DEF Plain, HelperFields
  <1> HIDE DEF f
  <1>5. DOMAIN h = HelperFields
    BY <1>4, Zenon DEF HelperFields
  <1>6. /\ DOMAIN b = Fields /\ b.helper = f /\ b.mode = x.mode /\ b.aux = x.aux
        /\ b.eic = x.eic /\ b.align_state = x.align_state /\ b.mpll = x.mpll
        /\ b.occr = x.occr /\ b.seq_state = x.seq_state /\ b.taggers = t
    BY <1>3, Zenon DEF Fields
  <1> HIDE DEF b
  <1>7. y = [b EXCEPT !.helper = h]
    BY <1>1, <1>6, Zenon
  <1> HIDE DEF h, y
  <1>8. /\ DOMAIN y = Fields /\ y.helper = h /\ y.mode = x.mode /\ y.aux = x.aux
        /\ y.eic = x.eic /\ y.align_state = x.align_state /\ y.mpll = x.mpll
        /\ y.occr = x.occr /\ y.seq_state = x.seq_state /\ y.taggers = t
    BY <1>6, <1>7, Zenon DEF Fields
  <1>9. QED BY <1>2, <1>5, <1>8, Zenon DEF Plain, y

\* SEQ_READY: the trackers' channels and the flag.
LEMMA BecomeReadyLeaves ==
  ASSUME NEW x, Plain(x)
  PROVE  FsmLeaves(x, become_ready(x))
  <1> DEFINE t == IF x.ptracker_mask = {} THEN x.taggers
                  ELSE x.taggers \cup x.ptracker_mask \cup {MAIN_CHANNEL}
             a == [x EXCEPT !.taggers = t]
             o == IF TRUE THEN x.occr \cup ({x.mpll.id_ref} \cap OutLock) ELSE x.occr \ {x.mpll.id_ref}
             b == [a EXCEPT !.occr = o]
             y == become_ready(x)
  <1>1. DOMAIN x = Fields
    BY DEF Plain
  <1>2. a.occr = x.occr
    BY <1>1, Zenon DEF Fields
  <1>3. y = [b EXCEPT !.seq_state = "READY"]
    BY <1>2, Zenon DEF become_ready, set_channel_status, start_ptrackers
  <1>4. x.taggers \subseteq t /\ o \ {x.mpll.id_ref} = x.occr \ {x.mpll.id_ref}
    OBVIOUS
  <1> HIDE DEF t, o
  <1>5. /\ DOMAIN a = Fields /\ a.helper = x.helper /\ a.mode = x.mode /\ a.aux = x.aux
        /\ a.eic = x.eic /\ a.align_state = x.align_state /\ a.mpll = x.mpll /\ a.taggers = t
    BY <1>1, Zenon DEF Fields
  <1> HIDE DEF a
  <1>6. /\ DOMAIN b = Fields /\ b.helper = x.helper /\ b.mode = x.mode /\ b.aux = x.aux
        /\ b.eic = x.eic /\ b.align_state = x.align_state /\ b.mpll = x.mpll /\ b.taggers = t
        /\ b.occr = o
    BY <1>5, Zenon DEF Fields
  <1> HIDE DEF b, y
  <1>7. /\ DOMAIN y = Fields /\ y.helper = x.helper /\ y.mode = x.mode /\ y.aux = x.aux
        /\ y.eic = x.eic /\ y.align_state = x.align_state /\ y.mpll = x.mpll /\ y.taggers = t
        /\ y.occr = o /\ y.seq_state = "READY"
    BY <1>3, <1>6, Zenon DEF Fields
  <1>8. "READY" \in SeqStates
    BY DEF SeqStates
  <1>9. x.taggers \subseteq y.taggers
    BY <1>4, <1>7
  <1>10. DOMAIN y.helper = HelperFields
    BY <1>7, Zenon DEF Plain
  <1>11. FsmLeaves(x, y)
    BY <1>4, <1>7, <1>8, <1>9, <1>10, LeavesMost, Zenon
  <1>12. QED BY <1>11 DEF y

\* Going on to another state.
LEMMA MoveLeaves ==
  ASSUME NEW x, Plain(x), NEW q \in SeqStates
  PROVE  FsmLeaves(x, [x EXCEPT !.seq_state = q])
  <1> DEFINE y == [x EXCEPT !.seq_state = q]
  <1>1. /\ DOMAIN y = Fields /\ y.helper = x.helper /\ y.mode = x.mode /\ y.aux = x.aux
        /\ y.eic = x.eic /\ y.align_state = x.align_state /\ y.mpll = x.mpll
        /\ y.taggers = x.taggers /\ y.occr = x.occr /\ y.seq_state = q
    BY Zenon DEF Plain, Fields
  <1> HIDE DEF y
  <1>2. DOMAIN y.helper = HelperFields
    BY <1>1, Zenon DEF Plain
  <1>3. x.taggers \subseteq y.taggers
    BY <1>1
  <1>4. FsmLeaves(x, y)
    BY <1>1, <1>2, <1>3, LeavesMost, Zenon
  <1>5. QED BY <1>4 DEF y

\* SEQ_CLEAR_DACS and SEQ_WAIT_CLEAR_DACS.
LEMMA ClearDacsLeaves ==
  ASSUME NEW x, Plain(x)
  PROVE  FsmLeaves(x, seq_clear_dacs(x)) /\ FsmLeaves(x, seq_wait_clear_dacs(x))
  <1> DEFINE t == IF TRUE THEN x.taggers \cup {MAIN_CHANNEL} ELSE x.taggers \ {MAIN_CHANNEL}
             a == [x EXCEPT !.taggers = t]
             b == [a EXCEPT !.dacs_clear = TRUE, !.dac_timeout = FALSE]
             y == seq_clear_dacs(x)
             c == [x EXCEPT !.dac_timeout = FALSE]
             q == IF x.mode = "GRAND_MASTER" THEN "START_EXT" ELSE "START_HELPER"
             z == [c EXCEPT !.seq_state = q]
  <1>1. DOMAIN x = Fields
    BY DEF Plain
  <1>2. /\ y = [b EXCEPT !.seq_state = "WAIT_CLEAR_DACS"]
        /\ seq_wait_clear_dacs(x) = x \/ seq_wait_clear_dacs(x) = z
    BY Zenon DEF seq_clear_dacs, spll_enable_tagger, seq_wait_clear_dacs
  <1>3. x.taggers \subseteq t
    OBVIOUS
  <1>4. q \in SeqStates /\ "WAIT_CLEAR_DACS" \in SeqStates
    BY DEF SeqStates
  <1> HIDE DEF t, q
  <1>5. /\ DOMAIN a = Fields /\ a.helper = x.helper /\ a.mode = x.mode /\ a.aux = x.aux
        /\ a.eic = x.eic /\ a.align_state = x.align_state /\ a.mpll = x.mpll /\ a.taggers = t
        /\ a.occr = x.occr
    BY <1>1, Zenon DEF Fields
  <1> HIDE DEF a
  <1>6. /\ DOMAIN b = Fields /\ b.helper = x.helper /\ b.mode = x.mode /\ b.aux = x.aux
        /\ b.eic = x.eic /\ b.align_state = x.align_state /\ b.mpll = x.mpll /\ b.taggers = t
        /\ b.occr = x.occr
    BY <1>5, Zenon DEF Fields
  <1> HIDE DEF b, y
  <1>7. /\ DOMAIN y = Fields /\ y.helper = x.helper /\ y.mode = x.mode /\ y.aux = x.aux
        /\ y.eic = x.eic /\ y.align_state = x.align_state /\ y.mpll = x.mpll /\ y.taggers = t
        /\ y.occr = x.occr /\ y.seq_state = "WAIT_CLEAR_DACS"
    BY <1>2, <1>6, Zenon DEF Fields
  <1>8. DOMAIN y.helper = HelperFields
    BY <1>7, Zenon DEF Plain
  <1>9. FsmLeaves(x, y)
    BY <1>3, <1>4, <1>7, <1>8, LeavesMost, Zenon
  <1>10. /\ DOMAIN c = Fields /\ c.helper = x.helper /\ c.mode = x.mode /\ c.aux = x.aux
         /\ c.eic = x.eic /\ c.align_state = x.align_state /\ c.mpll = x.mpll
         /\ c.taggers = x.taggers /\ c.occr = x.occr
    BY <1>1, Zenon DEF Fields
  <1> HIDE DEF c
  <1>11. /\ DOMAIN z = Fields /\ z.helper = x.helper /\ z.mode = x.mode /\ z.aux = x.aux
         /\ z.eic = x.eic /\ z.align_state = x.align_state /\ z.mpll = x.mpll
         /\ z.taggers = x.taggers /\ z.occr = x.occr /\ z.seq_state = q
    BY <1>10, Zenon DEF Fields
  <1> HIDE DEF z
  <1>12. DOMAIN z.helper = HelperFields
    BY <1>11, Zenon DEF Plain
  <1>13. x.taggers \subseteq z.taggers
    BY <1>11
  <1>14. FsmLeaves(x, z)
    BY <1>4, <1>11, <1>12, <1>13, LeavesMost, Zenon
  <1>15. FsmLeaves(x, x)
    BY LeavesMost DEF Plain
  <1>16. QED BY <1>2, <1>9, <1>14, <1>15 DEF y

\* SEQ_START_EXT: the aligner starts over.
LEMMA StartExtLeaves ==
  ASSUME NEW x, Plain(x), x.seq_state = "START_EXT"
  PROVE  FsmLeaves(x, seq_start_ext(x)) /\ seq_start_ext(x).align_state = "WAIT_CLKIN"
  <1> DEFINE t == IF FALSE THEN x.taggers \cup {MAIN_CHANNEL} ELSE x.taggers \ {MAIN_CHANNEL}
             a == [x EXCEPT !.taggers = t]
             b == helper_start(a)
             c == [b EXCEPT !.align_state = "WAIT_CLKIN"]
             y == seq_start_ext(x)
  <1>1. y = [c EXCEPT !.seq_state = "WAIT_EXT"]
    BY Zenon DEF seq_start_ext, external_start, spll_enable_tagger
  <1>2. x.taggers \ {MAIN_CHANNEL} \subseteq t
    OBVIOUS
  <1> HIDE DEF t
  <1>3. /\ DOMAIN a = Fields /\ a.helper = x.helper /\ a.mode = x.mode /\ a.aux = x.aux
        /\ a.eic = x.eic /\ a.mpll = x.mpll /\ a.taggers = t
        /\ a.occr = x.occr /\ a.seq_state = x.seq_state
    BY Zenon DEF Plain, Fields
  <1> HIDE DEF a
  <1>4. Plain(a)
    BY <1>3, Zenon DEF Plain
  <1>5. /\ Plain(b) /\ b.mode = x.mode /\ b.aux = x.aux /\ b.eic = x.eic
        /\ b.mpll = x.mpll /\ b.occr = x.occr /\ t \subseteq b.taggers
    BY <1>3, <1>4, HelperStartLeaves, Zenon
  <1> HIDE DEF b
  <1>6. /\ DOMAIN c = Fields /\ c.helper = b.helper /\ c.mode = x.mode /\ c.aux = x.aux
        /\ c.eic = x.eic /\ c.align_state = "WAIT_CLKIN" /\ c.mpll = x.mpll
        /\ c.taggers = b.taggers /\ c.occr = x.occr
    BY <1>5, Zenon DEF Plain, Fields
  <1> HIDE DEF c, y
  <1>7. /\ DOMAIN y = Fields /\ y.helper = b.helper /\ y.mode = x.mode /\ y.aux = x.aux
        /\ y.eic = x.eic /\ y.align_state = "WAIT_CLKIN" /\ y.mpll = x.mpll
        /\ y.taggers = b.taggers /\ y.occr = x.occr /\ y.seq_state = "WAIT_EXT"
    BY <1>1, <1>6, Zenon DEF Fields
  <1>8. Plain(y)
    <2>1. "WAIT_EXT" \in SeqStates
      BY DEF SeqStates
    <2>2. QED BY <1>5, <1>7, <2>1, Zenon DEF Plain
  <1>9. x.taggers \ {MAIN_CHANNEL} \subseteq y.taggers
    BY <1>2, <1>5, <1>7
  <1>10. FsmLeaves(x, y)
    BY <1>7, <1>8, <1>9, Zenon DEF FsmLeaves
  <1>11. QED BY <1>7, <1>10 DEF y

\* SEQ_START_HELPER, SEQ_WAIT_HELPER.
LEMMA HelperLeaves ==
  ASSUME NEW x, Plain(x)
  PROVE  FsmLeaves(x, seq_start_helper(x)) /\ FsmLeaves(x, seq_wait_helper(x))
  <1> DEFINE b == helper_start(x)
             y == seq_start_helper(x)
  <1>1. y = [b EXCEPT !.seq_state = "WAIT_HELPER"]
    BY Zenon DEF seq_start_helper
  <1>2. /\ Plain(b) /\ b.mode = x.mode /\ b.aux = x.aux /\ b.eic = x.eic
        /\ b.align_state = x.align_state /\ b.mpll = x.mpll /\ b.occr = x.occr
        /\ x.taggers \subseteq b.taggers
    BY HelperStartLeaves, Zenon
  <1> HIDE DEF b, y
  <1>3. /\ DOMAIN y = Fields /\ y.helper = b.helper /\ y.mode = x.mode /\ y.aux = x.aux
        /\ y.eic = x.eic /\ y.align_state = x.align_state /\ y.mpll = x.mpll
        /\ y.taggers = b.taggers /\ y.occr = x.occr /\ y.seq_state = "WAIT_HELPER"
    BY <1>1, <1>2, Zenon DEF Plain, Fields
  <1>4. "WAIT_HELPER" \in SeqStates /\ "START_MAIN" \in SeqStates
    BY DEF SeqStates
  <1>5. DOMAIN y.helper = HelperFields /\ x.taggers \subseteq y.taggers
    BY <1>2, <1>3 DEF Plain
  <1>6. FsmLeaves(x, y)
    BY <1>3, <1>4, <1>5, LeavesMost, Zenon
  <1>7. seq_wait_helper(x) \in {x, [x EXCEPT !.seq_state = "START_MAIN"], become_ready(x)}
    BY Zenon DEF seq_wait_helper
  <1>8. FsmLeaves(x, x)
    BY LeavesMost DEF Plain
  <1>9. QED BY <1>4, <1>6, <1>7, <1>8, MoveLeaves, BecomeReadyLeaves DEF y

\* SEQ_START_MAIN: the main PLL starts over.
LEMMA StartMainLeaves ==
  ASSUME NEW x, Plain(x), x.seq_state = "START_MAIN"
  PROVE  FsmLeaves(x, seq_start_main(x))
  <1> DEFINE t == x.taggers \cup {x.mpll.id_ref, x.mpll.id_out}
             m == mpll_start(x.mpll)
             a == [x EXCEPT !.mpll = m, !.taggers = t]
             y == seq_start_main(x)
  <1>1. y = [a EXCEPT !.seq_state = "WAIT_MAIN"]
    BY Zenon DEF seq_start_main, start_main
  <1>2. x.taggers \subseteq t
    OBVIOUS
  <1>3. DOMAIN m = MainFields
    BY StartFields, Zenon DEF Plain
  <1> HIDE DEF t, m
  <1>4. /\ DOMAIN a = Fields /\ a.helper = x.helper /\ a.mode = x.mode /\ a.aux = x.aux
        /\ a.eic = x.eic /\ a.align_state = x.align_state /\ a.mpll = m /\ a.taggers = t
        /\ a.occr = x.occr
    BY Zenon DEF Plain, Fields
  <1> HIDE DEF a, y
  <1>5. /\ DOMAIN y = Fields /\ y.helper = x.helper /\ y.mode = x.mode /\ y.aux = x.aux
        /\ y.eic = x.eic /\ y.align_state = x.align_state /\ y.mpll = m /\ y.taggers = t
        /\ y.occr = x.occr /\ y.seq_state = "WAIT_MAIN"
    BY <1>1, <1>4, Zenon DEF Fields
  <1>6. "WAIT_MAIN" \in SeqStates
    BY DEF SeqStates
  <1>7. Plain(y)
    BY <1>3, <1>5, <1>6, Zenon DEF Plain
  <1>8. FsmLeaves(x, y)
    BY <1>2, <1>5, <1>7, Zenon DEF FsmLeaves, m
  <1>9. QED BY <1>8 DEF y

\* SEQ_READY, when a lock is lost.
LEMMA ReadyLeaves ==
  ASSUME NEW x, Plain(x)
  PROVE  FsmLeaves(x, seq_ready(x))
  <1> DEFINE o == IF FALSE THEN x.occr \cup ({x.mpll.id_ref} \cap OutLock) ELSE x.occr \ {x.mpll.id_ref}
             a == [x EXCEPT !.occr = o]
             y == [a EXCEPT !.seq_state = "CLEAR_DACS"]
  <1>1. seq_ready(x) = x \/ seq_ready(x) = y
    BY Zenon DEF seq_ready, set_channel_status
  <1>2. o \ {x.mpll.id_ref} = x.occr \ {x.mpll.id_ref}
    OBVIOUS
  <1> HIDE DEF o
  <1>3. /\ DOMAIN a = Fields /\ a.helper = x.helper /\ a.mode = x.mode /\ a.aux = x.aux
        /\ a.eic = x.eic /\ a.align_state = x.align_state /\ a.mpll = x.mpll
        /\ a.taggers = x.taggers /\ a.occr = o
    BY Zenon DEF Plain, Fields
  <1> HIDE DEF a
  <1>4. /\ DOMAIN y = Fields /\ y.helper = x.helper /\ y.mode = x.mode /\ y.aux = x.aux
        /\ y.eic = x.eic /\ y.align_state = x.align_state /\ y.mpll = x.mpll
        /\ y.taggers = x.taggers /\ y.occr = o /\ y.seq_state = "CLEAR_DACS"
    BY <1>3, Zenon DEF Fields
  <1> HIDE DEF y
  <1>5. "CLEAR_DACS" \in SeqStates
    BY DEF SeqStates
  <1>6. DOMAIN y.helper = HelperFields /\ x.taggers \subseteq y.taggers
    BY <1>4 DEF Plain
  <1>7. FsmLeaves(x, y)
    BY <1>2, <1>4, <1>5, <1>6, LeavesMost, Zenon
  <1>8. FsmLeaves(x, x)
    BY LeavesMost DEF Plain
  <1>9. QED BY <1>1, <1>7, <1>8

\* The whole switch.
LEMMA SequencerLeaves ==
  ASSUME NEW x, Plain(x), NEW src
  PROVE  FsmLeaves(x, sequencing_fsm(x, src))
  <1> DEFINE y == sequencing_fsm(x, src)
  <1>1. FsmLeaves(x, x)
    BY LeavesMost DEF Plain
  <1>2. CASE x.seq_state \in {"DISABLED", "CLEAR_DACS", "WAIT_CLEAR_DACS"}
    <2>1. y \in {x, seq_clear_dacs(x), seq_wait_clear_dacs(x)}
      BY <1>2 DEF sequencing_fsm
    <2>2. QED BY <1>1, <2>1, ClearDacsLeaves
  <1>3. CASE x.seq_state = "START_EXT"
    <2>1. y = seq_start_ext(x)
      BY <1>3 DEF sequencing_fsm
    <2>2. QED BY <1>3, <2>1, StartExtLeaves
  <1>4. CASE x.seq_state \in {"WAIT_EXT", "WAIT_MAIN"}
    <2>1. y \in {x, become_ready(x)}
      BY <1>4 DEF sequencing_fsm, seq_wait_ext, seq_wait_main
    <2>2. QED BY <1>1, <2>1, BecomeReadyLeaves
  <1>5. CASE x.seq_state \in {"START_HELPER", "WAIT_HELPER"}
    <2>1. y \in {seq_start_helper(x), seq_wait_helper(x)}
      BY <1>5 DEF sequencing_fsm
    <2>2. QED BY <2>1, HelperLeaves
  <1>6. CASE x.seq_state = "START_MAIN"
    <2>1. y = seq_start_main(x)
      BY <1>6 DEF sequencing_fsm
    <2>2. QED BY <1>6, <2>1, StartMainLeaves
  <1>7. CASE x.seq_state = "READY"
    <2>1. y = seq_ready(x)
      BY <1>7 DEF sequencing_fsm
    <2>2. QED BY <2>1, ReadyLeaves
  <1>8. x.seq_state \in SeqStates
    BY DEF Plain
  <1>9. QED BY <1>2, <1>3, <1>4, <1>5, <1>6, <1>7, <1>8 DEF SeqStates

\* What no tag changes in a PLL; a shifter at its target stays there.
Kept(m, n) ==
  /\ DOMAIN n = MainFields /\ n.enabled = m.enabled
  /\ n.id_ref = m.id_ref /\ n.id_out = m.id_out
  /\ n.phase_shift_target = m.phase_shift_target
  /\ m.phase_shift_current \in Int /\ m.phase_shift_target \in Int =>
       /\ n.phase_shift_current \in Int
       /\ m.phase_shift_current = m.phase_shift_target =>
            n.phase_shift_current = m.phase_shift_current

\* A tag leaves alone what Kept names.
LEMMA UpdateKeeps ==
  ASSUME NEW m, DOMAIN m = MainFields, NEW src, NEW f, NEW p
  PROVE  Kept(m, mpll_update(m, src, f, p))
  <1> DEFINE Same(n) == /\ DOMAIN n = MainFields /\ n.enabled = m.enabled
                        /\ n.id_ref = m.id_ref /\ n.id_out = m.id_out
                        /\ n.phase_shift_target = m.phase_shift_target
             v == IF m.phase_shift_current < m.phase_shift_target
                  THEN m.phase_shift_current + 1
                  ELSE IF m.phase_shift_current > m.phase_shift_target
                       THEN m.phase_shift_current - 1 ELSE m.phase_shift_current
             e == [m EXCEPT !.tag_ref = @ \/ src = m.id_ref, !.tag_out = @ \/ src = m.id_out]
             a == [m EXCEPT !.freq_ld = ld_sample(@, f), !.tag_ref = FALSE, !.tag_out = FALSE]
             b == ShiftPhase(a)
             c == [b EXCEPT !.phase_ld = ld_sample(@, p)]
             d == mpll_handle_gain_schedule(c)
  <1>1. mpll_update(m, src, f, p) \in {m, e, b, d}
    BY Zenon DEF mpll_update, mpll_pair
  <1>2. Same(m) /\ Same(e) /\ e.phase_shift_current = m.phase_shift_current
    BY Zenon DEF MainFields
  <1>3. Same(a) /\ a.phase_shift_current = m.phase_shift_current
    BY Zenon DEF MainFields
  <1>4. b = a \/ b = [a EXCEPT !.phase_shift_current = v]
    BY <1>3, Zenon DEF ShiftPhase
  <1> HIDE DEF v, a, e, b
  <1>5. Same(b) /\ b.phase_shift_current \in {m.phase_shift_current, v}
    BY <1>3, <1>4, Zenon DEF MainFields
  <1>6. Same(c) /\ c.phase_shift_current = b.phase_shift_current
    BY <1>5, Zenon DEF MainFields
  <1> HIDE DEF c
  <1>7. Same(d) /\ d.phase_shift_current = c.phase_shift_current
    BY <1>6, Zenon DEF mpll_handle_gain_schedule, EnterStage, MainFields
  <1> HIDE DEF d
  <1>8. m.phase_shift_current \in Int /\ m.phase_shift_target \in Int =>
          /\ v \in Int
          /\ m.phase_shift_current = m.phase_shift_target => v = m.phase_shift_current
    BY DEF v
  <1>9. \E n : /\ n = mpll_update(m, src, f, p) /\ Same(n)
              /\ n.phase_shift_current \in {m.phase_shift_current, v}
    BY Zenon, <1>1, <1>2, <1>5, <1>6, <1>7
  <1>10. QED BY <1>8, <1>9 DEF Kept


\* The loops change nothing but the detectors and the shifters of their PLLs.
LoopsLeave(x, z) ==
  /\ Plain(z)
  /\ z.mode = x.mode /\ z.eic = x.eic /\ z.seq_state = x.seq_state
  /\ z.align_state = x.align_state /\ z.taggers = x.taggers /\ z.occr = x.occr
  /\ Kept(x.mpll, z.mpll)
  /\ \A i \in AuxIds : /\ z.aux[i].seq_state = x.aux[i].seq_state
                        /\ Kept(x.aux[i].dmtd, z.aux[i].dmtd)

\* update_loops, one loop after the other.
LEMMA LoopsLeaves ==
  ASSUME NEW x, Plain(x), NEW src, NEW ok
  PROVE  LoopsLeave(x, update_loops(x, src, ok))
  <1> DEFINE f == [x.helper EXCEPT !.fresh = FALSE]
             h == [x.helper EXCEPT !.ld = ld_update(@, ok.h)]
             c == [x EXCEPT !.helper = h]
             y == helper_update(x, src, ok.h)
             n == mpll_update(y.mpll, src, ok.f, ok.p)
             w == update_main(y, src, ok)
             u == [i \in AuxIds |-> [seq_state |-> w.aux[i].seq_state,
                     dmtd |-> mpll_update(w.aux[i].dmtd, src, ok.af[i], ok.ap[i])]]
             v == update_aux(w, src, ok)
             z == update_loops(x, src, ok)
             Rest(e) == /\ DOMAIN e = Fields /\ e.mode = x.mode /\ e.eic = x.eic
                        /\ e.seq_state = x.seq_state /\ e.align_state = x.align_state
                        /\ e.taggers = x.taggers /\ e.occr = x.occr
                        /\ DOMAIN e.helper = HelperFields
  <1>1. /\ DOMAIN x = Fields /\ DOMAIN x.helper = HelperFields /\ DOMAIN x.mpll = MainFields
        /\ DOMAIN f = HelperFields /\ DOMAIN h = HelperFields
    BY Zenon DEF Plain
  <1>2. y \in {x, [x EXCEPT !.helper = f], [c EXCEPT !.dacs_clear = FALSE]}
    BY Zenon DEF helper_update
  <1> HIDE DEF f, h
  <1>3. Rest(c) /\ c.mpll = x.mpll /\ c.aux = x.aux
    BY <1>1, Zenon DEF Fields
  <1> HIDE DEF c
  <1>4. Rest(y) /\ y.mpll = x.mpll /\ y.aux = x.aux
    <2>1. CASE y = x
      BY <1>1, <2>1, Zenon
    <2>2. CASE y = [x EXCEPT !.helper = f]
      BY <1>1, <2>2, Zenon DEF Fields
    <2>3. CASE y = [c EXCEPT !.dacs_clear = FALSE]
      BY <1>3, <2>3, Zenon DEF Fields
    <2>4. QED BY <1>2, <2>1, <2>2, <2>3, Zenon
  <1> HIDE DEF y
  <1>5. Kept(x.mpll, n)
    BY <1>1, <1>4, UpdateKeeps, Zenon
  <1>6. Rest(w) /\ w.mpll = n /\ w.aux = x.aux
    BY <1>4, Zenon DEF update_main, Fields
  <1> HIDE DEF n, w
  <1>7. v = w \/ v = [w EXCEPT !.aux = u]
    BY Zenon DEF update_aux
  <1>8. /\ DOMAIN u = AuxIds
        /\ \A i \in AuxIds : /\ DOMAIN u[i] = {"seq_state", "dmtd"}
                              /\ u[i].seq_state = x.aux[i].seq_state
                              /\ Kept(x.aux[i].dmtd, u[i].dmtd)
    <2>1. DOMAIN u = AuxIds
      BY Zenon
    <2>2. ASSUME NEW i \in AuxIds
          PROVE  /\ DOMAIN u[i] = {"seq_state", "dmtd"}
                 /\ u[i].seq_state = x.aux[i].seq_state
                 /\ Kept(x.aux[i].dmtd, u[i].dmtd)
      <3>1. DOMAIN x.aux[i].dmtd = MainFields
        BY Zenon DEF Plain
      <3>2. u[i] = [seq_state |-> x.aux[i].seq_state,
                    dmtd |-> mpll_update(x.aux[i].dmtd, src, ok.af[i], ok.ap[i])]
        BY <1>6, Zenon
      <3>3. Kept(x.aux[i].dmtd, mpll_update(x.aux[i].dmtd, src, ok.af[i], ok.ap[i]))
        BY <3>1, UpdateKeeps, Zenon
      <3>4. QED BY <3>2, <3>3, Zenon
    <2>3. QED BY <2>1, <2>2, Zenon
  <1> HIDE DEF u
  <1>9. ASSUME NEW i \in AuxIds
        PROVE  DOMAIN x.aux[i] = {"seq_state", "dmtd"} /\ Kept(x.aux[i].dmtd, x.aux[i].dmtd)
    BY Zenon DEF Plain, Kept
  <1>10. Kept(x.mpll, x.mpll)
    BY <1>1, Zenon DEF Kept
  <1>11. LoopsLeave(x, y)
    <2>1. Plain(y)
      BY <1>1, <1>4, Zenon DEF Plain
    <2>2. QED BY <1>4, <1>9, <1>10, <2>1, Zenon DEF LoopsLeave
  <1>12. LoopsLeave(x, w)
    <2>1. Plain(w)
      BY <1>5, <1>6, Zenon DEF Plain, Kept
    <2>2. QED BY <1>5, <1>6, <1>9, <2>1, Zenon DEF LoopsLeave
  <1>13. ASSUME v = [w EXCEPT !.aux = u]
         PROVE  LoopsLeave(x, v)
    <2>1. Rest(v) /\ v.mpll = n /\ v.aux = u
      BY <1>6, <1>13, Zenon DEF Fields
    <2> HIDE DEF v
    <2>2. DOMAIN n = MainFields /\ \A i \in AuxIds : DOMAIN u[i].dmtd = MainFields
      BY <1>5, <1>8, Zenon DEF Kept
    <2>3. Plain(v)
      BY <1>8, <2>1, <2>2, Zenon DEF Plain
    <2>4. QED BY <1>5, <1>8, <2>1, <2>3, Zenon DEF LoopsLeave
  <1> HIDE DEF v
  <1>14. z = y \/ z = v
    BY Zenon DEF update_loops, y, w, v
  <1>15. QED BY <1>7, <1>11, <1>12, <1>13, <1>14, Zenon

\* What mpll_start, and a tag after it, make of a PLL.
Restarted(m, n) ==
  /\ n.enabled /\ n.id_ref = m.id_ref /\ n.id_out = m.id_out
  /\ n.phase_shift_current = 0 /\ n.phase_shift_target = 0

\* A whole interrupt.
IrqLeaves(x, z) ==
  /\ Plain(z) /\ z.mode = x.mode /\ z.eic = x.eic
  /\ \/ z.align_state = x.align_state /\ x.taggers \subseteq z.taggers
     \/ /\ x.seq_state = "START_EXT" /\ z.align_state = "WAIT_CLKIN"
        /\ x.taggers \ {MAIN_CHANNEL} \subseteq z.taggers
  /\ Kept(x.mpll, z.mpll) \/ (x.seq_state = "START_MAIN" /\ Restarted(x.mpll, z.mpll))
  /\ \A i \in AuxIds : /\ z.aux[i].seq_state = x.aux[i].seq_state
                        /\ Kept(x.aux[i].dmtd, z.aux[i].dmtd)
  /\ z.occr \ {x.mpll.id_ref} = x.occr \ {x.mpll.id_ref}

\* The sequencer, then the loops.
LEMMA IrqFrame ==
  ASSUME NEW ch, NEW ok, Irq(ch, ok), Plain(s)
  PROVE  IrqLeaves(s, s')
  <1> DEFINE y == sequencing_fsm(s, ch)
             z == update_loops(y, ch, ok)
  <1>1. s' = z
    BY Zenon DEF Irq
  <1>2. FsmLeaves(s, y)
    BY SequencerLeaves
  <1> HIDE DEF y
  <1>3. Plain(y)
    BY <1>2, Zenon DEF FsmLeaves
  <1>4. LoopsLeave(y, z)
    BY <1>3, LoopsLeaves, Zenon
  <1> HIDE DEF z
  <1>5. Kept(s.mpll, z.mpll) \/ (s.seq_state = "START_MAIN" /\ Restarted(s.mpll, z.mpll))
    <2>1. CASE y.mpll = s.mpll
      BY <1>4, <2>1, Zenon DEF LoopsLeave
    <2>2. CASE s.seq_state = "START_MAIN" /\ y.mpll = mpll_start(s.mpll)
      <3>1. DOMAIN s.mpll = MainFields
        BY Zenon DEF Plain
      <3> DEFINE m == mpll_start(s.mpll)
      <3>2. /\ m.enabled = TRUE /\ m.id_ref = s.mpll.id_ref /\ m.id_out = s.mpll.id_out
            /\ m.phase_shift_current = 0 /\ m.phase_shift_target = 0
        BY <3>1, Zenon DEF mpll_start, MainFields
      <3> HIDE DEF m
      <3>3. Kept(m, z.mpll)
        BY <1>4, <2>2, Zenon DEF LoopsLeave, m
      <3>4. Restarted(s.mpll, z.mpll)
        BY <3>2, <3>3 DEF Kept, Restarted
      <3>5. QED BY <2>2, <3>4
    <2>3. QED BY <1>2, <2>1, <2>2, Zenon DEF FsmLeaves
  <1>6. QED BY <1>1, <1>2, <1>4, <1>5, Zenon DEF IrqLeaves, FsmLeaves, LoopsLeave

\* spll_init starts everything over but the aligner, whose state it only resets
\* for a grandmaster.
InitLeaves(x, z, mode, ref) ==
  /\ Plain(z) /\ z.mode = mode /\ ~z.mpll.enabled
  /\ z.seq_state \in {"DISABLED", "CLEAR_DACS"}
  /\ z.align_state \in {x.align_state, "EXT_OFF"}
  /\ mode = "GRAND_MASTER" /\ ExtSupported => z.align_state = "EXT_OFF"
  /\ z.mpll.phase_shift_current = x.mpll.phase_shift_current
  /\ z.mpll.phase_shift_target = x.mpll.phase_shift_target
  /\ z.mpll.id_ref \in {ref, EXT_CHANNEL} /\ z.mpll.id_out = MAIN_CHANNEL /\ z.occr = {}
  /\ \A i \in AuxIds : /\ z.aux[i].seq_state = "DISABLED"
                       /\ z.aux[i].dmtd.id_ref = ref
                       /\ z.aux[i].dmtd.id_out = MAIN_CHANNEL + i

\* What mpll_init changes, and what it does not.
Stopped(m, n, r, o) ==
  /\ DOMAIN n = MainFields /\ n.enabled = FALSE /\ n.id_ref = r /\ n.id_out = o
  /\ n.phase_shift_current = m.phase_shift_current
  /\ n.phase_shift_target = m.phase_shift_target

\* mpll_init stops the PLL and routes it.
LEMMA MpllInitKeeps ==
  ASSUME NEW m, DOMAIN m = MainFields, NEW r, NEW o
  PROVE  Stopped(m, mpll_init(m, r, o), r, o)
  BY Zenon DEF mpll_init, MainFields, Stopped

\* spll_init: the common part, the external reference, the interrupt.
LEMMA SpllInitPlain ==
  ASSUME NEW x, Plain(x), NEW mode \in Modes, NEW ref
  PROVE  InitLeaves(x, spll_init(x, mode, ref), mode, ref)
  <1> DEFINE q == IF mode = "DISABLED" THEN "DISABLED" ELSE "CLEAR_DACS"
             h == IF mode = "SLAVE" THEN ref ELSE MAIN_CHANNEL
             n == mpll_init(x.mpll, ref, MAIN_CHANNEL)
             u == [i \in AuxIds |-> [seq_state |-> "DISABLED",
                                     dmtd |-> mpll_init(x.aux[i].dmtd, ref, MAIN_CHANNEL + i)]]
             a == [x EXCEPT !.cpu_irq = FALSE, !.eic = FALSE, !.mode = mode,
                            !.taggers = {}, !.occr = {}, !.dacs_clear = FALSE,
                            !.dac_timeout = FALSE, !.seq_state = q]
             b == [a EXCEPT !.helper = [a.helper EXCEPT !.ref_src = h]]
             y == init_common(x, mode, ref)
             e == [y EXCEPT !.helper = [y.helper EXCEPT !.ref_src = EXT_CHANNEL]]
             k == mpll_init(y.mpll, EXT_CHANNEL, MAIN_CHANNEL)
             z == external_init(y)
  <1>1. DOMAIN x = Fields /\ DOMAIN x.mpll = MainFields /\ DOMAIN x.helper = HelperFields
    BY DEF Plain
  <1>2. y = [b EXCEPT !.mpll = n, !.aux = u]
    BY Zenon DEF init_common
  <1>3. /\ DOMAIN n = MainFields /\ n.enabled = FALSE
        /\ n.id_ref = ref /\ n.id_out = MAIN_CHANNEL
        /\ n.phase_shift_current = x.mpll.phase_shift_current
        /\ n.phase_shift_target = x.mpll.phase_shift_target
    <2>1. Stopped(x.mpll, n, ref, MAIN_CHANNEL)
      BY <1>1, MpllInitKeeps, Zenon
    <2> HIDE DEF n
    <2>2. QED BY <2>1, Zenon DEF Stopped
  <1>4. q \in SeqStates /\ q \in {"DISABLED", "CLEAR_DACS"}
    BY DEF SeqStates
  <1>5. /\ DOMAIN u = AuxIds
        /\ \A i \in AuxIds : /\ DOMAIN u[i] = {"seq_state", "dmtd"}
                             /\ u[i].seq_state = "DISABLED" /\ DOMAIN u[i].dmtd = MainFields
                             /\ u[i].dmtd.id_ref = ref
                             /\ u[i].dmtd.id_out = MAIN_CHANNEL + i
    <2>1. DOMAIN u = AuxIds
      BY Zenon
    <2>2. ASSUME NEW i \in AuxIds
          PROVE  /\ DOMAIN u[i] = {"seq_state", "dmtd"}
                 /\ u[i].seq_state = "DISABLED" /\ DOMAIN u[i].dmtd = MainFields
                 /\ u[i].dmtd.id_ref = ref
                 /\ u[i].dmtd.id_out = MAIN_CHANNEL + i
      <3>1. DOMAIN x.aux[i].dmtd = MainFields
        BY Zenon DEF Plain
      <3>2. u[i] = [seq_state |-> "DISABLED",
                    dmtd |-> mpll_init(x.aux[i].dmtd, ref, MAIN_CHANNEL + i)]
        BY Zenon
      <3> HIDE DEF u
      <3>3. /\ DOMAIN u[i] = {"seq_state", "dmtd"} /\ u[i].seq_state = "DISABLED"
            /\ u[i].dmtd = mpll_init(x.aux[i].dmtd, ref, MAIN_CHANNEL + i)
        BY <3>2
      <3>4. Stopped(x.aux[i].dmtd, u[i].dmtd, ref, MAIN_CHANNEL + i)
        BY <3>1, <3>3, MpllInitKeeps, Zenon
      <3>5. QED BY <3>3, <3>4, Zenon DEF Stopped
    <2>3. QED BY <2>1, <2>2, Zenon
  <1> HIDE DEF q, h, u, n
  <1>6. /\ DOMAIN a = Fields /\ a.helper = x.helper /\ a.mode = mode /\ a.seq_state = q
        /\ a.align_state = x.align_state /\ a.occr = {}
    BY <1>1, Zenon DEF Fields
  <1> HIDE DEF a
  <1>7. DOMAIN [a.helper EXCEPT !.ref_src = h] = HelperFields
    BY <1>1, <1>6, Zenon
  <1>8. /\ DOMAIN b = Fields /\ DOMAIN b.helper = HelperFields /\ b.mode = mode
        /\ b.seq_state = q /\ b.align_state = x.align_state /\ b.occr = {}
    BY <1>6, <1>7, Zenon DEF Fields
  <1> HIDE DEF b
  <1>9. /\ DOMAIN y = Fields /\ y.helper = b.helper /\ y.mode = mode /\ y.seq_state = q
        /\ y.align_state = x.align_state /\ y.occr = {} /\ y.mpll = n /\ y.aux = u
    BY <1>2, <1>8, Zenon DEF Fields
  <1> HIDE DEF y
  <1>10. /\ Plain(y) /\ ~y.mpll.enabled
    BY <1>3, <1>4, <1>5, <1>8, <1>9, Zenon DEF Plain
  <1>11. /\ DOMAIN k = MainFields /\ k.enabled = FALSE
         /\ k.id_ref = EXT_CHANNEL /\ k.id_out = MAIN_CHANNEL
         /\ k.phase_shift_current = x.mpll.phase_shift_current
         /\ k.phase_shift_target = x.mpll.phase_shift_target
    <2>1. Stopped(n, k, EXT_CHANNEL, MAIN_CHANNEL)
      BY <1>3, <1>9, MpllInitKeeps, Zenon
    <2> HIDE DEF k
    <2>2. QED BY <1>3, <2>1, Zenon DEF Stopped
  <1>12. z = [e EXCEPT !.mpll = k, !.align_state = "EXT_OFF"]
    BY Zenon DEF external_init
  <1> HIDE DEF k
  <1>13. DOMAIN [y.helper EXCEPT !.ref_src = EXT_CHANNEL] = HelperFields
    BY <1>8, <1>9, Zenon
  <1>14. /\ DOMAIN e = Fields /\ DOMAIN e.helper = HelperFields /\ e.mode = mode
         /\ e.seq_state = q /\ e.occr = {} /\ e.aux = u
    BY <1>9, <1>13, Zenon DEF Fields
  <1> HIDE DEF e, z
  <1>15. /\ DOMAIN z = Fields /\ z.helper = e.helper /\ z.mode = mode /\ z.seq_state = q
         /\ z.align_state = "EXT_OFF" /\ z.occr = {} /\ z.mpll = k /\ z.aux = u
    BY <1>12, <1>14, Zenon DEF Fields
  <1>16. Plain(z) /\ ~z.mpll.enabled
    BY <1>4, <1>5, <1>11, <1>14, <1>15, Zenon DEF Plain
  <1>17. \/ spll_init(x, mode, ref) = y /\ ~(mode = "GRAND_MASTER" /\ ExtSupported)
         \/ spll_init(x, mode, ref) = init_done(z)
         \/ spll_init(x, mode, ref) = init_done(y) /\ mode # "GRAND_MASTER"
    BY DEF spll_init, y, z
  <1>18. ASSUME NEW r, Plain(r)
         PROVE  LET d == init_done(r)
                IN  /\ Plain(d) /\ d.mode = r.mode /\ d.mpll = r.mpll /\ d.aux = r.aux
                    /\ d.align_state = r.align_state /\ d.occr = r.occr
                    /\ d.seq_state = r.seq_state
    <2> DEFINE t == IF TRUE THEN r.taggers \cup {MAIN_CHANNEL} ELSE r.taggers \ {MAIN_CHANNEL}
               g == [r EXCEPT !.taggers = t]
               d == init_done(r)
    <2>1. d = [g EXCEPT !.eic = TRUE, !.cpu_irq = TRUE]
      BY Zenon DEF init_done, spll_enable_tagger
    <2> HIDE DEF t
    <2>2. /\ DOMAIN g = Fields /\ g.helper = r.helper /\ g.mode = r.mode /\ g.mpll = r.mpll
          /\ g.seq_state = r.seq_state /\ g.aux = r.aux /\ g.align_state = r.align_state
          /\ g.occr = r.occr
      BY <1>18, Zenon DEF Plain, Fields
    <2> HIDE DEF g
    <2>3. /\ DOMAIN d = Fields /\ d.helper = r.helper /\ d.mode = r.mode /\ d.mpll = r.mpll
          /\ d.seq_state = r.seq_state /\ d.aux = r.aux /\ d.align_state = r.align_state
          /\ d.occr = r.occr
      BY <2>1, <2>2, Zenon DEF Fields
    <2> HIDE DEF d
    <2>4. Plain(d)
      BY <1>18, <2>3, Zenon DEF Plain
    <2>5. QED BY <2>3, <2>4, Zenon DEF d
  <1>19. InitLeaves(x, z, mode, ref)
    BY <1>4, <1>5, <1>11, <1>15, <1>16, Zenon DEF InitLeaves
  <1>20. ASSUME ~(mode = "GRAND_MASTER" /\ ExtSupported)
         PROVE  InitLeaves(x, y, mode, ref)
    BY <1>3, <1>4, <1>5, <1>9, <1>10, <1>20, Zenon DEF InitLeaves
  <1>21. InitLeaves(x, init_done(z), mode, ref)
    BY <1>16, <1>18, <1>19, Zenon DEF InitLeaves
  <1>22. ASSUME mode # "GRAND_MASTER"
         PROVE  InitLeaves(x, init_done(y), mode, ref)
    BY <1>10, <1>18, <1>20, <1>22, Zenon DEF InitLeaves
  <1>23. QED BY <1>17, <1>20, <1>21, <1>22

(***************************************************************************)
(* The theorems                                                            *)
(***************************************************************************)
\* The aligner is not part of this module (see SoftPllGm), and the external
\* reference never locks.
IInv ==
  /\ Good(s) /\ (FreqLock < FreqDelock => Backed(s.mpll))
  /\ Plain(s) /\ s.align_state \notin Synchronised

\* After spll_very_init.
LEMMA InitIInv == Init => IInv
  <1> SUFFICES ASSUME Init PROVE IInv
    OBVIOUS
  <1> DEFINE m == main_zero(NoSchedule)
             d == ld_config(HelperLock, HelperDelock)
  <1>1. d \in LdRec
    BY LdConfig, SoftPllAssumption
  <1>2. ld_config(0, 0) \in LdRec /\ ld_config(0, 0).lock_cnt = 0
        /\ ld_config(0, 0).lock_samples = 0
    BY LdConfig
  <1>3. /\ DOMAIN m = MainFields /\ m.enabled = FALSE /\ m.locked = FALSE
        /\ m.freq_ld = ld_config(0, 0) /\ m.phase_ld = ld_config(0, 0)
        /\ m.gain_sched = NoSchedule
    BY Zenon DEF main_zero, MainFields
  <1>4. /\ DOMAIN NoSchedule = {"n_stages", "current_stage", "locked_d", "stages"}
        /\ NoSchedule.n_stages = 0
    BY Zenon DEF NoSchedule
  <1>5. /\ DOMAIN s = Fields /\ s.mode = "DISABLED" /\ s.seq_state = "DISABLED"
        /\ DOMAIN s.helper = {"ref_src", "fresh", "ld"} /\ s.helper.ld = d /\ s.mpll = m
        /\ s.align_state = "EXT_OFF" /\ s.occr = {}
    BY Zenon DEF Init, spll_very_init, Fields
  <1> HIDE DEF m, d
  <1>6. MainShape(m)
    BY <1>2, <1>3, <1>4, Zenon DEF MainShape
  <1>7. ~m.enabled
    BY <1>3, Zenon
  <1>8. FreqShape(m)
    BY <1>2, <1>3, <1>7 DEF FreqShape
  <1>9. Shape(s)
    BY <1>1, <1>5, <1>6, <1>8, Zenon DEF Shape
  <1>10. Flag(s) /\ Edge(s) /\ Waiting(s) /\ ModeOf(s)
    BY <1>5 DEF Flag, Edge, Waiting, ModeOf, SeqStates
  <1>11. Backed(s.mpll)
    BY <1>5, <1>7, Zenon DEF Backed
  <1>12. Plain(s)
    <2> DEFINE u == [i \in AuxIds |-> [seq_state |-> "DISABLED", dmtd |-> main_zero(NoSchedule)]]
    <2>1. s.aux = u
      BY Zenon DEF Init, spll_very_init
    <2>2. \A i \in AuxIds : u[i] = [seq_state |-> "DISABLED", dmtd |-> m]
      BY Zenon DEF m
    <2>3. DOMAIN u = AuxIds
      BY Zenon
    <2> HIDE DEF u
    <2>4. \A i \in AuxIds : DOMAIN u[i] = {"seq_state", "dmtd"} /\ u[i].dmtd = m
      BY <2>2
    <2>5. s.seq_state \in SeqStates
      BY <1>5 DEF SeqStates
    <2>6. QED BY <1>3, <1>5, <2>1, <2>3, <2>4, <2>5, Zenon DEF Plain, HelperFields
  <1>13. s.align_state \notin Synchronised
    BY <1>5 DEF Synchronised
  <1>14. QED BY <1>9, <1>10, <1>11, <1>12, <1>13 DEF IInv, Good

\* An interrupt: the sequencer, then the loops.
LEMMA IrqGood ==
  ASSUME Good(s), NEW ch, NEW ok \in Errors, Irq(ch, ok)
  PROVE  /\ Good(s') /\ (FreqLock < FreqDelock /\ Backed(s.mpll) => Backed(s'.mpll))
         /\ s.seq_state # "READY" /\ s'.seq_state = "READY" =>
              Earned(s) \/ (s.seq_state = "WAIT_EXT" /\ external_locked(s))
  <1> DEFINE y == sequencing_fsm(s, ch)
             z == update_loops(y, ch, ok)
  <1>1. /\ Between(y) /\ (Backed(s.mpll) => Backed(y.mpll))
        /\ s.seq_state # "READY" /\ y.seq_state = "READY" =>
             Earned(s) \/ (s.seq_state = "WAIT_EXT" /\ external_locked(s))
    BY Sequencer
  <1>2. s' = z
    BY DEF Irq
  <1> HIDE DEF y
  <1>3. /\ Good(z) /\ z.seq_state = y.seq_state
        /\ FreqLock < FreqDelock /\ Backed(y.mpll) => Backed(z.mpll)
    BY <1>1, LoopsGood
  <1> HIDE DEF z
  <1>4. QED BY <1>1, <1>2, <1>3

\* An interrupt without an aligner.
LEMMA IrqIInv ==
  ASSUME IInv, NEW ch, NEW ok \in Errors, Irq(ch, ok)
  PROVE  /\ IInv'
         /\ s.seq_state # "READY" /\ s'.seq_state = "READY" => Earned(s)
  <1>1. /\ Good(s') /\ (FreqLock < FreqDelock /\ Backed(s.mpll) => Backed(s'.mpll))
        /\ s.seq_state # "READY" /\ s'.seq_state = "READY" =>
             Earned(s) \/ (s.seq_state = "WAIT_EXT" /\ external_locked(s))
    BY IrqGood DEF IInv
  <1>2. ~external_locked(s)
    BY DEF IInv, external_locked
  <1>3. Plain(s') /\ s'.align_state \in {s.align_state, "WAIT_CLKIN"}
    BY IrqFrame DEF IInv, IrqLeaves
  <1>4. s'.align_state \notin Synchronised
    BY <1>3 DEF IInv, Synchronised
  <1>5. QED BY <1>1, <1>2, <1>3, <1>4 DEF IInv

\* Steps that leave alone what the invariant is about.
LEMMA FrameIInv ==
  ASSUME IInv, DOMAIN s' = Fields, s'.mode = s.mode, s'.seq_state = s.seq_state,
         s'.helper = s.helper, s'.mpll = s.mpll, s'.align_state = s.align_state,
         s'.occr = s.occr, s'.aux = s.aux
  PROVE  IInv'
  <1>1. Good(s')
    BY GoodFrame DEF IInv
  <1>2. Plain(s')
    BY Zenon DEF IInv, Plain
  <1>3. QED BY <1>1, <1>2 DEF IInv

\* Every step, the interrupt between any two accesses of a call included.
LEMMA StepIInv ==
  ASSUME IInv, [Next]_vars
  PROVE  /\ IInv'
         /\ s.seq_state # "READY" /\ s'.seq_state = "READY" => Earned(s)
  <1>0. DOMAIN s = Fields
    BY DEF IInv, Good, Shape
  <1>1. ASSUME NEW ch \in Channels, NEW ok \in Errors, Irq(ch, ok)
        PROVE  IInv' /\ (s.seq_state # "READY" /\ s'.seq_state = "READY" => Earned(s))
    BY <1>1, IrqIInv
  <1>2. ASSUME NEW mode \in Modes, NEW ref \in SlaveRefs, SpllInit(mode, ref)
        PROVE  IInv' /\ s'.seq_state # "READY"
    <2>1. s' = spll_init(s, mode, ref)
      BY <1>2 DEF SpllInit
    <2>2. Good(s') /\ ~s'.mpll.enabled
      BY <2>1, SpllInitGood DEF IInv
    <2>3. Backed(s'.mpll)
      BY <2>2 DEF Backed
    <2>4. s'.seq_state # "READY"
      BY <2>1, SpllInitPlain DEF IInv, InitLeaves
    <2>5. Plain(s') /\ s'.align_state \notin Synchronised
      BY <2>1, SpllInitPlain DEF IInv, InitLeaves, Synchronised
    <2>6. QED BY <2>2, <2>3, <2>4, <2>5 DEF IInv
  <1>3. ASSUME \/ Elapse \/ SpllShutdown \/ SetUnderIrqLock \/ TaskStep
               \/ \E ch \in Tracked : EnablePtracker(ch) \/ DisablePtracker(ch)
               \/ \E ch \in Channels : HwTag(ch)
               \/ Settle \/ UNCHANGED vars
        PROVE  IInv' /\ s'.seq_state = s.seq_state
    <2>1. /\ DOMAIN s' = Fields /\ s'.mode = s.mode /\ s'.seq_state = s.seq_state
          /\ s'.helper = s.helper /\ s'.mpll = s.mpll /\ s'.align_state = s.align_state
          /\ s'.occr = s.occr /\ s'.aux = s.aux
      <3>1. CASE Elapse
        BY <1>0, <3>1, Zenon DEF Elapse, Fields
      <3>2. CASE SpllShutdown
        BY <1>0, <3>2, Zenon DEF SpllShutdown, spll_shutdown, Fields
      <3>3. CASE SetUnderIrqLock
        BY <1>0, <3>3, Zenon DEF SetUnderIrqLock, Fields
      <3>4. CASE LoadCer
        BY <1>0, <3>4 DEF LoadCer
      <3>5. CASE StoreCer
        <4>1. PICK t : s' = [s EXCEPT !.taggers = t]
          BY <3>5, Zenon DEF StoreCer
        <4>2. QED BY <1>0, <4>1, Zenon DEF Fields
      <3>6. CASE SetMask
        BY <1>0, <3>6, Zenon DEF SetMask, Fields
      <3>7. CASE \E ch \in Tracked : DisablePtracker(ch)
        <4>1. PICK t : s' = [s EXCEPT !.ptracker_mask = t]
          BY <3>7, Zenon DEF DisablePtracker
        <4>2. QED BY <1>0, <4>1, Zenon DEF Fields
      <3>8. CASE \/ \E ch \in Tracked : EnablePtracker(ch)
                 \/ \E ch \in Channels : HwTag(ch)
                 \/ Settle \/ UNCHANGED vars
        BY Zenon, <1>0, <3>8 DEF EnablePtracker, HwTag, Settle, vars
      <3>9. QED
        BY SMTT(30), <1>3, <3>1, <3>2, <3>3, <3>4, <3>5, <3>6, <3>7, <3>8 DEF TaskStep
    <2>2. QED BY SMTT(30), <2>1, FrameIInv
  <1>4. QED
    BY <1>1, <1>2, <1>3 DEF Next

(***************************************************************************)
(* The lock flag in OCCR is up exactly in SEQ_READY.                       *)
(***************************************************************************)
THEOREM FlagInvariant == Spec => []FlagMeansReady
  <1>1. IInv /\ [Next]_vars => IInv'
    BY StepIInv
  <1>2. IInv => FlagMeansReady
    BY DEF IInv, Good, Flag, FlagMeansReady
  <1>3. QED BY InitIInv, <1>1, <1>2, PTL DEF Spec

(***************************************************************************)
(* The edge that SEQ_WAIT_HELPER waits for is never missed.                *)
(***************************************************************************)
THEOREM EdgeInvariant == Spec => []HelperEdgeNotMissed
  <1>1. IInv /\ [Next]_vars => IInv'
    BY StepIInv
  <1>2. IInv => HelperEdgeNotMissed
    BY DEF IInv, Good, Edge, HelperEdgeNotMissed
  <1>3. QED BY InitIInv, <1>1, <1>2, PTL DEF Spec

(***************************************************************************)
(* SEQ_READY is entered only from real locks, for the order that the two   *)
(* thresholds of freq_ld have in the code (mpll_init: 50 and 20000).       *)
(***************************************************************************)
THEOREM ReadyTheorem ==
  ASSUME FreqLock < FreqDelock
  PROVE  Spec => ReadyIsEarned
  <1>1. IInv /\ [Next]_vars => IInv'
    BY StepIInv
  <1>2. IInv /\ [Next]_vars => [s.seq_state # "READY" /\ s'.seq_state = "READY" => Locked]_vars
    <2> SUFFICES ASSUME IInv, [Next]_vars, s.seq_state # "READY", s'.seq_state = "READY"
                 PROVE  Locked
      OBVIOUS
    <2>1. Earned(s) /\ Backed(s.mpll)
      BY StepIInv DEF IInv
    <2>2. QED BY <2>1 DEF Earned, Backed, Locked
  <1>3. QED BY InitIInv, <1>1, <1>2, PTL DEF Spec, ReadyIsEarned
(***************************************************************************)
(* The taggers.  Which channel the helper works on is a matter of the mode *)
(* (Routed); the channels that the sequencer's state wants stay enabled.   *)
(***************************************************************************)
Wants(x) ==
  CASE x.seq_state \in {"WAIT_HELPER", "START_MAIN", "WAIT_MAIN", "READY"} ->
         {x.helper.ref_src, MAIN_CHANNEL}
    [] x.seq_state = "WAIT_EXT" -> {EXT_CHANNEL}
    [] x.seq_state = "DISABLED" -> {}
    [] OTHER -> {MAIN_CHANNEL}

Routed(x) ==
  /\ x.mode \in Modes \cup {"DISABLED"}
  /\ x.mode = "SLAVE" => x.helper.ref_src = x.mpll.id_ref
  /\ x.mode = "FREE_RUNNING_MASTER" => x.helper.ref_src = MAIN_CHANNEL
  /\ x.mode = "GRAND_MASTER" =>
       /\ x.helper.ref_src \in {MAIN_CHANNEL, EXT_CHANNEL}
       /\ x.eic => x.helper.ref_src = EXT_CHANNEL
       /\ x.seq_state \in {"CLEAR_DACS", "WAIT_CLEAR_DACS", "START_EXT", "WAIT_EXT", "READY"}
  /\ x.mode # "GRAND_MASTER" => /\ x.mpll.id_ref \in Refs
                                /\ x.seq_state \notin {"START_EXT", "WAIT_EXT"}

Fed(x) == Routed(x) /\ (x.eic => Wants(x) \subseteq x.taggers)

\* The fields that Fed reads.
SameRoute(x, y) ==
  /\ y.mode = x.mode /\ y.helper.ref_src = x.helper.ref_src
  /\ y.mpll.id_ref = x.mpll.id_ref /\ y.eic = x.eic

\* Fed only depends on the fields that SameRoute names, the sequencer's state
\* and the taggers.
LEMMA FedFrame ==
  ASSUME NEW x, NEW y, Fed(x), SameRoute(x, y), y.seq_state = x.seq_state,
         x.taggers \subseteq y.taggers
  PROVE  Fed(y)
  <1>1. Routed(y)
    BY Zenon DEF Fed, Routed, SameRoute
  <1>2. Wants(y) = Wants(x)
    BY Zenon DEF Wants, SameRoute
  <1>3. QED BY <1>1, <1>2 DEF Fed, SameRoute

\* Wants, state by state.
LEMMA WantsAre ==
  ASSUME NEW x
  PROVE  /\ x.seq_state \in {"WAIT_HELPER", "START_MAIN", "WAIT_MAIN", "READY"} =>
              Wants(x) = {x.helper.ref_src, MAIN_CHANNEL}
         /\ x.seq_state = "WAIT_EXT" => Wants(x) = {EXT_CHANNEL}
         /\ x.seq_state = "DISABLED" => Wants(x) = {}
         /\ x.seq_state \in {"CLEAR_DACS", "WAIT_CLEAR_DACS", "START_EXT", "START_HELPER"} =>
              Wants(x) = {MAIN_CHANNEL}
  BY DEF Wants

\* The loops leave the taggers and the routes alone.
LEMMA LoopsRoute ==
  ASSUME NEW x, Between(x), NEW src, NEW ok \in Errors
  PROVE  LET z == update_loops(x, src, ok)
         IN  SameRoute(x, z) /\ z.taggers = x.taggers /\ z.seq_state = x.seq_state
  <1> DEFINE y == helper_update(x, src, ok.h)
             w == update_main(y, src, ok)
             n == mpll_update(y.mpll, src, ok.f, ok.p)
             v == update_aux(w, src, ok)
             z == update_loops(x, src, ok)
  <1>1. ok.h \in BOOLEAN /\ ok.f \in BOOLEAN /\ ok.p \in BOOLEAN
    BY Zenon DEF Errors, May
  <1>2. /\ DOMAIN x = Fields /\ DOMAIN x.helper = {"ref_src", "fresh", "ld"}
    BY Zenon DEF Between, Shape
  <1>3. /\ DOMAIN y = Fields /\ y.mpll = x.mpll /\ y.mode = x.mode /\ y.seq_state = x.seq_state
    BY <1>1, HelperUpdate, Zenon
  <1>4. y.helper.ref_src = x.helper.ref_src /\ y.taggers = x.taggers /\ y.eic = x.eic
    <2> DEFINE a == [x EXCEPT !.helper.fresh = FALSE]
               b == [x EXCEPT !.helper.ld = ld_update(@, ok.h), !.dacs_clear = FALSE]
    <2>1. y = x \/ y = a \/ y = b
      BY Zenon DEF helper_update
    <2>2. a.helper.ref_src = x.helper.ref_src /\ a.taggers = x.taggers /\ a.eic = x.eic
      BY <1>2, Zenon DEF Fields
    <2>3. b.helper.ref_src = x.helper.ref_src /\ b.taggers = x.taggers /\ b.eic = x.eic
      BY <1>2, Zenon DEF Fields
    <2> HIDE DEF a, b, y
    <2>4. QED BY <2>1, <2>2, <2>3, Zenon
  <1>5. n.id_ref = y.mpll.id_ref
    <2>1. MainShape(x.mpll) /\ FreqShape(x.mpll)
      BY Zenon DEF Between, Shape
    <2> HIDE DEF y
    <2>2. QED BY <1>1, <1>3, <2>1, MpllUpdate
  <1>6. w = [y EXCEPT !.mpll = n, !.dacs_clear = y.dacs_clear /\ ~writes_dac(y.mpll, src)]
    BY Zenon DEF update_main
  <1>7. z = IF y.helper.ld.locked THEN v ELSE y
    BY Zenon DEF update_loops
  <1> HIDE DEF y, n
  <1>8. /\ DOMAIN w = Fields /\ w.mode = y.mode /\ w.helper = y.helper /\ w.mpll = n
        /\ w.taggers = y.taggers /\ w.eic = y.eic /\ w.seq_state = y.seq_state
    BY <1>3, <1>6, Zenon DEF Fields
  <1> HIDE DEF w
  <1>9. /\ v.mode = w.mode /\ v.helper = w.helper /\ v.mpll = w.mpll
        /\ v.taggers = w.taggers /\ v.eic = w.eic /\ v.seq_state = w.seq_state
    <2> DEFINE u == [i \in AuxIds |->
                       [seq_state |-> w.aux[i].seq_state,
                        dmtd |-> mpll_update(w.aux[i].dmtd, src, ok.af[i], ok.ap[i])]]
               t == [w EXCEPT !.aux = u]
    <2>1. v = w \/ v = t
      BY Zenon DEF update_aux
    <2> HIDE DEF u
    <2>2. QED BY <1>8, <2>1, Zenon DEF Fields
  <1> HIDE DEF v
  <1>10. QED BY <1>3, <1>4, <1>5, <1>7, <1>8, <1>9, Zenon DEF SameRoute
\* helper_start enables the tagger of the helper's channel.
LEMMA HelperStartRoute ==
  ASSUME NEW x, Shape(x)
  PROVE  LET y == helper_start(x)
         IN  SameRoute(x, y) /\ y.taggers = x.taggers \cup {x.helper.ref_src}
  <1> DEFINE t == IF TRUE THEN x.taggers \cup {x.helper.ref_src}
                  ELSE x.taggers \ {x.helper.ref_src}
             a == [x EXCEPT !.taggers = t]
             b == [a EXCEPT !.helper = [a.helper EXCEPT !.fresh = TRUE]]
             l == ld_init(a.helper.ld)
             c == [b.helper EXCEPT !.ld = l]
             y == helper_start(x)
  <1>1. /\ DOMAIN x = Fields /\ DOMAIN x.helper = {"ref_src", "fresh", "ld"}
    BY Zenon DEF Shape
  <1>2. y = [b EXCEPT !.helper = c]
    BY Zenon DEF helper_start, spll_enable_tagger
  <1>3. t = x.taggers \cup {x.helper.ref_src}
    OBVIOUS
  <1> HIDE DEF t
  <1>4. /\ DOMAIN a = Fields /\ a.helper = x.helper /\ a.mpll = x.mpll /\ a.mode = x.mode
        /\ a.eic = x.eic /\ a.taggers = t
    BY <1>1, Zenon DEF Fields
  <1> HIDE DEF a, l
  <1>5. /\ DOMAIN b = Fields /\ b.helper.ref_src = x.helper.ref_src /\ b.mpll = x.mpll
        /\ b.mode = x.mode /\ b.eic = x.eic /\ b.taggers = t
        /\ DOMAIN b.helper = {"ref_src", "fresh", "ld"}
    BY <1>1, <1>4, Zenon DEF Fields
  <1> HIDE DEF b
  <1>6. c.ref_src = x.helper.ref_src
    BY <1>5, Zenon
  <1> HIDE DEF c
  <1>7. /\ y.helper = c /\ y.mpll = x.mpll /\ y.mode = x.mode /\ y.eic = x.eic /\ y.taggers = t
    BY <1>2, <1>5, Zenon DEF Fields
  <1>8. QED BY <1>3, <1>6, <1>7, Zenon DEF SameRoute

\* become_ready only adds taggers.
LEMMA BecomeReadyRoute ==
  ASSUME NEW x, Shape(x)
  PROVE  LET y == become_ready(x)
         IN  SameRoute(x, y) /\ x.taggers \subseteq y.taggers /\ y.seq_state = "READY"
  <1> DEFINE t == IF x.ptracker_mask = {} THEN x.taggers
                  ELSE x.taggers \cup x.ptracker_mask \cup {MAIN_CHANNEL}
             a == [x EXCEPT !.taggers = t]
             o == IF TRUE THEN a.occr \cup ({x.mpll.id_ref} \cap OutLock) ELSE a.occr \ {x.mpll.id_ref}
             b == [a EXCEPT !.occr = o]
             y == become_ready(x)
  <1>1. DOMAIN x = Fields
    BY DEF Shape
  <1>2. y = [b EXCEPT !.seq_state = "READY"]
    BY Zenon DEF become_ready, set_channel_status, start_ptrackers
  <1>3. x.taggers \subseteq t
    BY Zenon
  <1> HIDE DEF t
  <1>4. /\ DOMAIN a = Fields /\ a.mpll = x.mpll /\ a.helper = x.helper /\ a.mode = x.mode
        /\ a.eic = x.eic /\ a.taggers = t
    BY <1>1, Zenon DEF Fields
  <1> HIDE DEF a, o
  <1>5. /\ DOMAIN b = Fields /\ b.mpll = x.mpll /\ b.helper = x.helper /\ b.mode = x.mode
        /\ b.eic = x.eic /\ b.taggers = t
    BY <1>4, Zenon DEF Fields
  <1> HIDE DEF b
  <1>6. /\ y.mpll = x.mpll /\ y.helper = x.helper /\ y.mode = x.mode
        /\ y.eic = x.eic /\ y.taggers = t /\ y.seq_state = "READY"
    BY <1>2, <1>5, Zenon DEF Fields
  <1>7. QED BY <1>3, <1>6, Zenon DEF SameRoute

\* SEQ_READY wants what the states before it wanted, and after SEQ_WAIT_EXT the
\* main channel too.
LEMMA ReadyFed ==
  ASSUME NEW x, Good(x), Fed(x), x.seq_state \in {"WAIT_EXT", "WAIT_HELPER", "WAIT_MAIN"},
         x.seq_state = "WAIT_EXT" /\ x.eic => MAIN_CHANNEL \in x.taggers
  PROVE  Fed(become_ready(x)) /\ SameRoute(x, become_ready(x))
  <1> DEFINE y == become_ready(x)
  <1>1. SameRoute(x, y) /\ x.taggers \subseteq y.taggers /\ y.seq_state = "READY"
    BY BecomeReadyRoute DEF Good
  <1> HIDE DEF y
  <1>2. "READY" \notin {"START_EXT", "WAIT_EXT"}
    OBVIOUS
  <1>3. Routed(y)
    BY <1>1, <1>2, Zenon DEF Fed, Routed, SameRoute
  <1>4. x.eic => {x.helper.ref_src, MAIN_CHANNEL} \subseteq x.taggers
    <2>1. CASE x.seq_state \in {"WAIT_HELPER", "WAIT_MAIN"}
      <3>1. Wants(x) = {x.helper.ref_src, MAIN_CHANNEL}
        BY <2>1, WantsAre
      <3>2. QED BY <3>1 DEF Fed
    <2>2. CASE x.seq_state = "WAIT_EXT"
      <3>1. Wants(x) = {EXT_CHANNEL} /\ (x.eic => x.helper.ref_src = EXT_CHANNEL)
        BY <2>2, WantsAre DEF Fed, Routed
      <3>2. QED BY <2>2, <3>1 DEF Fed
    <2>3. QED BY <2>1, <2>2
  <1>5. Wants(y) = {y.helper.ref_src, MAIN_CHANNEL}
    BY <1>1, WantsAre
  <1>6. Fed(y)
    BY <1>1, <1>3, <1>4, <1>5 DEF Fed, SameRoute
  <1>7. QED BY <1>1, <1>6 DEF y

\* A step of the sequencer to a state that wants the main channel only, from
\* one that has it.
LEMMA MainFed ==
  ASSUME NEW x, NEW y, Good(x), Fed(x), SameRoute(x, y), x.taggers \subseteq y.taggers,
         x.eic => MAIN_CHANNEL \in y.taggers,
         y.seq_state \in {"CLEAR_DACS", "WAIT_CLEAR_DACS", "START_EXT", "START_HELPER"},
         y.seq_state = "START_EXT" => x.mode = "GRAND_MASTER",
         y.seq_state = "START_HELPER" => x.mode # "GRAND_MASTER"
  PROVE  Fed(y)
  <1>1. Routed(y)
    BY DEF Fed, Routed, SameRoute
  <1>2. Wants(y) = {MAIN_CHANNEL}
    BY WantsAre
  <1>3. QED BY <1>1, <1>2 DEF Fed, SameRoute

\* sequencing_fsm, state by state: each enables what the next one wants.
LEMMA ClearDacsFed ==
  ASSUME NEW x, Good(x), Fed(x), x.seq_state = "CLEAR_DACS"
  PROVE  Fed(seq_clear_dacs(x)) /\ SameRoute(x, seq_clear_dacs(x))
  <1> DEFINE t == IF TRUE THEN x.taggers \cup {MAIN_CHANNEL} ELSE x.taggers \ {MAIN_CHANNEL}
             a == [x EXCEPT !.taggers = t]
             y == seq_clear_dacs(x)
  <1>1. y = [a EXCEPT !.dacs_clear = TRUE, !.dac_timeout = FALSE,
                      !.seq_state = "WAIT_CLEAR_DACS"]
    BY Zenon DEF seq_clear_dacs, spll_enable_tagger
  <1>2. x.taggers \subseteq t /\ MAIN_CHANNEL \in t
    OBVIOUS
  <1> HIDE DEF t
  <1>3. /\ DOMAIN a = Fields /\ a.mpll = x.mpll /\ a.helper = x.helper /\ a.mode = x.mode
        /\ a.eic = x.eic /\ a.taggers = t
    BY Zenon DEF Good, Shape, Fields
  <1> HIDE DEF a
  <1>4. /\ y.mpll = x.mpll /\ y.helper = x.helper /\ y.mode = x.mode
        /\ y.eic = x.eic /\ y.taggers = t /\ y.seq_state = "WAIT_CLEAR_DACS"
    BY <1>1, <1>3, Zenon DEF Fields
  <1> HIDE DEF y
  <1>5. SameRoute(x, y)
    BY <1>4, Zenon DEF SameRoute
  <1>6. Fed(y)
    BY <1>2, <1>4, <1>5, MainFed
  <1>7. QED BY <1>5, <1>6 DEF y

\* SEQ_WAIT_CLEAR_DACS wants the main channel before and after.
LEMMA WaitClearDacsFed ==
  ASSUME NEW x, Good(x), Fed(x), x.seq_state = "WAIT_CLEAR_DACS"
  PROVE  Fed(seq_wait_clear_dacs(x)) /\ SameRoute(x, seq_wait_clear_dacs(x))
  <1> DEFINE q == IF x.mode = "GRAND_MASTER" THEN "START_EXT" ELSE "START_HELPER"
             a == [x EXCEPT !.dac_timeout = FALSE, !.seq_state = q]
             y == seq_wait_clear_dacs(x)
  <1>1. y = a \/ y = x
    BY Zenon DEF seq_wait_clear_dacs
  <1>2. \/ q = "START_EXT" /\ x.mode = "GRAND_MASTER"
        \/ q = "START_HELPER" /\ x.mode # "GRAND_MASTER"
    OBVIOUS
  <1> HIDE DEF q
  <1>3. /\ a.mpll = x.mpll /\ a.helper = x.helper /\ a.mode = x.mode
        /\ a.eic = x.eic /\ a.taggers = x.taggers /\ a.seq_state = q
    BY Zenon DEF Good, Shape, Fields
  <1> HIDE DEF a, y
  <1>4. SameRoute(x, a) /\ SameRoute(x, x)
    BY <1>3, Zenon DEF SameRoute
  <1>5. Wants(x) = {MAIN_CHANNEL}
    BY WantsAre
  <1>6. Fed(a)
    <2>1. x.taggers \subseteq a.taggers /\ (x.eic => MAIN_CHANNEL \in a.taggers)
      BY <1>3, <1>5 DEF Fed
    <2>2. QED BY <1>2, <1>3, <1>4, <2>1, MainFed
  <1>7. QED BY <1>1, <1>4, <1>6 DEF y

\* SEQ_START_EXT enables the channel it then waits for.
LEMMA StartExtFed ==
  ASSUME NEW x, Good(x), Fed(x), x.seq_state = "START_EXT"
  PROVE  Fed(seq_start_ext(x)) /\ SameRoute(x, seq_start_ext(x))
  <1> DEFINE t == IF FALSE THEN x.taggers \cup {MAIN_CHANNEL} ELSE x.taggers \ {MAIN_CHANNEL}
             a == [x EXCEPT !.taggers = t]
             b == helper_start(a)
             c == [b EXCEPT !.align_state = "WAIT_CLKIN"]
             y == seq_start_ext(x)
  <1>1. y = [c EXCEPT !.seq_state = "WAIT_EXT"]
    BY Zenon DEF seq_start_ext, external_start, spll_enable_tagger
  <1> HIDE DEF t
  <1>2. /\ DOMAIN a = Fields /\ a.mpll = x.mpll /\ a.helper = x.helper /\ a.mode = x.mode
        /\ a.seq_state = x.seq_state /\ a.occr = x.occr /\ a.eic = x.eic
    BY Zenon DEF Good, Shape, Fields
  <1> HIDE DEF a
  <1>3. Shape(a)
    BY <1>2, Zenon DEF Good, Shape
  <1>4. DOMAIN b = Fields /\ SameRoute(a, b) /\ b.taggers = a.taggers \cup {a.helper.ref_src}
    BY <1>3, HelperStart, HelperStartRoute
  <1> HIDE DEF b
  <1>5. /\ DOMAIN c = Fields /\ c.helper = b.helper /\ c.mpll = b.mpll /\ c.mode = b.mode
        /\ c.eic = b.eic /\ c.taggers = b.taggers
    BY <1>4, Zenon DEF Fields
  <1> HIDE DEF c
  <1>6. /\ y.helper = b.helper /\ y.mpll = b.mpll /\ y.mode = b.mode
        /\ y.eic = b.eic /\ y.taggers = b.taggers /\ y.seq_state = "WAIT_EXT"
    BY <1>1, <1>5, Zenon DEF Fields
  <1> HIDE DEF y
  <1>7. SameRoute(x, y)
    BY <1>2, <1>4, <1>6, Zenon DEF SameRoute
  <1>8. x.mode = "GRAND_MASTER"
    BY Zenon DEF Fed, Routed
  <1>9. Routed(y)
    BY <1>6, <1>7, <1>8 DEF Fed, Routed, SameRoute
  <1>10. y.eic => EXT_CHANNEL \in y.taggers
    <2>1. y.eic => x.helper.ref_src = EXT_CHANNEL
      BY <1>7, <1>8 DEF Fed, Routed, SameRoute
    <2>2. x.helper.ref_src \in y.taggers
      BY <1>2, <1>4, <1>6, Zenon
    <2>3. QED BY SMTT(30), <2>1, <2>2
  <1>11. Wants(y) = {EXT_CHANNEL}
    BY <1>6, WantsAre
  <1>12. Fed(y)
    BY <1>9, <1>10, <1>11 DEF Fed
  <1>13. QED BY <1>7, <1>12 DEF y

\* SEQ_START_HELPER enables the reference.
LEMMA StartHelperFed ==
  ASSUME NEW x, Good(x), Fed(x), x.seq_state = "START_HELPER"
  PROVE  Fed(seq_start_helper(x)) /\ SameRoute(x, seq_start_helper(x))
  <1> DEFINE b == helper_start(x)
             y == seq_start_helper(x)
  <1>1. y = [b EXCEPT !.seq_state = "WAIT_HELPER"]
    BY Zenon DEF seq_start_helper
  <1>2. DOMAIN b = Fields /\ SameRoute(x, b) /\ b.taggers = x.taggers \cup {x.helper.ref_src}
    BY HelperStart, HelperStartRoute DEF Good
  <1> HIDE DEF b
  <1>3. /\ y.helper = b.helper /\ y.mpll = b.mpll /\ y.mode = b.mode
        /\ y.eic = b.eic /\ y.taggers = b.taggers /\ y.seq_state = "WAIT_HELPER"
    BY <1>1, <1>2, Zenon DEF Fields
  <1> HIDE DEF y
  <1>4. SameRoute(x, y)
    BY <1>2, <1>3, Zenon DEF SameRoute
  <1>5. x.mode # "GRAND_MASTER"
    BY DEF Good, ModeOf
  <1>6. Routed(y)
    BY SMTT(30), <1>3, <1>4, <1>5 DEF Fed, Routed, SameRoute
  <1>7. Wants(x) = {MAIN_CHANNEL} /\ Wants(y) = {x.helper.ref_src, MAIN_CHANNEL}
    BY SMTT(30), <1>3, <1>4, WantsAre DEF SameRoute
  <1>8. Fed(y)
    BY SMTT(30), <1>2, <1>3, <1>4, <1>6, <1>7 DEF Fed, SameRoute
  <1>9. QED BY <1>4, <1>8 DEF y

\* From a state that wants the helper's channel to another one, or to a state
\* that wants less.
LEMMA KeepsFed ==
  ASSUME NEW x, NEW y, Good(x), Fed(x), SameRoute(x, y), x.taggers \subseteq y.taggers,
         x.seq_state \in {"WAIT_HELPER", "START_MAIN", "WAIT_MAIN", "READY"},
         y.seq_state \in {"START_MAIN", "WAIT_MAIN", "CLEAR_DACS"},
         y.seq_state = "CLEAR_DACS" \/ x.seq_state # "READY"
  PROVE  Fed(y)
  <1>1. x.mode # "GRAND_MASTER" \/ y.seq_state = "CLEAR_DACS"
    BY DEF Good, ModeOf
  <1>2. Routed(y)
    BY <1>1 DEF Fed, Routed, SameRoute
  <1>3. Wants(x) = {x.helper.ref_src, MAIN_CHANNEL} /\ Wants(y) \subseteq Wants(x)
    BY WantsAre DEF SameRoute
  <1>4. QED BY <1>2, <1>3 DEF Fed, SameRoute

\* SEQ_WAIT_HELPER leaves the channels alone.
LEMMA WaitHelperFed ==
  ASSUME NEW x, Good(x), Fed(x), x.seq_state = "WAIT_HELPER"
  PROVE  Fed(seq_wait_helper(x)) /\ SameRoute(x, seq_wait_helper(x))
  <1> DEFINE a == [x EXCEPT !.seq_state = "START_MAIN"]
  <1>1. seq_wait_helper(x) \in {x, a, become_ready(x)}
    BY Zenon DEF seq_wait_helper
  <1>2. /\ a.helper = x.helper /\ a.mpll = x.mpll /\ a.mode = x.mode
        /\ a.eic = x.eic /\ a.taggers = x.taggers /\ a.seq_state = "START_MAIN"
    BY Zenon DEF Good, Shape, Fields
  <1> HIDE DEF a
  <1>3. SameRoute(x, a) /\ SameRoute(x, x)
    BY <1>2, Zenon DEF SameRoute
  <1>4. Fed(a)
    BY <1>2, <1>3, KeepsFed
  <1>5. QED BY <1>1, <1>3, <1>4, ReadyFed

\* SEQ_START_MAIN routes the main PLL to the helper's reference.
LEMMA StartMainFed ==
  ASSUME NEW x, Good(x), Fed(x), x.seq_state = "START_MAIN"
  PROVE  Fed(seq_start_main(x)) /\ SameRoute(x, seq_start_main(x))
  <1> DEFINE n == mpll_start(x.mpll)
             t == x.taggers \cup {x.mpll.id_ref, x.mpll.id_out}
             a == [x EXCEPT !.mpll = n, !.taggers = t]
             y == seq_start_main(x)
  <1>1. y = [a EXCEPT !.seq_state = "WAIT_MAIN"]
    BY Zenon DEF seq_start_main, start_main
  <1>2. /\ DOMAIN x = Fields /\ MainShape(x.mpll)
        /\ x.mpll.freq_ld.lock_samples = FreqLock /\ x.mpll.freq_ld.delock_samples = FreqDelock
    BY DEF Good, Shape
  <1>3. n.id_ref = x.mpll.id_ref
    BY <1>2, MpllStart
  <1>4. x.taggers \subseteq t
    OBVIOUS
  <1> HIDE DEF n, t
  <1>5. /\ DOMAIN a = Fields /\ a.mpll = n /\ a.helper = x.helper /\ a.mode = x.mode
        /\ a.eic = x.eic /\ a.taggers = t
    BY <1>2, Zenon DEF Fields
  <1> HIDE DEF a
  <1>6. /\ y.mpll = n /\ y.helper = x.helper /\ y.mode = x.mode
        /\ y.eic = x.eic /\ y.taggers = t /\ y.seq_state = "WAIT_MAIN"
    BY <1>1, <1>5, Zenon DEF Fields
  <1> HIDE DEF y
  <1>7. SameRoute(x, y)
    BY <1>3, <1>6, Zenon DEF SameRoute
  <1>8. Fed(y)
    BY SMTT(30), <1>4, <1>6, <1>7, KeepsFed
  <1>9. QED BY <1>7, <1>8 DEF y

\* SEQ_READY leaves the channels alone or starts again.
LEMMA SeqReadyFed ==
  ASSUME NEW x, Good(x), Fed(x), x.seq_state = "READY"
  PROVE  Fed(seq_ready(x)) /\ SameRoute(x, seq_ready(x))
  <1> DEFINE o == IF FALSE THEN x.occr \cup ({x.mpll.id_ref} \cap OutLock) ELSE x.occr \ {x.mpll.id_ref}
             a == [x EXCEPT !.occr = o]
             y == [a EXCEPT !.seq_state = "CLEAR_DACS"]
  <1>1. seq_ready(x) = x \/ seq_ready(x) = y
    BY Zenon DEF seq_ready, set_channel_status
  <1> HIDE DEF o
  <1>2. /\ DOMAIN a = Fields /\ a.mpll = x.mpll /\ a.helper = x.helper /\ a.mode = x.mode
        /\ a.eic = x.eic /\ a.taggers = x.taggers
    BY Zenon DEF Good, Shape, Fields
  <1> HIDE DEF a
  <1>3. /\ y.mpll = x.mpll /\ y.helper = x.helper /\ y.mode = x.mode
        /\ y.eic = x.eic /\ y.taggers = x.taggers /\ y.seq_state = "CLEAR_DACS"
    BY <1>2, Zenon DEF Fields
  <1> HIDE DEF y
  <1>4. SameRoute(x, y) /\ SameRoute(x, x)
    BY <1>3, Zenon DEF SameRoute
  <1>5. Fed(y)
    BY SMTT(30), <1>3, <1>4, KeepsFed
  <1>6. QED BY <1>1, <1>4, <1>5

\* The whole switch.
LEMMA SequencerFed ==
  ASSUME NEW x, Good(x), Fed(x), NEW src,
         x.seq_state = "WAIT_EXT" /\ external_locked(x) /\ x.eic => MAIN_CHANNEL \in x.taggers
  PROVE  Fed(sequencing_fsm(x, src)) /\ SameRoute(x, sequencing_fsm(x, src))
  <1> DEFINE y == sequencing_fsm(x, src)
  <1>0. SameRoute(x, x)
    BY DEF SameRoute
  <1>1. CASE x.seq_state = "DISABLED"
    <2>1. y = x
      BY <1>1 DEF sequencing_fsm
    <2>2. QED BY <1>0, <2>1
  <1>2. CASE x.seq_state = "CLEAR_DACS"
    <2>1. y = seq_clear_dacs(x)
      BY <1>2 DEF sequencing_fsm
    <2>2. QED BY <1>2, <2>1, ClearDacsFed
  <1>3. CASE x.seq_state = "WAIT_CLEAR_DACS"
    <2>1. y = seq_wait_clear_dacs(x)
      BY <1>3 DEF sequencing_fsm
    <2>2. QED BY <1>3, <2>1, WaitClearDacsFed
  <1>4. CASE x.seq_state = "START_EXT"
    <2>1. y = seq_start_ext(x)
      BY <1>4 DEF sequencing_fsm
    <2>2. QED BY <1>4, <2>1, StartExtFed
  <1>5. CASE x.seq_state = "WAIT_EXT"
    <2>1. y = seq_wait_ext(x)
      BY <1>5 DEF sequencing_fsm
    <2>2. y = x \/ (external_locked(x) /\ y = become_ready(x))
      BY <1>5, <2>1, FsmWaitExt
    <2>3. QED BY <1>0, <1>5, <2>2, ReadyFed
  <1>6. CASE x.seq_state = "START_HELPER"
    <2>1. y = seq_start_helper(x)
      BY <1>6 DEF sequencing_fsm
    <2>2. QED BY <1>6, <2>1, StartHelperFed
  <1>7. CASE x.seq_state = "WAIT_HELPER"
    <2>1. y = seq_wait_helper(x)
      BY <1>7 DEF sequencing_fsm
    <2>2. QED BY <1>7, <2>1, WaitHelperFed
  <1>8. CASE x.seq_state = "START_MAIN"
    <2>1. y = seq_start_main(x)
      BY <1>8 DEF sequencing_fsm
    <2>2. QED BY <1>8, <2>1, StartMainFed
  <1>9. CASE x.seq_state = "WAIT_MAIN"
    <2>1. y = seq_wait_main(x)
      BY <1>9 DEF sequencing_fsm
    <2>2. y = x \/ y = become_ready(x)
      BY <2>1 DEF seq_wait_main
    <2>3. QED BY <1>0, <1>9, <2>2, ReadyFed
  <1>10. CASE x.seq_state = "READY"
    <2>1. y = seq_ready(x)
      BY <1>10 DEF sequencing_fsm
    <2>2. QED BY <1>10, <2>1, SeqReadyFed
  <1>11. x.seq_state \in SeqStates
    BY DEF Good, ModeOf
  <1>12. QED
    BY SMTT(30), <1>1, <1>2, <1>3, <1>4, <1>5, <1>6, <1>7, <1>8, <1>9, <1>10, <1>11
       DEF SeqStates
\* spll_init chooses the helper's channel by the mode.
LEMMA InitCommonRoute ==
  ASSUME NEW x, Good(x), NEW mode \in Modes, NEW ref \in SlaveRefs
  PROVE  LET y == init_common(x, mode, ref)
         IN  /\ DOMAIN y = Fields /\ y.mode = mode /\ y.eic = FALSE /\ y.mpll.id_ref = ref
             /\ y.seq_state = IF mode = "DISABLED" THEN "DISABLED" ELSE "CLEAR_DACS"
             /\ y.helper.ref_src = IF mode = "SLAVE" THEN ref ELSE MAIN_CHANNEL
             /\ DOMAIN y.helper = {"ref_src", "fresh", "ld"} /\ MainShape(y.mpll)
  <1> DEFINE q == IF mode = "DISABLED" THEN "DISABLED" ELSE "CLEAR_DACS"
             h == IF mode = "SLAVE" THEN ref ELSE MAIN_CHANNEL
             n == mpll_init(x.mpll, ref, MAIN_CHANNEL)
             u == [i \in AuxIds |-> [seq_state |-> "DISABLED",
                                     dmtd |-> mpll_init(x.aux[i].dmtd, ref, MAIN_CHANNEL + i)]]
             a == [x EXCEPT !.cpu_irq = FALSE, !.eic = FALSE, !.mode = mode,
                            !.taggers = {}, !.occr = {}, !.dacs_clear = FALSE,
                            !.dac_timeout = FALSE, !.seq_state = q]
             b == [a EXCEPT !.helper = [a.helper EXCEPT !.ref_src = h]]
             y == init_common(x, mode, ref)
  <1>1. DOMAIN x = Fields /\ MainShape(x.mpll) /\ DOMAIN x.helper = {"ref_src", "fresh", "ld"}
    BY DEF Good, Shape
  <1>2. y = [b EXCEPT !.mpll = n, !.aux = u]
    BY Zenon DEF init_common
  <1>3. MainShape(n) /\ n.id_ref = ref
    BY <1>1, MpllInit
  <1> HIDE DEF q, h, u, n
  <1>4. /\ DOMAIN a = Fields /\ a.helper = x.helper /\ a.mode = mode /\ a.eic = FALSE
        /\ a.seq_state = q
    BY <1>1, Zenon DEF Fields
  <1> HIDE DEF a
  <1>5. /\ DOMAIN [a.helper EXCEPT !.ref_src = h] = {"ref_src", "fresh", "ld"}
        /\ [a.helper EXCEPT !.ref_src = h].ref_src = h
    BY <1>1, <1>4, Zenon
  <1>6. /\ DOMAIN b = Fields /\ b.mode = mode /\ b.eic = FALSE /\ b.seq_state = q
        /\ DOMAIN b.helper = {"ref_src", "fresh", "ld"} /\ b.helper.ref_src = h
    BY <1>4, <1>5, Zenon DEF Fields
  <1> HIDE DEF b
  <1>7. /\ DOMAIN y = Fields /\ y.mode = mode /\ y.eic = FALSE /\ y.seq_state = q
        /\ y.helper = b.helper /\ y.mpll = n
    BY <1>2, <1>6, Zenon DEF Fields
  <1> HIDE DEF y
  <1>8. QED BY <1>3, <1>6, <1>7, Zenon DEF y, q, h

\* The end of spll_init, in a mode that starts the sequencer.
LEMMA InitDoneFed ==
  ASSUME NEW x, DOMAIN x = Fields, x.seq_state \in {"CLEAR_DACS"},
         x.mode = "GRAND_MASTER" => x.helper.ref_src = EXT_CHANNEL, Routed(x)
  PROVE  Fed(init_done(x))
  <1> DEFINE t == IF TRUE THEN x.taggers \cup {MAIN_CHANNEL} ELSE x.taggers \ {MAIN_CHANNEL}
             a == [x EXCEPT !.taggers = t]
             y == init_done(x)
  <1>1. y = [a EXCEPT !.eic = TRUE, !.cpu_irq = TRUE]
    BY Zenon DEF init_done, spll_enable_tagger
  <1>2. MAIN_CHANNEL \in t
    OBVIOUS
  <1> HIDE DEF t
  <1>3. /\ DOMAIN a = Fields /\ a.mode = x.mode /\ a.seq_state = x.seq_state
        /\ a.helper = x.helper /\ a.mpll = x.mpll /\ a.taggers = t
    BY Zenon DEF Fields
  <1> HIDE DEF a
  <1>4. /\ y.mode = x.mode /\ y.seq_state = x.seq_state
        /\ y.helper = x.helper /\ y.mpll = x.mpll /\ y.taggers = t
    BY <1>1, <1>3, Zenon DEF Fields
  <1> HIDE DEF y
  <1>5. Routed(y)
    BY <1>4 DEF Routed
  <1>6. Wants(y) = {MAIN_CHANNEL}
    BY <1>4, WantsAre
  <1>7. QED BY <1>2, <1>4, <1>5, <1>6 DEF Fed, y

\* spll_init leaves a state that is fed, whatever the state before it was.
LEMMA SpllInitFed ==
  ASSUME NEW x, Good(x), NEW mode \in Modes, NEW ref \in SlaveRefs
  PROVE  Fed(spll_init(x, mode, ref))
  <1> DEFINE y == init_common(x, mode, ref)
             z == external_init(y)
  <1>1. /\ DOMAIN y = Fields /\ y.mode = mode /\ y.eic = FALSE /\ y.mpll.id_ref = ref
        /\ y.seq_state = IF mode = "DISABLED" THEN "DISABLED" ELSE "CLEAR_DACS"
        /\ y.helper.ref_src = IF mode = "SLAVE" THEN ref ELSE MAIN_CHANNEL
        /\ DOMAIN y.helper = {"ref_src", "fresh", "ld"} /\ MainShape(y.mpll)
    BY InitCommonRoute, Zenon
  <1>2. ref \in Refs
    BY SoftPllAssumption DEF Refs
  <1> HIDE DEF y
  <1>3. Routed(y)
    BY <1>1, <1>2 DEF Routed
  <1>4. Fed(y)
    BY <1>1, <1>3 DEF Fed
  <1>5. ASSUME mode = "GRAND_MASTER"
        PROVE  Fed(init_done(z))
    <2> DEFINE n == mpll_init(y.mpll, EXT_CHANNEL, MAIN_CHANNEL)
               b == [y EXCEPT !.helper = [y.helper EXCEPT !.ref_src = EXT_CHANNEL]]
    <2>1. z = [b EXCEPT !.mpll = n, !.align_state = "EXT_OFF"]
      BY Zenon DEF external_init
    <2> HIDE DEF n
    <2>2. [y.helper EXCEPT !.ref_src = EXT_CHANNEL].ref_src = EXT_CHANNEL
      BY <1>1, Zenon
    <2>3. /\ DOMAIN b = Fields /\ b.mode = y.mode /\ b.seq_state = y.seq_state
          /\ b.helper.ref_src = EXT_CHANNEL
      BY <1>1, <2>2, Zenon DEF Fields
    <2> HIDE DEF b
    <2>4. /\ DOMAIN z = Fields /\ z.mode = y.mode /\ z.seq_state = y.seq_state
          /\ z.helper = b.helper
      BY <2>1, <2>3, Zenon DEF Fields
    <2> HIDE DEF z
    <2>5. Routed(z)
      BY SMTT(30), <1>1, <1>5, <2>3, <2>4 DEF Routed
    <2>6. z.seq_state \in {"CLEAR_DACS"} /\ z.helper.ref_src = EXT_CHANNEL
      BY <1>1, <1>5, <2>3, <2>4
    <2>7. QED BY <2>4, <2>5, <2>6, InitDoneFed
  <1>6. ASSUME mode \notin {"DISABLED", "GRAND_MASTER"}
        PROVE  Fed(init_done(y))
    <2>1. y.seq_state \in {"CLEAR_DACS"} /\ y.mode # "GRAND_MASTER"
      BY <1>1, <1>6
    <2>2. QED BY <1>1, <1>3, <2>1, InitDoneFed
  <1>7. \/ spll_init(x, mode, ref) = y
        \/ mode = "GRAND_MASTER" /\ spll_init(x, mode, ref) = init_done(z)
        \/ mode \notin {"DISABLED", "GRAND_MASTER"} /\ spll_init(x, mode, ref) = init_done(y)
    BY DEF spll_init, y, z
  <1> HIDE DEF z
  <1>8. QED BY <1>4, <1>5, <1>6, <1>7
(***************************************************************************)
(* The calls that read, modify and write a tagger register.                *)
(***************************************************************************)
CallSteps == [op : {"load_cer", "store_cer", "mask"}, ch : Tracked \cup {MAIN_CHANNEL},
              on : BOOLEAN]

\* What is left of a call: it never disables the main PLL's reference, and each
\* store follows the load of the same register, which is current unless the
\* interrupt came in between.
Pending ==
  /\ task \in Seq(CallSteps)
  /\ \A i \in 1..Len(task) : ~task[i].on => task[i].ch \in Tracked \ {s.mpll.id_ref}
  /\ \A i \in 1..Len(task)-1 :
       IF task[i].op = "load_cer" THEN task[i+1].ch = task[i].ch
       ELSE task[i+1].op # "store_cer"
  /\ task # <<>> /\ task[1].op = "store_cer" /\ ~Preemptible =>
       s.taggers \cap Register(task[1].ch) \subseteq reg

FeedInv == IInv /\ Fed(s) /\ Pending

\* The interrupt cannot undo a tagger: it comes between calls, or there is one
\* reference and no external one.
Undisturbed == ~Preemptible \/ (NRef = 1 /\ "GRAND_MASTER" \notin Modes)

\* The channels that can be wanted.
LEMMA WantsBound ==
  ASSUME NEW x, Good(x), Routed(x)
  PROVE  /\ Wants(x) \subseteq {x.mpll.id_ref, MAIN_CHANNEL, EXT_CHANNEL}
         /\ x.mode # "GRAND_MASTER" => Wants(x) \subseteq {x.mpll.id_ref, MAIN_CHANNEL}
  <1>1. CASE x.seq_state \in {"WAIT_HELPER", "START_MAIN", "WAIT_MAIN", "READY"}
    <2>1. /\ x.helper.ref_src \in {x.mpll.id_ref, MAIN_CHANNEL, EXT_CHANNEL}
          /\ x.mode # "GRAND_MASTER" => x.helper.ref_src \in {x.mpll.id_ref, MAIN_CHANNEL}
      BY <1>1 DEF Good, ModeOf, Routed
    <2>2. QED BY SMTT(30), <1>1, <2>1, WantsAre
  <1>2. CASE x.seq_state = "WAIT_EXT"
    <2>1. x.mode = "GRAND_MASTER"
      BY <1>2 DEF Routed
    <2>2. QED BY SMTT(30), <1>2, <2>1, WantsAre
  <1>3. CASE x.seq_state \in {"DISABLED", "CLEAR_DACS", "WAIT_CLEAR_DACS", "START_EXT",
                              "START_HELPER"}
    BY <1>3, WantsAre
  <1>4. QED BY SMTT(30), <1>1, <1>2, <1>3 DEF Good, ModeOf, SeqStates

\* The store keeps every channel that is wanted.
LEMMA StoreKeeps ==
  ASSUME FeedInv, Undisturbed, StoreCer, s.eic, NEW c \in Wants(s)
  PROVE  c \in s'.taggers
  <1> DEFINE e == task[1]
             new == IF e.on THEN reg \cup {e.ch} ELSE reg \ {e.ch}
  <1>1. /\ task # <<>> /\ e.op = "store_cer"
        /\ s' = [s EXCEPT !.taggers = (s.taggers \ Register(e.ch)) \cup new]
    <2>1. Head(task) = task[1]
      BY DEF StoreCer, FeedInv, Pending
    <2>2. QED BY <2>1, Zenon DEF StoreCer
  <1>2. e \in CallSteps /\ (~e.on => e.ch \in Tracked \ {s.mpll.id_ref})
    BY <1>1 DEF FeedInv, Pending
  <1>3. e.ch \in Tracked \cup {MAIN_CHANNEL} /\ e.on \in BOOLEAN
    BY <1>2 DEF CallSteps
  <1>4. DOMAIN s = Fields
    BY DEF FeedInv, IInv, Good, Shape
  <1>5. s'.taggers = (s.taggers \ Register(e.ch)) \cup new
    BY <1>1, <1>4, Zenon DEF Fields
  <1>6. Good(s) /\ Routed(s) /\ c \in s.taggers
    BY DEF FeedInv, IInv, Fed
  <1>7. /\ c \in {s.mpll.id_ref, MAIN_CHANNEL, EXT_CHANNEL}
        /\ s.mode # "GRAND_MASTER" => c \in {s.mpll.id_ref, MAIN_CHANNEL}
    BY <1>6, WantsBound
  <1>8. ~e.on => c # e.ch
    BY SMTT(30), <1>2, <1>7, SoftPllAssumption DEF MAIN_CHANNEL, EXT_CHANNEL
  <1>9. CASE ~Preemptible
    <2>1. s.taggers \cap Register(e.ch) \subseteq reg
      BY <1>1, <1>9 DEF FeedInv, Pending
    <2>2. QED BY <1>5, <1>6, <1>8, <2>1
  <1>10. CASE NRef = 1 /\ "GRAND_MASTER" \notin Modes
    <2>1. s.mode # "GRAND_MASTER" /\ s.mpll.id_ref \in Refs
      BY <1>6, <1>10 DEF Routed
    <2>2. s.mpll.id_ref = 0 /\ Tracked \subseteq {0} /\ MAIN_CHANNEL = 1
      BY <1>10, <2>1, SoftPllAssumption DEF Refs, MAIN_CHANNEL
    <2>3. e.on /\ e.ch \in {0, 1} /\ c \in {0, 1}
      BY Zenon, <1>2, <1>3, <1>7, <2>1, <2>2
    <2>4. c \in Register(e.ch) => c = e.ch
      BY <1>10, <2>3 DEF Register, Refs
    <2>5. QED BY SMTT(30), <1>5, <1>6, <2>3, <2>4
  <1>11. QED BY <1>9, <1>10 DEF Undisturbed

\* One step of a call goes.
LEMMA TailPending ==
  ASSUME Pending, task # <<>>, task' = Tail(task), s'.mpll = s.mpll
  PROVE  /\ task' \in Seq(CallSteps)
         /\ \A i \in 1..Len(task') : ~task'[i].on => task'[i].ch \in Tracked \ {s'.mpll.id_ref}
         /\ \A i \in 1..Len(task')-1 :
              IF task'[i].op = "load_cer" THEN task'[i+1].ch = task'[i].ch
              ELSE task'[i+1].op # "store_cer"
         /\ task' # <<>> => IF task[1].op = "load_cer" THEN task'[1].ch = task[1].ch
                            ELSE task'[1].op # "store_cer"
  <1>1. task \in Seq(CallSteps)
    BY DEF Pending
  <1>2. /\ task' \in Seq(CallSteps) /\ Len(task') = Len(task) - 1 /\ Len(task) \in Nat
        /\ \A i \in 1..Len(task') : task'[i] = task[i+1]
    BY <1>1
  <1>3. ASSUME NEW i \in 1..Len(task'), ~task'[i].on
        PROVE  task'[i].ch \in Tracked \ {s'.mpll.id_ref}
    BY <1>2, <1>3 DEF Pending
  <1>4. ASSUME NEW i \in 1..Len(task')-1
        PROVE  IF task'[i].op = "load_cer" THEN task'[i+1].ch = task'[i].ch
               ELSE task'[i+1].op # "store_cer"
    <2>1. task'[i] = task[i+1] /\ task'[i+1] = task[i+2] /\ i+1 \in 1..Len(task)-1
      BY <1>2
    <2>2. (i+1)+1 = i+2
      OBVIOUS
    <2>3. QED BY <2>1, <2>2 DEF Pending
  <1>5. ASSUME task' # <<>>
        PROVE  IF task[1].op = "load_cer" THEN task'[1].ch = task[1].ch
               ELSE task'[1].op # "store_cer"
    <2>1. 1 \in 1..Len(task)-1 /\ task'[1] = task[1+1]
      BY <1>2, <1>5
    <2>2. QED BY <2>1 DEF Pending
  <1>6. QED BY SMTT(30), <1>2, <1>3, <1>4, <1>5

\* A call begins with a load.
LEMMA CallPending ==
  ASSUME NEW ch \in Tracked, s'.mpll = s.mpll, NEW n \in Seq(CallSteps),
         task' = n, \/ n = <<>>
                    \/ n = TaggerSteps(ch, FALSE) /\ ch # s.mpll.id_ref
                    \/ n = TaggerSteps(ch, TRUE) \o TaggerSteps(MAIN_CHANNEL, TRUE)
                             \o <<[op |-> "mask", ch |-> ch, on |-> TRUE]>>
  PROVE  Pending'
  <1> DEFINE a == [op |-> "load_cer", ch |-> ch, on |-> TRUE]
             b == [op |-> "store_cer", ch |-> ch, on |-> TRUE]
             c == [op |-> "load_cer", ch |-> MAIN_CHANNEL, on |-> TRUE]
             d == [op |-> "store_cer", ch |-> MAIN_CHANNEL, on |-> TRUE]
             e == [op |-> "mask", ch |-> ch, on |-> TRUE]
  <1>1. CASE n = <<>>
    BY SMTT(30), <1>1 DEF Pending
  <1>2. CASE n = TaggerSteps(ch, FALSE) /\ ch # s.mpll.id_ref
    <2> DEFINE f == [op |-> "load_cer", ch |-> ch, on |-> FALSE]
               g == [op |-> "store_cer", ch |-> ch, on |-> FALSE]
    <2>1. f.ch = ch /\ g.ch = ch /\ f.op = "load_cer"
      OBVIOUS
    <2>2. n = <<f, g>>
      BY <1>2 DEF TaggerSteps
    <2> HIDE DEF f, g
    <2>3. Len(n) = 2 /\ n[1] = f /\ n[2] = g
      BY <2>2
    <2>4. ASSUME NEW i \in 1..Len(n)
          PROVE  n[i].ch \in Tracked \ {s.mpll.id_ref}
      <3>1. i \in {1, 2}
        BY <2>3
      <3>2. QED BY Zenon, <1>2, <2>1, <2>3, <3>1
    <2>5. ASSUME NEW i \in 1..Len(n)-1
          PROVE  n[i].op = "load_cer" /\ n[i+1].ch = n[i].ch
      <3>1. i = 1 /\ 1+1 = 2
        BY SMTT(30), <2>3
      <3>2. QED BY SMTT(30), <2>1, <2>3, <3>1
    <2>6. QED BY SMTT(30), <2>1, <2>3, <2>4, <2>5 DEF Pending
  <1>3. CASE n = TaggerSteps(ch, TRUE) \o TaggerSteps(MAIN_CHANNEL, TRUE) \o <<e>>
    <2>1. /\ a.on /\ b.on /\ c.on /\ d.on /\ e.on
          /\ a.op = "load_cer" /\ b.op = "store_cer" /\ c.op = "load_cer" /\ d.op = "store_cer"
          /\ e.op = "mask" /\ a.ch = b.ch /\ c.ch = d.ch
      OBVIOUS
    <2>2. n = <<a, b>> \o <<c, d>> \o <<e>>
      BY <1>3 DEF TaggerSteps
    <2>a. a \in CallSteps /\ b \in CallSteps /\ c \in CallSteps /\ d \in CallSteps
          /\ e \in CallSteps
      BY SMTT(30) DEF CallSteps
    <2> HIDE DEF a, b, c, d, e
    <2> DEFINE p == <<a, b>>
               q == <<c, d>>
               r == <<e>>
    <2>b. /\ p \in Seq(CallSteps) /\ Len(p) = 2 /\ p[1] = a /\ p[2] = b
          /\ q \in Seq(CallSteps) /\ Len(q) = 2 /\ q[1] = c /\ q[2] = d
          /\ r \in Seq(CallSteps) /\ Len(r) = 1 /\ r[1] = e
      BY <2>a
    <2> HIDE DEF p, q, r
    <2> DEFINE pq == p \o q
    <2>d. /\ pq \in Seq(CallSteps) /\ Len(pq) = Len(p) + Len(q)
          /\ \A i \in 1..Len(p) + Len(q) : pq[i] = IF i <= Len(p) THEN p[i] ELSE q[i - Len(p)]
      BY <2>b, ConcatProperties, Zenon
    <2> HIDE DEF pq
    <2>3. Len(pq) = 4 /\ pq[1] = a /\ pq[2] = b /\ pq[3] = c /\ pq[4] = d
      BY SMTT(30), <2>b, <2>d
    <2>c. n = pq \o r
      BY <2>2 DEF p, q, r, pq
    <2>e. /\ Len(n) = Len(pq) + Len(r)
          /\ \A i \in 1..Len(pq) + Len(r) : n[i] = IF i <= Len(pq) THEN pq[i] ELSE r[i - Len(pq)]
      <3>0. pq \in Seq(CallSteps) /\ r \in Seq(CallSteps)
        BY <2>b, <2>d, Zenon
      <3>1. /\ (pq \o r) \in Seq(CallSteps) /\ Len(pq \o r) = Len(pq) + Len(r)
            /\ \A i \in 1..Len(pq) + Len(r) :
                 (pq \o r)[i] = IF i <= Len(pq) THEN pq[i] ELSE r[i - Len(pq)]
        BY <3>0, ConcatProperties, Zenon
      <3>2. QED BY <2>c, <3>1, Zenon
    <2>4. /\ Len(n) = 5 /\ n[1] = a /\ n[2] = b /\ n[3] = c /\ n[4] = d /\ n[5] = e
      BY SMTT(30), <2>b, <2>3, <2>e
    <2>5. \A i \in 1..Len(n) : n[i].on
      <3> SUFFICES ASSUME NEW i \in 1..Len(n) PROVE n[i].on
        OBVIOUS
      <3>1. i \in {1, 2, 3, 4, 5}
        BY SMTT(30), <2>4
      <3>2. QED BY <2>1, <2>4, <3>1
    <2>6. ASSUME NEW i \in 1..Len(n)-1
          PROVE  IF n[i].op = "load_cer" THEN n[i+1].ch = n[i].ch ELSE n[i+1].op # "store_cer"
      <3>1. i \in {1, 2, 3, 4}
        BY <2>4
      <3>2. 1+1 = 2 /\ 2+1 = 3 /\ 3+1 = 4 /\ 4+1 = 5
        OBVIOUS
      <3>3. QED BY SMTT(30), <2>1, <2>4, <3>1, <3>2
    <2>7. QED BY SMTT(30), <2>1, <2>4, <2>5, <2>6 DEF Pending
  <1>4. QED BY Zenon, <1>1, <1>2, <1>3
\* A call under way that nothing touches.
LEMMA PendingFrame ==
  ASSUME Pending, task' = task, s'.mpll.id_ref = s.mpll.id_ref,
         Preemptible \/ task = <<>> \/ (s'.taggers = s.taggers /\ reg' = reg)
  PROVE  Pending'
  BY DEF Pending

\* After spll_very_init nothing is wanted.
LEMMA FeedInit == Init => FeedInv
  <1> SUFFICES ASSUME Init PROVE FeedInv
    OBVIOUS
  <1>1. IInv
    BY InitIInv
  <1>2. s.mode = "DISABLED" /\ s.seq_state = "DISABLED" /\ s.eic = FALSE /\ s.mpll.id_ref = 0
    BY Zenon DEF Init, spll_very_init, main_zero
  <1>3. Fed(s)
    BY <1>2, SoftPllAssumption DEF Fed, Routed, Refs
  <1>4. Pending
    BY DEF Init, Pending
  <1>5. QED BY <1>1, <1>3, <1>4 DEF FeedInv

\* An interrupt: the sequencer moves on, with the taggers it wants enabled.
LEMMA IrqFeed ==
  ASSUME FeedInv, NEW ch, NEW ok \in Errors, Irq(ch, ok)
  PROVE  Fed(s') /\ Pending'
  <1> DEFINE y == sequencing_fsm(s, ch)
             z == update_loops(y, ch, ok)
  <1>1. Good(s) /\ Fed(s) /\ Pending
    BY SMTT(30) DEF FeedInv, IInv
  <1>2. Between(y) /\ Fed(y) /\ SameRoute(s, y)
    <2>1. ~external_locked(s)
      BY DEF FeedInv, IInv, external_locked
    <2>2. QED BY SMTT(30), <1>1, <2>1, Sequencer, SequencerFed
  <1>3. s' = z /\ task' = task /\ reg' = reg /\ (Preemptible \/ task = <<>>)
    BY DEF Irq
  <1> HIDE DEF y
  <1>4. SameRoute(y, z) /\ z.taggers = y.taggers /\ z.seq_state = y.seq_state
    BY <1>2, LoopsRoute
  <1> HIDE DEF z
  <1>5. Fed(z)
    BY SMTT(30), <1>2, <1>4, FedFrame
  <1>6. s'.mpll.id_ref = s.mpll.id_ref
    BY SMTT(30), <1>2, <1>3, <1>4 DEF SameRoute
  <1>7. Pending'
    BY SMTT(30), <1>1, <1>3, <1>6, PendingFrame
  <1>8. QED BY <1>3, <1>5, <1>7

\* The steps of a call.
LEMMA CallFeed ==
  ASSUME FeedInv, Undisturbed, TaskStep
  PROVE  Fed(s') /\ Pending'
  <1>0. /\ DOMAIN s = Fields /\ Fed(s) /\ Pending /\ task \in Seq(CallSteps)
    BY SMTT(30) DEF FeedInv, IInv, Good, Shape, Pending
  <1>1. CASE LoadCer
    <2>1. /\ s' = s /\ task' = Tail(task) /\ task # <<>> /\ Head(task) = task[1]
          /\ task[1].op = "load_cer" /\ reg' = s.taggers \cap Register(task[1].ch)
      BY SMTT(30), <1>0, <1>1 DEF LoadCer
    <2>2. /\ task' # <<>> => task'[1].ch = task[1].ch
      BY SMTT(30), <1>0, <2>1, TailPending
    <2>3. Pending'
      BY SMTT(30), <1>0, <2>1, <2>2, TailPending DEF Pending
    <2>4. QED BY SMTT(30), <1>0, <2>1, <2>3
  <1>2. CASE StoreCer
    <2>1. PICK t : s' = [s EXCEPT !.taggers = t]
      BY <1>2, Zenon DEF StoreCer
    <2>2. /\ SameRoute(s, s') /\ s'.seq_state = s.seq_state /\ s'.mpll = s.mpll
      BY <1>0, <2>1, Zenon DEF Fields, SameRoute
    <2>3. s.eic => Wants(s) \subseteq s'.taggers
      BY <1>2, StoreKeeps
    <2>4. Wants(s') = Wants(s)
      BY <2>2, Zenon DEF Wants, SameRoute
    <2>5. Routed(s')
      BY <1>0, <2>2, Zenon DEF Fed, Routed, SameRoute
    <2>6. Fed(s')
      BY SMTT(30), <2>2, <2>3, <2>4, <2>5 DEF Fed, SameRoute
    <2>7. task # <<>> /\ task' = Tail(task) /\ task[1].op = "store_cer"
      BY SMTT(30), <1>0, <1>2 DEF StoreCer
    <2>8. task' # <<>> => task'[1].op # "store_cer"
      BY SMTT(30), <1>0, <2>2, <2>7, TailPending
    <2>9. Pending'
      BY SMTT(30), <1>0, <2>2, <2>7, <2>8, TailPending DEF Pending
    <2>10. QED BY <2>6, <2>9
  <1>3. CASE SetMask
    <2>1. PICK t : s' = [s EXCEPT !.ptracker_mask = t]
      BY <1>3, Zenon DEF SetMask
    <2>2. /\ SameRoute(s, s') /\ s'.seq_state = s.seq_state /\ s'.mpll = s.mpll
          /\ s'.taggers = s.taggers
      BY <1>0, <2>1, Zenon DEF Fields, SameRoute
    <2>3. Fed(s')
      BY <1>0, <2>2, FedFrame
    <2>4. task # <<>> /\ task' = Tail(task) /\ task[1].op = "mask"
      BY SMTT(30), <1>0, <1>3 DEF SetMask
    <2>5. task' # <<>> => task'[1].op # "store_cer"
      BY SMTT(30), <1>0, <2>2, <2>4, TailPending
    <2>6. Pending'
      BY SMTT(30), <1>0, <2>2, <2>4, <2>5, TailPending DEF Pending
    <2>7. QED BY <2>3, <2>6
  <1>4. QED BY SMTT(30), <1>1, <1>2, <1>3 DEF TaskStep

\* The start of a call.
LEMMA BeginFeed ==
  ASSUME FeedInv, NEW ch \in Tracked, EnablePtracker(ch) \/ DisablePtracker(ch)
  PROVE  Fed(s') /\ Pending'
  <1>0. DOMAIN s = Fields /\ Fed(s)
    BY DEF FeedInv, IInv, Good, Shape
  <1>1. /\ SameRoute(s, s') /\ s'.seq_state = s.seq_state /\ s'.mpll = s.mpll
        /\ s'.taggers = s.taggers
    <2>1. CASE EnablePtracker(ch)
      BY <2>1, Zenon DEF EnablePtracker, SameRoute
    <2>2. CASE DisablePtracker(ch)
      <3>1. PICK t : s' = [s EXCEPT !.ptracker_mask = t]
        BY <2>2, Zenon DEF DisablePtracker
      <3>2. QED BY <1>0, <3>1, Zenon DEF Fields, SameRoute
    <2>3. QED BY <2>1, <2>2
  <1>2. Fed(s')
    BY <1>0, <1>1, FedFrame
  <1> DEFINE p == TaggerSteps(ch, FALSE)
             q == TaggerSteps(ch, TRUE) \o TaggerSteps(MAIN_CHANNEL, TRUE)
                    \o <<[op |-> "mask", ch |-> ch, on |-> TRUE]>>
  <1>3. \/ task' = <<>>
        \/ task' = p /\ ch # s.mpll.id_ref
        \/ task' = q
    BY Zenon DEF EnablePtracker, DisablePtracker
  <1>4. <<>> \in Seq(CallSteps) /\ p \in Seq(CallSteps)
    <2>1. /\ [op |-> "load_cer", ch |-> ch, on |-> FALSE] \in CallSteps
          /\ [op |-> "store_cer", ch |-> ch, on |-> FALSE] \in CallSteps
      BY DEF CallSteps
    <2>2. QED BY <2>1 DEF TaggerSteps
  <1>5. q \in Seq(CallSteps)
    <2>1. /\ TaggerSteps(ch, TRUE) \in Seq(CallSteps)
          /\ TaggerSteps(MAIN_CHANNEL, TRUE) \in Seq(CallSteps)
          /\ <<[op |-> "mask", ch |-> ch, on |-> TRUE]>> \in Seq(CallSteps)
      BY DEF TaggerSteps, CallSteps
    <2> DEFINE u == TaggerSteps(ch, TRUE)
               v == TaggerSteps(MAIN_CHANNEL, TRUE)
               w == <<[op |-> "mask", ch |-> ch, on |-> TRUE]>>
    <2>2. u \in Seq(CallSteps) /\ v \in Seq(CallSteps) /\ w \in Seq(CallSteps)
      BY Zenon, <2>1
    <2> HIDE DEF u, v, w
    <2>3. (u \o v) \o w \in Seq(CallSteps)
      BY <2>2
    <2>4. QED BY Zenon, <2>3 DEF u, v, w
  <1>6. Pending'
    BY Zenon, <1>1, <1>3, <1>4, <1>5, CallPending
  <1>7. QED BY SMTT(30), <1>2, <1>6

\* Every step, when the interrupt cannot undo what a call loaded.
LEMMA FeedStep ==
  ASSUME FeedInv, Undisturbed, [Next]_vars
  PROVE  FeedInv'
  <1>0. /\ DOMAIN s = Fields /\ Fed(s) /\ Pending /\ Good(s)
    BY DEF FeedInv, IInv, Good, Shape
  <1>1. IInv'
    BY StepIInv DEF FeedInv
  <1>2. Fed(s') /\ Pending'
    <2>1. ASSUME NEW ch \in Channels, NEW ok \in Errors, Irq(ch, ok)
          PROVE  Fed(s') /\ Pending'
      BY SMTT(30), <2>1, IrqFeed
    <2>2. ASSUME NEW mode \in Modes, NEW ref \in SlaveRefs, SpllInit(mode, ref)
          PROVE  Fed(s') /\ Pending'
      <3>1. s' = spll_init(s, mode, ref) /\ task' = <<>>
        BY <2>2 DEF SpllInit
      <3>2. QED BY <1>0, <3>1, SpllInitFed DEF Pending
    <2>3. ASSUME NEW ch \in Tracked, EnablePtracker(ch) \/ DisablePtracker(ch)
          PROVE  Fed(s') /\ Pending'
      BY <2>3, BeginFeed
    <2>4. CASE TaskStep
      BY <2>4, CallFeed
    <2>5. CASE SpllShutdown
      <3>1. s' = [s EXCEPT !.cpu_irq = FALSE, !.eic = FALSE, !.taggers = {}]
            /\ task' = <<>>
        BY <2>5 DEF SpllShutdown, spll_shutdown
      <3>2. /\ s'.mode = s.mode /\ s'.seq_state = s.seq_state /\ s'.helper = s.helper
            /\ s'.mpll = s.mpll /\ s'.eic = FALSE
        BY <1>0, <3>1, ZenonT(60) DEF Fields
      <3>3. Fed(s')
        BY SMTT(30), <1>0, <3>2 DEF Fed, Routed
      <3>4. QED BY <3>1, <3>3 DEF Pending
    <2>6. CASE Elapse \/ SetUnderIrqLock
      <3>1. /\ SameRoute(s, s') /\ s'.seq_state = s.seq_state /\ s'.mpll = s.mpll
            /\ s'.taggers = s.taggers /\ task' = task /\ reg' = reg
        BY <1>0, <2>6, Zenon DEF Elapse, SetUnderIrqLock, Fields, SameRoute
      <3>2. QED BY SMTT(30), <1>0, <3>1, FedFrame, PendingFrame
    <2>7. CASE (\E ch \in Channels : HwTag(ch)) \/ Settle \/ UNCHANGED vars
      <3>1. s' = s /\ task' = task /\ reg' = reg
        BY <2>7 DEF HwTag, Settle, vars
      <3>2. QED BY SMTT(30), <1>0, <3>1, PendingFrame
    <2>8. QED
      BY SMTT(30), <2>1, <2>2, <2>3, <2>4, <2>5, <2>6, <2>7 DEF Next
  <1>3. QED BY SMTT(30), <1>1, <1>2 DEF FeedInv

(***************************************************************************)
(* The channels that the loops work on stay enabled, in a node with one    *)
(* reference and without an external one, wherever the interrupt comes in  *)
(* a call of the phase trackers; with more, if it cannot come between the  *)
(* load and the store of spll_enable_tagger.                               *)
(***************************************************************************)
THEOREM TaggersTheorem ==
  ASSUME ~Preemptible \/ (NRef = 1 /\ "GRAND_MASTER" \notin Modes)
  PROVE  Spec => []TaggersFeedLoops
  <1>0. Undisturbed
    BY DEF Undisturbed
  <1>1. FeedInv /\ [Next]_vars => FeedInv'
    BY SMTT(30), <1>0, FeedStep
  <1>2. FeedInv => TaggersFeedLoops
    <2>1. Feeding = Wants(s)
      BY Zenon DEF Feeding, Wants
    <2>2. QED BY <2>1 DEF FeedInv, Fed, TaggersFeedLoops
  <1>3. QED BY FeedInit, <1>1, <1>2, PTL DEF Spec

(***************************************************************************)
(* Lists of writes, of which a pass of spll_update is made: for            *)
(* SoftPllGmProofs and SoftPllAuxProofs.                                   *)
(***************************************************************************)
\* A concatenation is the sequence with the elements of both.
LEMMA Cat ==
  ASSUME NEW S, NEW x \in Seq(S), NEW y \in Seq(S), NEW z \in Seq(S),
         Len(z) = Len(x) + Len(y),
         \A i \in 1..Len(x) : z[i] = x[i],
         \A i \in 1..Len(y) : z[Len(x) + i] = y[i]
  PROVE  x \o y = z
  <1>1. /\ x \o y \in Seq(S) /\ Len(x \o y) = Len(x) + Len(y)
        /\ \A i \in 1..Len(x) + Len(y) :
             (x \o y)[i] = IF i <= Len(x) THEN x[i] ELSE y[i - Len(x)]
    BY ConcatProperties, Zenon
  <1>2. ASSUME NEW i \in 1..Len(z)
        PROVE  (x \o y)[i] = z[i]
    <2>1. CASE i <= Len(x)
      BY <1>1, <2>1
    <2>2. CASE i > Len(x)
      <3>1. i - Len(x) \in 1..Len(y) /\ Len(x) + (i - Len(x)) = i
        BY <2>2
      <3>2. z[i] = y[i - Len(x)]
        BY <3>1
      <3>3. QED BY <1>1, <2>2, <3>2
    <2>3. QED BY <2>1, <2>2
  <1>3. QED BY <1>1, <1>2, SeqEqual

\* Lists of writes put together: one write and one.
LEMMA Cat11 ==
  ASSUME NEW a, NEW b
  PROVE  <<a>> \o <<b>> = <<a, b>>
  <1> DEFINE S == {a, b}
             x == <<a>>
             y == <<b>>
             z == <<a, b>>
  <1>1. x \in Seq(S) /\ y \in Seq(S) /\ z \in Seq(S)
    OBVIOUS
  <1>2. Len(x) = 1 /\ Len(y) = 1 /\ Len(z) = 2
    OBVIOUS
  <1>3. \A i \in 1..1 : z[i] = x[i]
    OBVIOUS
  <1>4. \A i \in 1..1 : z[1 + i] = y[i]
    OBVIOUS
  <1> HIDE DEF S, x, y, z
  <1>5. /\ Len(z) = Len(x) + Len(y)
        /\ \A i \in 1..Len(x) : z[i] = x[i]
        /\ \A i \in 1..Len(y) : z[Len(x) + i] = y[i]
    BY <1>2, <1>3, <1>4
  <1>6. x \o y = z
    BY <1>1, <1>5, Cat, Zenon
  <1>7. QED BY <1>6 DEF x, y, z

\* Lists of writes put together: one and two.
LEMMA Cat12 ==
  ASSUME NEW a, NEW b, NEW c
  PROVE  <<a>> \o <<b, c>> = <<a, b, c>>
  <1> DEFINE S == {a, b, c}
             x == <<a>>
             y == <<b, c>>
             z == <<a, b, c>>
  <1>1. x \in Seq(S) /\ y \in Seq(S) /\ z \in Seq(S)
    OBVIOUS
  <1>2. Len(x) = 1 /\ Len(y) = 2 /\ Len(z) = 3
    OBVIOUS
  <1>3. \A i \in 1..1 : z[i] = x[i]
    OBVIOUS
  <1>4. \A i \in 1..2 : z[1 + i] = y[i]
    OBVIOUS
  <1> HIDE DEF S, x, y, z
  <1>5. /\ Len(z) = Len(x) + Len(y)
        /\ \A i \in 1..Len(x) : z[i] = x[i]
        /\ \A i \in 1..Len(y) : z[Len(x) + i] = y[i]
    BY <1>2, <1>3, <1>4
  <1>6. x \o y = z
    BY <1>1, <1>5, Cat, Zenon
  <1>7. QED BY <1>6 DEF x, y, z

\* Lists of writes put together: two and one.
LEMMA Cat21 ==
  ASSUME NEW a, NEW b, NEW c
  PROVE  <<a, b>> \o <<c>> = <<a, b, c>>
  <1> DEFINE S == {a, b, c}
             x == <<a, b>>
             y == <<c>>
             z == <<a, b, c>>
  <1>1. x \in Seq(S) /\ y \in Seq(S) /\ z \in Seq(S)
    OBVIOUS
  <1>2. Len(x) = 2 /\ Len(y) = 1 /\ Len(z) = 3
    OBVIOUS
  <1>3. \A i \in 1..2 : z[i] = x[i]
    OBVIOUS
  <1>4. \A i \in 1..1 : z[2 + i] = y[i]
    OBVIOUS
  <1> HIDE DEF S, x, y, z
  <1>5. /\ Len(z) = Len(x) + Len(y)
        /\ \A i \in 1..Len(x) : z[i] = x[i]
        /\ \A i \in 1..Len(y) : z[Len(x) + i] = y[i]
    BY <1>2, <1>3, <1>4
  <1>6. x \o y = z
    BY <1>1, <1>5, Cat, Zenon
  <1>7. QED BY <1>6 DEF x, y, z

\* Lists of writes put together: three and two.
LEMMA Cat32 ==
  ASSUME NEW a, NEW b, NEW c, NEW d, NEW e
  PROVE  <<a, b, c>> \o <<d, e>> = <<a, b, c, d, e>>
  <1> DEFINE S == {a, b, c, d, e}
             x == <<a, b, c>>
             y == <<d, e>>
             z == <<a, b, c, d, e>>
  <1>1. x \in Seq(S) /\ y \in Seq(S) /\ z \in Seq(S)
    OBVIOUS
  <1>2. Len(x) = 3 /\ Len(y) = 2 /\ Len(z) = 5
    OBVIOUS
  <1>3. \A i \in 1..3 : z[i] = x[i]
    OBVIOUS
  <1>4. \A i \in 1..2 : z[3 + i] = y[i]
    OBVIOUS
  <1> HIDE DEF S, x, y, z
  <1>5. /\ Len(z) = Len(x) + Len(y)
        /\ \A i \in 1..Len(x) : z[i] = x[i]
        /\ \A i \in 1..Len(y) : z[Len(x) + i] = y[i]
    BY <1>2, <1>3, <1>4
  <1>6. x \o y = z
    BY <1>1, <1>5, Cat, Zenon
  <1>7. QED BY <1>6 DEF x, y, z

\* Lists of writes put together: five and one.
LEMMA Cat51 ==
  ASSUME NEW a, NEW b, NEW c, NEW d, NEW e, NEW f
  PROVE  <<a, b, c, d, e>> \o <<f>> = <<a, b, c, d, e, f>>
  <1> DEFINE S == {a, b, c, d, e, f}
             x == <<a, b, c, d, e>>
             y == <<f>>
             z == <<a, b, c, d, e, f>>
  <1>1. x \in Seq(S) /\ y \in Seq(S) /\ z \in Seq(S)
    OBVIOUS
  <1>2. Len(x) = 5 /\ Len(y) = 1 /\ Len(z) = 6
    OBVIOUS
  <1>3. \A i \in 1..5 : z[i] = x[i]
    OBVIOUS
  <1>4. \A i \in 1..1 : z[5 + i] = y[i]
    OBVIOUS
  <1> HIDE DEF S, x, y, z
  <1>5. /\ Len(z) = Len(x) + Len(y)
        /\ \A i \in 1..Len(x) : z[i] = x[i]
        /\ \A i \in 1..Len(y) : z[Len(x) + i] = y[i]
    BY <1>2, <1>3, <1>4
  <1>6. x \o y = z
    BY <1>1, <1>5, Cat, Zenon
  <1>7. QED BY <1>6 DEF x, y, z

\* Lists of writes put together: five and two.
LEMMA Cat52 ==
  ASSUME NEW a, NEW b, NEW c, NEW d, NEW e, NEW f, NEW g
  PROVE  <<a, b, c, d, e>> \o <<f, g>> = <<a, b, c, d, e, f, g>>
  <1> DEFINE S == {a, b, c, d, e, f, g}
             x == <<a, b, c, d, e>>
             y == <<f, g>>
             z == <<a, b, c, d, e, f, g>>
  <1>1. x \in Seq(S) /\ y \in Seq(S) /\ z \in Seq(S)
    OBVIOUS
  <1>2. Len(x) = 5 /\ Len(y) = 2 /\ Len(z) = 7
    OBVIOUS
  <1>3. \A i \in 1..5 : z[i] = x[i]
    OBVIOUS
  <1>4. \A i \in 1..2 : z[5 + i] = y[i]
    OBVIOUS
  <1> HIDE DEF S, x, y, z
  <1>5. /\ Len(z) = Len(x) + Len(y)
        /\ \A i \in 1..Len(x) : z[i] = x[i]
        /\ \A i \in 1..Len(y) : z[Len(x) + i] = y[i]
    BY <1>2, <1>3, <1>4
  <1>6. x \o y = z
    BY <1>1, <1>5, Cat, Zenon
  <1>7. QED BY <1>6 DEF x, y, z

\* Lists of writes put together: seven and one.
LEMMA Cat71 ==
  ASSUME NEW a, NEW b, NEW c, NEW d, NEW e, NEW f, NEW g, NEW h
  PROVE  <<a, b, c, d, e, f, g>> \o <<h>> = <<a, b, c, d, e, f, g, h>>
  <1> DEFINE S == {a, b, c, d, e, f, g, h}
             x == <<a, b, c, d, e, f, g>>
             y == <<h>>
             z == <<a, b, c, d, e, f, g, h>>
  <1>1. x \in Seq(S) /\ y \in Seq(S) /\ z \in Seq(S)
    OBVIOUS
  <1>2. Len(x) = 7 /\ Len(y) = 1 /\ Len(z) = 8
    OBVIOUS
  <1>3. \A i \in 1..7 : z[i] = x[i]
    OBVIOUS
  <1>4. \A i \in 1..1 : z[7 + i] = y[i]
    OBVIOUS
  <1> HIDE DEF S, x, y, z
  <1>5. /\ Len(z) = Len(x) + Len(y)
        /\ \A i \in 1..Len(x) : z[i] = x[i]
        /\ \A i \in 1..Len(y) : z[Len(x) + i] = y[i]
    BY <1>2, <1>3, <1>4
  <1>6. x \o y = z
    BY <1>1, <1>5, Cat, Zenon
  <1>7. QED BY <1>6 DEF x, y, z
=============================================================================
