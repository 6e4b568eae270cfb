----------------------------- MODULE LoopProofs -----------------------------
(***************************************************************************)
(* Proofs about the lock detectors, the regulator and the two loops, for   *)
(* every gain, range, threshold and number of samples.                     *)
(*                                                                         *)
(* The helper PLL: its lock detector, its regulator and its tag            *)
(* bookkeeping, each by itself, and then that the whole loop implements    *)
(* the three, so that what is proved of each holds of the loop.            *)
(*                                                                         *)
(* The main PLL: its locks and gain schedule (module MainPll), for any     *)
(* number of stages and samples per stage, any sequence of errors and of   *)
(* calls, and any phase shifts.  Its tags are in MainTagsProofs.           *)
(***************************************************************************)
EXTENDS HelperLoop, MainPll, TLAPS

(***************************************************************************)
(* ld_update on any record                                                 *)
(***************************************************************************)
\* Any lock detector, with any pair of thresholds.
LdRec == [lock_cnt : Nat, lock_samples : Nat, delock_samples : Nat,
          locked : BOOLEAN, lock_changed : BOOLEAN]

(***************************************************************************)
(* A sample inside the threshold: the thresholds are kept, the counter     *)
(* goes up by one until it is full, the detector is locked from then on    *)
(* and lock_changed marks the sample that locked it.                       *)
(***************************************************************************)
LEMMA GoodShape ==
  ASSUME NEW d \in LdRec
  PROVE  /\ ld_good(d) \in LdRec
         /\ ld_good(d).lock_samples = d.lock_samples
         /\ ld_good(d).delock_samples = d.delock_samples
         /\ ld_good(d).lock_cnt = IF d.lock_cnt < d.lock_samples THEN d.lock_cnt + 1
                                                                 ELSE d.lock_cnt
         /\ ld_good(d).locked <=> (d.locked \/ ld_good(d).lock_cnt = d.lock_samples)
         /\ ld_good(d).lock_changed <=> (ld_good(d).locked /\ ~d.locked)
  <1> DEFINE cnt  == IF d.lock_cnt < d.lock_samples THEN d.lock_cnt + 1 ELSE d.lock_cnt
             full == cnt = d.lock_samples
  <1>1. ld_good(d) = [d EXCEPT !.lock_cnt = cnt, !.lock_changed = full /\ ~d.locked,
                               !.locked = d.locked \/ full]
    BY DEF ld_good, LdRec
  <1>2. cnt \in Nat
    BY DEF LdRec
  <1> HIDE DEF cnt, full
  <1>3. d \in [lock_cnt : Nat, lock_samples : Nat, delock_samples : Nat,
               locked : BOOLEAN, lock_changed : BOOLEAN]
    BY DEF LdRec
  <1>4. /\ full \in BOOLEAN /\ d.locked \in BOOLEAN
    BY <1>3 DEF full
  <1>5. /\ ld_good(d).lock_cnt = cnt
        /\ ld_good(d).lock_changed = (full /\ ~d.locked)
        /\ ld_good(d).locked = (d.locked \/ full)
        /\ ld_good(d).lock_samples = d.lock_samples
        /\ ld_good(d).delock_samples = d.delock_samples
    BY <1>1, <1>3, Zenon
  <1>6. ld_good(d) \in LdRec
    BY Zenon, <1>1, <1>2, <1>3 DEF LdRec
  <1>7. QED
    BY Zenon, <1>4, <1>5, <1>6 DEF cnt, full

(***************************************************************************)
(* A sample outside the threshold: the counter goes down to, and not       *)
(* below, delock_samples; a locked detector that gets there unlocks and    *)
(* restarts from zero.                                                     *)
(***************************************************************************)
LEMMA BadShape ==
  ASSUME NEW d \in LdRec
  PROVE  LET cnt == IF d.lock_cnt > d.delock_samples THEN d.lock_cnt - 1 ELSE d.lock_cnt
         IN  /\ ld_bad(d) \in LdRec
             /\ ld_bad(d).lock_samples = d.lock_samples
             /\ ld_bad(d).delock_samples = d.delock_samples
             /\ ld_bad(d).locked <=> (d.locked /\ cnt # d.delock_samples)
             /\ ld_bad(d).lock_changed <=> (d.locked /\ ~ld_bad(d).locked)
             /\ ld_bad(d).lock_cnt = IF d.locked /\ ~ld_bad(d).locked THEN 0 ELSE cnt
  <1> DEFINE cnt   == IF d.lock_cnt > d.delock_samples THEN d.lock_cnt - 1 ELSE d.lock_cnt
             loses == cnt = d.delock_samples /\ d.locked
             nxt   == IF loses THEN 0 ELSE cnt
  <1>1. ld_bad(d) = [d EXCEPT !.lock_cnt = nxt, !.lock_changed = loses,
                              !.locked = d.locked /\ ~loses]
    BY DEF ld_bad, LdRec
  <1>2. cnt \in Nat /\ nxt \in Nat
    BY DEF LdRec
  <1>3. d \in [lock_cnt : Nat, lock_samples : Nat, delock_samples : Nat,
               locked : BOOLEAN, lock_changed : BOOLEAN]
    BY DEF LdRec
  <1>4. loses \in BOOLEAN /\ d.locked \in BOOLEAN
    BY <1>3
  <1>a. loses <=> (cnt = d.delock_samples /\ d.locked)
    OBVIOUS
  <1>b. nxt = IF loses THEN 0 ELSE cnt
    OBVIOUS
  <1> HIDE DEF loses, nxt
  <1>5. /\ ld_bad(d).lock_cnt = nxt
        /\ ld_bad(d).lock_changed = loses
        /\ ld_bad(d).locked = (d.locked /\ ~loses)
        /\ ld_bad(d).lock_samples = d.lock_samples
        /\ ld_bad(d).delock_samples = d.delock_samples
    BY <1>1, <1>3, Zenon
  <1>6. ld_bad(d) \in LdRec
    BY Zenon, <1>1, <1>2, <1>3, <1>4 DEF LdRec
  <1>7. QED
    BY Zenon, <1>4, <1>5, <1>6, <1>a, <1>b

\* A sample of either kind keeps the thresholds and the bound of the counter; one
\* that locks the detector is marked; with a floor above the ceiling a lock stays.
LEMMA UpdateShape ==
  ASSUME NEW d \in LdRec, NEW ok \in BOOLEAN
  PROVE  /\ ld_update(d, ok) \in LdRec
         /\ ld_update(d, ok).lock_samples = d.lock_samples
         /\ ld_update(d, ok).delock_samples = d.delock_samples
         /\ d.lock_cnt <= d.lock_samples => ld_update(d, ok).lock_cnt <= d.lock_samples
         /\ ~d.locked /\ ld_update(d, ok).locked => ld_update(d, ok).lock_changed
         /\ d.locked /\ d.lock_cnt <= d.lock_samples /\ d.lock_samples < d.delock_samples
              => ld_update(d, ok).locked
  <1>1. CASE ok
    <2>1. ld_update(d, ok) = ld_good(d)
      BY <1>1 DEF ld_update
    <2>2. QED BY <2>1, GoodShape DEF LdRec
  <1>2. CASE ~ok
    <2>1. ld_update(d, ok) = ld_bad(d)
      BY <1>2 DEF ld_update
    <2>2. QED BY <2>1, BadShape DEF LdRec
  <1>3. QED BY <1>1, <1>2

\* The writes that keep a lock detector one.
LEMMA LdWrite ==
  ASSUME NEW d \in LdRec, NEW l \in BOOLEAN, NEW c \in Nat, NEW e \in BOOLEAN
  PROVE  [d EXCEPT !.locked = l, !.lock_cnt = c, !.lock_changed = e] \in LdRec
  BY Zenon DEF LdRec

\* ld_init unlocks and keeps the thresholds.
LEMMA InitShape ==
  ASSUME NEW d \in LdRec
  PROVE  /\ ld_init(d) \in LdRec /\ ~ld_init(d).locked /\ ld_init(d).lock_cnt = 0
         /\ ld_init(d).lock_samples = d.lock_samples
         /\ ld_init(d).delock_samples = d.delock_samples
  <1>1. d \in [lock_cnt : Nat, lock_samples : Nat, delock_samples : Nat,
               locked : BOOLEAN, lock_changed : BOOLEAN]
    BY DEF LdRec
  <1>2. ld_init(d) = [d EXCEPT !.locked = FALSE, !.lock_cnt = 0, !.lock_changed = FALSE]
    BY DEF ld_init
  <1>3. ld_init(d) \in LdRec
    <2>1. 0 \in Nat
      OBVIOUS
    <2>2. QED BY <1>2, <2>1, LdWrite, Zenon
  <1>4. /\ ld_init(d).locked = FALSE /\ ld_init(d).lock_cnt = 0
        /\ ld_init(d).lock_samples = d.lock_samples
        /\ ld_init(d).delock_samples = d.delock_samples
    BY <1>1, <1>2, Zenon
  <1>5. QED BY <1>3, <1>4

-----------------------------------------------------------------------------
(***************************************************************************)
(* The lock detector (ld_init, ld_update)                                  *)
(***************************************************************************)
(***************************************************************************)
(* The detector of this specification is one of the records the lemmas     *)
(* above are about, and a sample is one of their two updates.   *)
(***************************************************************************)
LEMMA SampleShape ==
  ASSUME LdTypeOK, NEW ok \in BOOLEAN, Sample(ok)
  PROVE  /\ ld \in LdRec
         /\ ld.lock_samples = LockSamples /\ ld.delock_samples = DelockSamples
         /\ ok => ld' = ld_good(ld)
         /\ ~ok => ld' = ld_bad(ld)
  BY LdAssumption DEF LdTypeOK, Sample, ld_update, LdRec

\* The strengthened invariant holds of the freshly initialised detector.
LEMMA LdInitInv == LdInit => LdInv
  <1> SUFFICES ASSUME LdInit PROVE LdInv
    OBVIOUS
  <1>1. ld = [lock_cnt |-> 0, lock_samples |-> LockSamples,
              delock_samples |-> DelockSamples, locked |-> FALSE, lock_changed |-> FALSE]
    BY Zenon DEF LdInit, ld_init
  <1>2. LdTypeOK
    <2>1. last_ok \in BOOLEAN /\ odd \in BOOLEAN
      BY Zenon DEF LdInit
    <2>2. ld \in [lock_cnt : 0..LockSamples, lock_samples : {LockSamples},
                 delock_samples : {DelockSamples}, locked : BOOLEAN, lock_changed : BOOLEAN]
      BY <1>1, LdAssumption
    <2>3. goods \in 0..LockSamples /\ bads \in 0..LockSamples
      BY LdAssumption DEF LdInit
    <2>4. QED BY <2>1, <2>2, <2>3 DEF LdTypeOK
  <1>3. ld.lock_cnt = 0 /\ ~ld.locked
    BY <1>1
  <1>4. CounterMatchesLock /\ CounterIsBacked
    BY <1>3, LdAssumption DEF LdInit, CounterMatchesLock, CounterIsBacked
  <1>5. QED BY <1>2, <1>4 DEF LdInv

(***************************************************************************)
(* One sample preserves the strengthened invariant.                        *)
(***************************************************************************)
LEMMA SampleIInv ==
  ASSUME LdInv, NEW ok \in BOOLEAN, Sample(ok)
  PROVE  LdInv'
  <1>1. LdTypeOK /\ CounterMatchesLock /\ CounterIsBacked
    BY DEF LdInv
  <1>2. /\ ld \in LdRec /\ ld.lock_samples = LockSamples /\ ld.delock_samples = DelockSamples
        /\ ld.lock_cnt \in 0..LockSamples /\ goods \in 0..LockSamples /\ bads \in 0..LockSamples
    BY <1>1, SampleShape DEF LdTypeOK
  <1>3. CASE ok
    <2>1. ld' = ld_good(ld)
      BY Zenon, <1>1, <1>3, SampleShape
    <2>2. LdTypeOK'
      <3>1. last_ok' \in BOOLEAN /\ odd' \in BOOLEAN
        BY <1>1, Zenon DEF Sample, LdTypeOK
      <3>2. ld' \in LdRec /\ ld'.lock_cnt \in 0..LockSamples
             /\ ld'.lock_samples = LockSamples /\ ld'.delock_samples = DelockSamples
        BY <1>2, <2>1, GoodShape, LdAssumption
      <3>3. ld' \in [lock_cnt : 0..LockSamples, lock_samples : {LockSamples},
                     delock_samples : {DelockSamples}, locked : BOOLEAN, lock_changed : BOOLEAN]
        BY <3>2 DEF LdRec
      <3>4. goods' \in 0..LockSamples /\ bads' \in 0..LockSamples
        BY <1>2, LdAssumption DEF Sample, Saturate
      <3>5. QED BY <3>1, <3>3, <3>4 DEF LdTypeOK
    <2>3. CounterMatchesLock'
      BY <1>1, <1>2, <2>1, GoodShape, LdAssumption DEF CounterMatchesLock
    <2>4. CounterIsBacked'
      <3>1. /\ ld'.lock_cnt = IF ld.lock_cnt < LockSamples THEN ld.lock_cnt + 1 ELSE ld.lock_cnt
            /\ ld'.locked <=> (ld.locked \/ ld'.lock_cnt = LockSamples)
        BY <1>2, <2>1, GoodShape
      <3>2. CASE ld.locked
        <4>1. bads' = bads /\ ld'.locked
          BY Zenon, <1>3, <3>1, <3>2 DEF Sample
        <4>2. QED
          BY <1>1, <1>2, <3>1, <3>2, <4>1, LdAssumption DEF CounterIsBacked
      <3>3. CASE ~ld.locked
        <4>1. /\ goods' = Saturate(goods)
              /\ ld'.locked => bads' = 0
          BY Zenon, <1>3, <3>3 DEF Sample
        <4>2. QED
          BY <1>1, <1>2, <3>1, <3>3, <4>1, LdAssumption DEF CounterIsBacked, Saturate
      <3>4. QED BY <3>2, <3>3
    <2>5. QED BY <2>2, <2>3, <2>4 DEF LdInv
  <1>4. CASE ~ok
    <2>1. ld' = ld_bad(ld)
      BY <1>1, <1>4, SampleShape
    <2>2. LdTypeOK'
      <3>1. last_ok' \in BOOLEAN /\ odd' \in BOOLEAN
        BY <1>1, Zenon DEF Sample, LdTypeOK
      <3>2. ld' \in LdRec /\ ld'.lock_cnt \in 0..LockSamples
             /\ ld'.lock_samples = LockSamples /\ ld'.delock_samples = DelockSamples
        BY <1>2, <2>1, BadShape, LdAssumption
      <3>3. ld' \in [lock_cnt : 0..LockSamples, lock_samples : {LockSamples},
                     delock_samples : {DelockSamples}, locked : BOOLEAN, lock_changed : BOOLEAN]
        BY <3>2 DEF LdRec
      <3>4. goods' \in 0..LockSamples /\ bads' \in 0..LockSamples
        BY <1>2, LdAssumption DEF Sample, Saturate
      <3>5. QED BY <3>1, <3>3, <3>4 DEF LdTypeOK
    <2>3. CounterMatchesLock'
      BY <1>1, <1>2, <2>1, BadShape, LdAssumption DEF CounterMatchesLock
    <2>4. CounterIsBacked'
      BY <1>1, <1>2, <1>4, <2>1, BadShape, LdAssumption
      DEF Sample, CounterIsBacked, CounterMatchesLock, Saturate
    <2>5. QED BY <2>2, <2>3, <2>4 DEF LdInv
  <1>5. QED BY <1>3, <1>4

\* ld_init restores the initial counters.
LEMMA ResetIInv ==
  ASSUME LdInv, Reset
  PROVE  LdInv' /\ ~ld'.locked
  <1>1. ld' = [ld EXCEPT !.locked = FALSE, !.lock_cnt = 0, !.lock_changed = FALSE]
    BY DEF Reset, ld_init
  <1>2. ld' \in [lock_cnt : 0..LockSamples, lock_samples : {LockSamples},
                 delock_samples : {DelockSamples}, locked : BOOLEAN, lock_changed : BOOLEAN]
        /\ ld'.lock_cnt = 0 /\ ld'.locked = FALSE
    <2> DEFINE Ld == [lock_cnt : 0..LockSamples, lock_samples : {LockSamples},
                      delock_samples : {DelockSamples}, locked : BOOLEAN, lock_changed : BOOLEAN]
    <2>1. ld \in Ld /\ 0 \in 0..LockSamples /\ FALSE \in BOOLEAN
      BY LdAssumption DEF LdInv, LdTypeOK
    <2>2. [ld EXCEPT !.locked = FALSE, !.lock_cnt = 0, !.lock_changed = FALSE] \in Ld
      BY <2>1, Zenon
    <2>3. QED BY <1>1, <2>1, <2>2, Zenon
  <1>3. last_ok' \in BOOLEAN /\ odd' \in BOOLEAN
    BY Zenon DEF Reset, LdInv, LdTypeOK
  <1>4. goods' = 0 /\ bads' = 0
    BY DEF Reset
  <1>5. LdTypeOK'
    BY <1>2, <1>3, <1>4, LdAssumption DEF LdTypeOK
  <1>6. CounterMatchesLock' /\ CounterIsBacked'
    BY <1>2, <1>4, LdAssumption DEF CounterMatchesLock, CounterIsBacked
  <1>7. QED BY <1>2, <1>5, <1>6 DEF LdInv

(***************************************************************************)
(* ld_update keeps the counter consistent with the lock flag and with the  *)
(* samples seen, whatever the thresholds and the stream of errors.         *)
(***************************************************************************)
THEOREM DetectorInvariant == LdSpec => []LdInv
  <1>1. LdInv /\ [LdNext]_LdVars => LdInv'
    <2> SUFFICES ASSUME LdInv, [LdNext]_LdVars PROVE LdInv'
      OBVIOUS
    <2>1. CASE LdNext
      BY <2>1, SampleIInv, ResetIInv DEF LdNext
    <2>2. CASE UNCHANGED LdVars
      BY <2>2 DEF LdVars, LdInv, LdTypeOK, CounterMatchesLock, CounterIsBacked
    <2>3. QED BY <2>1, <2>2
  <1>2. QED BY LdInitInv, <1>1, PTL DEF LdSpec

(***************************************************************************)
(* A lock is reported only after lock_samples good samples.                *)
(***************************************************************************)
THEOREM LockIsEarned == LdSpec => LockNeedsGoodSamples
  <1>1. LdInv /\ [LdNext]_LdVars => [~ld.locked /\ ld'.locked => goods' = LockSamples]_LdVars
    <2> SUFFICES ASSUME LdInv, NEW ok \in BOOLEAN, Sample(ok), ~ld.locked, ld'.locked
                 PROVE  goods' = LockSamples
      BY ResetIInv DEF LdNext
    <2>2. LdTypeOK /\ CounterIsBacked /\ CounterMatchesLock
      BY DEF LdInv
    <2>3. ok /\ ld'.lock_cnt = LockSamples /\ ld'.lock_cnt = Saturate(ld.lock_cnt)
      BY <2>2, SampleShape, GoodShape, BadShape DEF Saturate
    <2>4. QED
      BY <2>2, <2>3, LdAssumption DEF Sample, LdTypeOK, CounterIsBacked, Saturate
  <1>2. QED BY <1>1, DetectorInvariant, PTL DEF LdSpec, LockNeedsGoodSamples

(***************************************************************************)
(* Hysteresis: losing the lock takes lock_samples - delock_samples bad     *)
(* samples counted since the lock was acquired.                            *)
(***************************************************************************)
THEOREM DelockIsEarned == LdSpec => DelockNeedsBadSamples
  <1>1. LdInv /\ [LdNext]_LdVars =>
          [Reset \/ (ld.locked /\ ~ld'.locked => bads' >= LockSamples - DelockSamples)]_LdVars
    <2> SUFFICES ASSUME LdInv, NEW ok \in BOOLEAN, Sample(ok), ld.locked, ~ld'.locked
                 PROVE  bads' >= LockSamples - DelockSamples
      BY DEF LdNext
    <2>1. LdTypeOK /\ CounterIsBacked
      BY DEF LdInv
    <2>2. ~ok /\ (IF ld.lock_cnt > DelockSamples THEN ld.lock_cnt - 1
                                                 ELSE ld.lock_cnt) = DelockSamples
      BY <2>1, SampleShape, GoodShape, BadShape
    <2>3. QED
      BY <2>1, <2>2, LdAssumption DEF Sample, LdTypeOK, CounterIsBacked, Saturate
  <1>2. QED BY <1>1, DetectorInvariant, PTL DEF LdSpec, DelockNeedsBadSamples

-----------------------------------------------------------------------------
(***************************************************************************)
(* The PI regulator (pi_init, pi_update)                                   *)
(***************************************************************************)
\* Flooring division: the facts about \div that the proof rests on.
LEMMA DivFacts ==
  ASSUME NEW a \in Int, NEW b \in Nat \ {0}
  PROVE  /\ a \div b \in Int
         /\ b * (a \div b) <= a
         /\ a <= b * (a \div b) + b - 1
  OBVIOUS

\* Multiplication by the positive scale is monotone.
LEMMA ScaleMonotone ==
  ASSUME NEW b \in Nat \ {0}, NEW k \in Int, NEW n \in Int, k <= n
  PROVE  b * k <= b * n
  OBVIOUS

(***************************************************************************)
(* What pi_update computes before clamping, with the product of error and  *)
(* gain named p and the increment of the integrator named d.               *)
(***************************************************************************)
LEMMA IntegratorStep ==
  ASSUME NEW i \in IntegratorLo..IntegratorHi, NEW d \in Int,
         NEW p \in Int, p <= KpErr, -KpErr <= p,
         NEW y \in Int, y = ((i + d + p + Half) \div Scale) + Bias,
         \/ y < YMin /\ d > 0
         \/ y > YMax /\ d < 0
         \/ y \in YMin..YMax
  PROVE  i + d \in IntegratorLo..IntegratorHi
  <1> DEFINE pre == i + d + p + Half
             q   == pre \div Scale
             lo  == (YMin - Bias) * Scale - Half - KpErr
             hi  == (YMax - Bias + 1) * Scale - 1 - Half + KpErr
  <1>1. /\ lo \in Int /\ hi \in Int
        /\ IntegratorLo = (IF lo < 0 THEN lo ELSE 0)
        /\ IntegratorHi = (IF hi > 0 THEN hi ELSE 0)
        /\ IntegratorLo \in Int /\ IntegratorHi \in Int
    BY PiAssumption DEF IntegratorLo, IntegratorHi
  <1>2. i \in Int /\ pre \in Int
    BY <1>1, PiAssumption
  <1>3. /\ q \in Int /\ y = q + Bias
        /\ Scale * q <= pre /\ pre <= Scale * q + Scale - 1
    BY <1>2, DivFacts, PiAssumption
  <1> HIDE DEF q
  <1>4. ASSUME q <= YMax - Bias
        PROVE  i + d <= hi
    <2>1. Scale * q <= Scale * (YMax - Bias)
      BY <1>3, <1>4, ScaleMonotone, PiAssumption
    <2>2. (YMax - Bias + 1) * Scale = Scale * (YMax - Bias) + Scale
      BY PiAssumption
    <2>3. QED BY <1>2, <1>3, <2>1, <2>2, PiAssumption
  <1>5. ASSUME q >= YMin - Bias
        PROVE  lo <= i + d
    <2>1. Scale * (YMin - Bias) <= Scale * q
      BY <1>3, <1>5, ScaleMonotone, PiAssumption
    <2>2. (YMin - Bias) * Scale = Scale * (YMin - Bias)
      BY PiAssumption
    <2>3. QED BY <1>2, <1>3, <2>1, <2>2, PiAssumption
  <1> HIDE DEF pre, lo, hi
  <1>6. CASE y < YMin /\ d > 0
    BY <1>1, <1>2, <1>3, <1>4, <1>6, PiAssumption
  <1>7. CASE y > YMax /\ d < 0
    BY <1>1, <1>2, <1>3, <1>5, <1>7, PiAssumption
  <1>8. CASE y \in YMin..YMax
    BY <1>1, <1>2, <1>3, <1>4, <1>5, <1>8, PiAssumption
  <1>9. QED BY <1>6, <1>7, <1>8

\* One error sample preserves the invariant.
LEMMA UpdateIInv ==
  ASSUME PiInv, NEW x \in -MaxErr..MaxErr, Update(x)
  PROVE  PiInv'
  <1> DEFINE d == Ki * x
             p == x * Kp
             i == pi.integrator
             y == ((i + d + p + Half) \div Scale) + Bias
             keep == \/ y < YMin /\ d > 0
                     \/ y > YMax /\ d < 0
                     \/ y \in YMin..YMax
             c == IF y < YMin THEN YMin ELSE IF y > YMax THEN YMax ELSE y
             j == IF keep THEN i + d ELSE i
  <1>1. /\ i \in IntegratorLo..IntegratorHi /\ i \in Int
        /\ pi.ki = Ki /\ pi.kp = Kp /\ pi.scale = Scale /\ pi.half = Half /\ pi.bias = Bias
        /\ pi.y_min = YMin /\ pi.y_max = YMax /\ pi.anti_windup
    BY Zenon DEF PiInv, PiTypeOK, NoWindup
  <1>2. /\ d \in Int /\ p \in Int /\ p <= KpErr /\ -KpErr <= p
    BY PiAssumption
  <1>3. y \in Int
    <2>1. i + d + p + Half \in Int
      BY <1>1, <1>2, PiAssumption
    <2> DEFINE pre == i + d + p + Half
    <2> HIDE DEF pre
    <2>2. pre \div Scale \in Int
      BY <2>1, DivFacts, PiAssumption DEF pre
    <2>3. (pre \div Scale) + Bias \in Int
      BY <2>2, PiAssumption
    <2>4. QED BY <2>3 DEF pre
  <1>4. c \in YMin..YMax
    BY <1>3, PiAssumption
  <1>5. j \in IntegratorLo..IntegratorHi
    <2> HIDE DEF d, p, i, y
    <2>1. CASE keep
      <3>1. y = ((i + d + p + Half) \div Scale) + Bias
        BY DEF y
      <3>2. i + d \in IntegratorLo..IntegratorHi
        BY Zenon, <1>1, <1>2, <1>3, <2>1, <3>1, IntegratorStep
      <3>3. QED BY <2>1, <3>2
    <2>2. CASE ~keep
      BY <1>1, <2>2
    <2>3. QED BY <2>1, <2>2
  <1>6. pi' = [pi EXCEPT !.integrator = j, !.y = c]
    <2>1. pi' = pi_update(pi, x)
      BY DEF Update
    <2>2. /\ i + d > i <=> d > 0
          /\ i + d < i <=> d < 0
      BY <1>1, <1>2
    <2>3. /\ pi.integrator + pi.ki * x = i + d
          /\ ((pi.integrator + pi.ki * x + x * pi.kp + pi.half) \div pi.scale) + pi.bias = y
      BY <1>1, Zenon
    <2> DEFINE k == IF y < YMin THEN i + d > i \/ ~pi.anti_windup
                    ELSE IF y > YMax THEN i + d < i \/ ~pi.anti_windup
                    ELSE TRUE
    <2>4. pi' = [pi EXCEPT !.integrator = IF k THEN i + d ELSE @, !.y = Clamp(pi, y)]
      <3> HIDE DEF y, d, p
      <3>1. pi_update(pi, x) = [pi EXCEPT !.integrator = IF k THEN i + d ELSE @, !.y = Clamp(pi, y)]
        BY Zenon, <1>1, <2>3 DEF pi_update
      <3>2. QED BY <2>1, <3>1
    <2> HIDE DEF y, d, p
    <2>5. k <=> keep
      BY <1>1, <1>2, <1>3, <2>2, PiAssumption
    <2>6. Clamp(pi, y) = c
      BY <1>1 DEF Clamp
    <2> HIDE DEF k, keep, c
    <2>7. QED BY Zenon, <2>4, <2>5, <2>6
  <1>7. j \in Int
    BY <1>5, PiAssumption DEF IntegratorLo, IntegratorHi
  <1> HIDE DEF d, p, i, y, c, j
  <1>8. PiTypeOK'
    BY Zenon, <1>4, <1>6, <1>7 DEF PiInv, PiTypeOK
  <1>9. NoWindup'
    BY <1>5, <1>6 DEF PiInv, PiTypeOK, NoWindup
  <1>10. QED BY <1>8, <1>9 DEF PiInv

\* Restarting the regulator does, too.
LEMMA RewindIInv ==
  ASSUME PiInv, Rewind
  PROVE  PiInv'
  <1>1. pi' = [pi EXCEPT !.integrator = 0, !.y = pi.bias]
    BY DEF Rewind, pi_init
  <1>2. PiTypeOK' /\ pi'.integrator = 0
    <2>1. pi.bias = Bias /\ Bias \in YMin..YMax /\ 0 \in Int
      BY PiAssumption DEF PiInv, PiTypeOK
    <2>2. QED BY <1>1, <2>1, Zenon DEF PiInv, PiTypeOK
  <1>3. 0 \in IntegratorLo..IntegratorHi
    BY PiAssumption DEF IntegratorLo, IntegratorHi
  <1>4. QED BY <1>2, <1>3 DEF PiInv, NoWindup

(***************************************************************************)
(* The DAC value is in range and the integrator within its band, always.   *)
(***************************************************************************)
THEOREM NeverWindsUp == PiSpec => [](PiTypeOK /\ NoWindup)
  <1>1. PiInit => PiInv
    <2> SUFFICES ASSUME PiInit PROVE PiInv
      OBVIOUS
    <2>1. pi = [kp |-> Kp, ki |-> Ki, scale |-> Scale, half |-> Half, bias |-> Bias,
                integrator |-> 0, anti_windup |-> TRUE,
                y_min |-> YMin, y_max |-> YMax, y |-> Bias]
      BY Zenon DEF PiInit, pi_init
    <2>2. PiTypeOK
      BY <2>1, PiAssumption DEF PiTypeOK
    <2>3. 0 \in IntegratorLo..IntegratorHi
      BY PiAssumption DEF IntegratorLo, IntegratorHi
    <2>4. QED BY <2>1, <2>2, <2>3 DEF PiInv, NoWindup
  <1>2. PiInv /\ [PiNext]_pi => PiInv'
    <2> SUFFICES ASSUME PiInv, [PiNext]_pi PROVE PiInv'
      OBVIOUS
    <2>1. CASE PiNext
      BY <2>1, UpdateIInv, RewindIInv DEF PiNext
    <2>2. CASE UNCHANGED pi
      BY Zenon, <2>2 DEF PiInv, PiTypeOK, NoWindup
    <2>3. QED BY <2>1, <2>2
  <1>3. QED BY <1>1, <1>2, PTL DEF PiSpec, PiInv

-----------------------------------------------------------------------------
(***************************************************************************)
(* The tags (helper_start, helper_update)                                  *)
(***************************************************************************)
\* A step shorter than the modulus wraps at most once.
LEMMA ModStep ==
  ASSUME NEW n \in Nat, NEW a \in 0..n-1, NEW d \in 1..n-1
  PROVE  /\ (a + d) % n \in 0..n-1
         /\ (a + d) % n = IF a + d < n THEN a + d ELSE a + d - n
         /\ (a + d) % n < a <=> a + d >= n
  OBVIOUS

\* The clamp of helper_update.
LEMMA ClampRange ==
  ASSUME NEW e \in Int
  PROVE  clamp(e) \in -ErrorClamp..ErrorClamp
  BY TagsAssumption DEF clamp

HtInv == HtTypeOK /\ TracksDrift

\* A helper that has seen no tag.
LEMMA HtInitInv == HtInit => HtInv
  <1> SUFFICES ASSUME HtInit PROVE HtInv
    OBVIOUS
  <1>1. h = [p_adder |-> 0, p_setpoint |-> 0, tag_d0 |-> -1, err |-> 0] /\ drift = 0
    BY Zenon DEF HtInit, helper_start
  <1>2. QED BY <1>1, TagsAssumption DEF HtInv, HtTypeOK, TracksDrift, Reach

\* A further tag, which may wrap once and cause a rebase.
LEMMA NextTagIInv ==
  ASSUME HtInv, NEW j \in -Jitter..Jitter, NextTag(j)
  PROVE  HtInv' /\ h'.err = clamp(drift' + Period)
  <1> DEFINE tag    == (h.tag_d0 + Period + j) % TagMod
             adder  == IF h.tag_d0 > tag THEN h.p_adder + TagMod ELSE h.p_adder
             rebase == IF tag + adder > Wraparound /\ h.p_setpoint > Wraparound
                       THEN Wraparound ELSE 0
  <1>1. /\ h.tag_d0 \in 0..TagMod-1 /\ h.p_adder \in Int
        /\ h.p_setpoint \in 0..Reach
        /\ drift \in -MaxDrift..MaxDrift
        /\ drift' = drift + j /\ drift' \in -MaxDrift..MaxDrift
        /\ h.tag_d0 + h.p_adder - h.p_setpoint = drift
        /\ j \in Int /\ Reach \in Nat
    BY TagsAssumption DEF HtInv, HtTypeOK, TracksDrift, NextTag, Reach
  <1>2. /\ tag \in 0..TagMod-1
        /\ tag + adder = h.tag_d0 + Period + j + h.p_adder
        /\ adder \in Int
    <2>1. Period + j \in 1..TagMod-1 /\ TagMod \in Nat
      BY <1>1, TagsAssumption
    <2>2. (h.tag_d0 + (Period + j)) % TagMod = tag
      BY <1>1, TagsAssumption
    <2>3. /\ tag \in 0..TagMod-1
          /\ tag = IF h.tag_d0 + (Period + j) < TagMod THEN h.tag_d0 + (Period + j)
                   ELSE h.tag_d0 + (Period + j) - TagMod
          /\ tag < h.tag_d0 <=> h.tag_d0 + (Period + j) >= TagMod
      BY Zenon, <1>1, <2>1, <2>2, ModStep
    <2> HIDE DEF tag
    <2>4. QED BY <1>1, <2>3, TagsAssumption
  <1>3. h' = [h EXCEPT !.p_adder = adder - rebase, !.p_setpoint = h.p_setpoint - rebase + Period,
                       !.tag_d0 = tag, !.err = clamp(tag + adder - h.p_setpoint)]
    BY <1>1 DEF NextTag, helper_update
  <1> HIDE DEF tag, adder
  <1>4. /\ h'.p_adder = adder - rebase
        /\ h'.p_setpoint = h.p_setpoint - rebase + Period
        /\ h'.tag_d0 = tag
        /\ h'.err = clamp(tag + adder - h.p_setpoint)
        /\ h' = [p_adder |-> h'.p_adder, p_setpoint |-> h'.p_setpoint,
                 tag_d0 |-> h'.tag_d0, err |-> h'.err]
    BY Zenon, <1>3 DEF HtInv, HtTypeOK
  <1>5. tag + adder - h.p_setpoint = drift' + Period
    BY <1>1, <1>2, TagsAssumption
  <1>6. rebase \in {0, Wraparound} /\ rebase \in Int
    BY TagsAssumption
  <1>7. TracksDrift'
    BY <1>1, <1>2, <1>4, <1>5, <1>6, TagsAssumption DEF TracksDrift
  <1>8. /\ h.p_setpoint - rebase + Period \in 0..Reach
        /\ tag + (adder - rebase) \in -MaxDrift..Reach
    BY <1>1, <1>2, <1>5, TagsAssumption DEF Reach
  <1>9. h'.err \in -ErrorClamp..ErrorClamp /\ h'.err = clamp(drift' + Period)
    BY <1>1, <1>2, <1>4, <1>5, ClampRange, TagsAssumption
  <1>10. HtTypeOK'
    BY <1>1, <1>2, <1>4, <1>6, <1>8, <1>9, TagsAssumption DEF HtTypeOK, Reach
  <1>11. QED BY <1>7, <1>9, <1>10 DEF HtInv

\* The first tag sets the setpoint.
LEMMA FirstTagIInv ==
  ASSUME HtInv, NEW tag \in 0..TagMod-1, FirstTag(tag)
  PROVE  HtInv' /\ h.tag_d0 < 0
  <1>1. /\ h' = [h EXCEPT !.p_setpoint = tag, !.tag_d0 = tag, !.err = 0]
        /\ drift' = 0
    BY DEF FirstTag, helper_update
  <1>2. h.tag_d0 < 0 /\ h.p_adder = 0
    BY DEF FirstTag, HtInv, TracksDrift, HtTypeOK
  <1>3. h' = [p_adder |-> 0, p_setpoint |-> tag, tag_d0 |-> tag, err |-> 0]
    BY Zenon, <1>1, <1>2 DEF HtInv, HtTypeOK
  <1>4. drift' = 0 /\ tag \in Nat /\ tag < TagMod
    BY <1>1, TagsAssumption
  <1>5. HtTypeOK'
    BY <1>3, <1>4, TagsAssumption DEF HtTypeOK, Reach
  <1>6. QED BY <1>2, <1>3, <1>4, <1>5, TagsAssumption DEF HtInv, TracksDrift

\* helper_start forgets the tags.
LEMMA RestartIInv ==
  ASSUME HtInv, Restart
  PROVE  HtInv' /\ h'.tag_d0 = -1
  <1>1. h' = [p_adder |-> 0, p_setpoint |-> 0, tag_d0 |-> -1, err |-> h.err] /\ drift' = 0
    BY Zenon DEF Restart, helper_start, HtInv, HtTypeOK
  <1>2. h.err \in -ErrorClamp..ErrorClamp
    BY DEF HtInv, HtTypeOK
  <1>3. HtTypeOK'
    BY <1>1, <1>2, TagsAssumption DEF HtTypeOK, Reach
  <1>4. QED BY <1>1, <1>3 DEF HtInv, TracksDrift

\* The tag bookkeeping of helper_update is exact and stays within 32 bits: the
\* type invariant with its bounds and TracksDrift always hold.
THEOREM TrackingIsExact == HtSpec => [](HtTypeOK /\ TracksDrift)
  <1>1. HtInv /\ [HtNext]_HtVars => HtInv'
    <2> SUFFICES ASSUME HtInv, [HtNext]_HtVars PROVE HtInv'
      OBVIOUS
    <2>1. CASE UNCHANGED HtVars
      BY <2>1 DEF HtVars, HtInv, HtTypeOK, TracksDrift
    <2>2. CASE HtNext
      BY <2>2, NextTagIInv, FirstTagIInv, RestartIInv DEF HtNext
    <2>3. QED BY <2>1, <2>2
  <1>2. QED BY <1>1, HtInitInv, PTL DEF HtSpec, HtInv

\* The error handed to pi_update and ld_update is the true one, clamped.
THEOREM ErrorIsExact == HtSpec => ErrorIsTrue
  <1>1. HtInv /\ [HtNext]_HtVars =>
          [h.tag_d0 >= 0 /\ h'.tag_d0 >= 0 => h'.err = clamp(drift' + Period)]_HtVars
    <2> SUFFICES ASSUME HtInv, HtNext, h.tag_d0 >= 0, h'.tag_d0 >= 0
                 PROVE  h'.err = clamp(drift' + Period)
      OBVIOUS
    <2>1. ~(h.tag_d0 < 0) /\ h'.tag_d0 # -1
      BY DEF HtInv, HtTypeOK
    <2>2. QED BY <2>1, NextTagIInv, FirstTagIInv, RestartIInv DEF HtNext
  <1>2. QED BY <1>1, TrackingIsExact, PTL DEF HtSpec, HtInv, ErrorIsTrue

-----------------------------------------------------------------------------
(***************************************************************************)
(* The loop                                                                *)
(***************************************************************************)
\* A step of the loop is a step of the tag bookkeeping or leaves it alone.
LEMMA TagsStep == [LoopNext]_LoopVars => [HtNext]_HtVars
  BY DEF LoopNext, LoopVars, Start, First, Track, HtNext

\* A step of the loop is a step of the detector or leaves it alone.
LEMMA DetectorStep == [LoopNext]_LoopVars => [LdNext]_LdVars
  <1>1. ASSUME NEW j \in -Jitter..Jitter, Track(j)
        PROVE  LdNext
    <2>1. WithinThreshold(h'.err) \in BOOLEAN
      BY DEF WithinThreshold
    <2>2. QED BY <1>1, <2>1, Zenon DEF Track, LdNext
  <1>2. QED BY <1>1 DEF LoopNext, LoopVars, Start, First, LdNext

\* The regulator is given errors within the clamp only.
LEMMA RegulatorStep == HtTypeOK' /\ [LoopNext]_LoopVars => [PiNext]_pi
  <1>1. ASSUME NEW j \in -Jitter..Jitter, Track(j), HtTypeOK'
        PROVE  PiNext
    <2>1. h'.err \in -ErrorClamp..ErrorClamp
      BY <1>1 DEF HtTypeOK
    <2>2. h'.err \in -MaxErr..MaxErr
      BY <2>1, LoopAssumption, PiAssumption, TagsAssumption
    <2>3. QED BY <1>1, <2>2 DEF Track, PiNext
  <1>2. QED BY <1>1 DEF LoopNext, LoopVars, Start, First, PiNext

\* helper_start and helper_update, as a whole, implement the tag bookkeeping,
\* the regulator and the detector: no call feeds one of them with anything the
\* others' specifications exclude.
THEOREM LoopImplementsParts == LoopSpec => HtSpec /\ PiSpec /\ LdSpec
  <1>1. LoopInit => HtInit /\ PiInit /\ LdInit
    BY DEF LoopInit
  <1>2. LoopSpec => HtSpec
    BY <1>1, TagsStep, PTL DEF LoopSpec, HtSpec
  <1>3. LoopSpec => LdSpec
    BY <1>1, DetectorStep, PTL DEF LoopSpec, LdSpec
  <1>4. LoopSpec => PiSpec
    BY <1>1, <1>2, RegulatorStep, TrackingIsExact, PTL DEF LoopSpec, PiSpec
  <1>5. QED BY <1>2, <1>3, <1>4, PTL

\* The loop keeps its type, tracks the drift of the clock exactly and never
\* winds up.
THEOREM LoopInvariant == LoopSpec => [](LoopInv /\ TracksDrift /\ NoWindup)
  BY LoopImplementsParts, TrackingIsExact, NeverWindsUp, DetectorInvariant, PTL DEF LoopInv

\* Every error sample is the true one, clamped, and the helper neither locks
\* nor loses its lock without the samples for it.
THEOREM LoopSteps ==
  LoopSpec => ErrorIsTrue /\ LockNeedsGoodSamples /\ DelockNeedsBadSamples
  BY LoopImplementsParts, ErrorIsExact, LockIsEarned, DelockIsEarned, PTL

-----------------------------------------------------------------------------
(***************************************************************************)
(* The main PLL: locks and gain schedule (mpll_update)                     *)
(***************************************************************************)
\* MainPll gives a detector the same type.
LEMMA SameLd == Detectors = LdRec
BY DEF Detectors, LdRec

\* One sample of either detector.
LEMMA SampleIs ==
  ASSUME NEW d \in Detectors, NEW ok \in BOOLEAN
  PROVE  LET w == ld_sample(d, ok)
         IN  /\ w \in Detectors /\ w.lock_samples = d.lock_samples /\ w.delock_samples = d.delock_samples
             /\ ok => /\ w.lock_cnt = IF d.lock_cnt < d.lock_samples THEN d.lock_cnt + 1 ELSE d.lock_cnt
                      /\ w.locked <=> (d.locked \/ w.lock_cnt = d.lock_samples)
             /\ ~ ok => w.lock_cnt <= d.lock_cnt /\ (w.locked => d.locked)
             /\ ~ w.locked /\ d.locked => w.lock_cnt = 0
             /\ d.lock_cnt <= d.lock_samples => w.lock_cnt <= d.lock_samples
             /\ d.locked /\ d.lock_cnt <= d.lock_samples /\ d.lock_samples < d.delock_samples => w.locked
<1> DEFINE u == ld_update(d, ok)
           w == ld_sample(d, ok)
<1>0. d \in LdRec
  BY SameLd
<1>1. u \in LdRec /\ u.lock_samples = d.lock_samples /\ u.delock_samples = d.delock_samples
  BY <1>0, UpdateShape
<1>2. w = [u EXCEPT !.lock_changed = FALSE]
  BY DEF ld_sample
<1>3. /\ d.lock_cnt <= d.lock_samples => u.lock_cnt <= d.lock_samples
      /\ d.locked /\ d.lock_cnt <= d.lock_samples /\ d.lock_samples < d.delock_samples => u.locked
  BY <1>0, UpdateShape
<1>4. ok => /\ u.lock_cnt = IF d.lock_cnt < d.lock_samples THEN d.lock_cnt + 1 ELSE d.lock_cnt
            /\ u.locked <=> (d.locked \/ u.lock_cnt = d.lock_samples)
  BY <1>0, GoodShape DEF ld_update
<1>5. ~ ok => u.lock_cnt <= d.lock_cnt /\ (u.locked => d.locked) /\ (~ u.locked /\ d.locked => u.lock_cnt = 0)
  <2> SUFFICES ASSUME ~ ok
               PROVE  u.lock_cnt <= d.lock_cnt /\ (u.locked => d.locked) /\ (~ u.locked /\ d.locked => u.lock_cnt = 0)
    OBVIOUS
  <2>1. u = ld_bad(d)
    BY DEF ld_update
  <2> QED BY <1>0, <2>1, BadShape DEF LdRec
<1> HIDE DEF u
<1>6. u \in [lock_cnt : Nat, lock_samples : Nat, delock_samples : Nat,
             locked : BOOLEAN, lock_changed : BOOLEAN]
  BY <1>1 DEF LdRec
<1>7. w \in Detectors
  BY Zenon, <1>2, <1>6 DEF Detectors
<1>8. w.lock_cnt = u.lock_cnt /\ w.locked = u.locked
      /\ w.lock_samples = u.lock_samples /\ w.delock_samples = u.delock_samples
  BY <1>2, <1>6, Zenon
<1> HIDE DEF w
<1>9. ~ w.locked /\ d.locked => w.lock_cnt = 0
  BY <1>4, <1>5, <1>8, Zenon
<1> QED BY <1>1, <1>3, <1>4, <1>5, <1>7, <1>8, <1>9, Zenon DEF w

\* The frequency detector keeps its lock: its floor is above its ceiling.
LEMMA FreqSample ==
  ASSUME NEW d \in Detectors, NEW ok \in BOOLEAN,
         d.lock_samples = FreqLock, d.delock_samples = FreqDelock, d.lock_cnt <= FreqLock
  PROVE  LET w == ld_sample(d, ok)
         IN  /\ w \in Detectors /\ w.lock_samples = FreqLock /\ w.delock_samples = FreqDelock
             /\ w.lock_cnt <= FreqLock /\ (d.locked => w.locked)
BY SampleIs, FreqAssumption

\* The phase detector starts over when it loses its lock.
LEMMA PhaseSample ==
  ASSUME NEW d \in Detectors, NEW ok \in BOOLEAN
  PROVE  LET w == ld_sample(d, ok)
         IN  /\ w \in Detectors /\ w.lock_samples = d.lock_samples
             /\ ~ w.locked /\ d.locked => w.lock_cnt = 0
BY SampleIs

\* mpll_init's and ld_init's detectors.
LEMMA ConfigIs ==
  ASSUME NEW lock \in Nat, NEW delock \in Nat
  PROVE  /\ ld_config(lock, delock) \in Detectors /\ ld_config(lock, delock).lock_cnt = 0
         /\ ld_config(lock, delock).lock_samples = lock /\ ld_config(lock, delock).delock_samples = delock
BY DEF ld_config, Detectors

\* The detector of a stage that is being entered.
Entered(d, n) == [d EXCEPT !.lock_samples = n, !.lock_cnt = 0, !.lock_changed = FALSE, !.locked = FALSE]

\* The fields of such a detector.
LEMMA EnteredIs ==
  ASSUME NEW d \in Detectors, NEW n \in Nat
  PROVE  /\ Entered(d, n) \in Detectors /\ Entered(d, n).lock_samples = n
         /\ Entered(d, n).lock_cnt = 0 /\ Entered(d, n).locked = FALSE
<1>1. d \in [lock_cnt : Nat, lock_samples : Nat, delock_samples : Nat,
             locked : BOOLEAN, lock_changed : BOOLEAN] /\ 0 \in Nat
  BY DEF Detectors
<1>2. /\ Entered(d, n).lock_samples = n /\ Entered(d, n).lock_cnt = 0 /\ Entered(d, n).locked = FALSE
  BY <1>1, Zenon DEF Entered
<1>3. [d EXCEPT !.lock_samples = n, !.lock_cnt = 0] \in Detectors
  BY Zenon, <1>1 DEF Detectors
<1>4. PICK e \in Detectors : e = [d EXCEPT !.lock_samples = n, !.lock_cnt = 0]
  BY <1>3
<1>5. [e EXCEPT !.lock_changed = FALSE, !.locked = FALSE] \in Detectors
  BY Zenon DEF Detectors
<1>6. Entered(d, n) = [e EXCEPT !.lock_changed = FALSE, !.locked = FALSE]
  BY <1>4, Zenon DEF Entered
<1> QED BY <1>2, <1>5, <1>6

\* Stages and what they require.
LEMMA StagesAre ==
  /\ NStages \in Nat
  /\ NStages = 0 => KStages = {0} /\ Requirements[0] = PhaseLock
  /\ NStages # 0 => KStages = 0..NStages - 1 /\ Requirements = Stages
  /\ \A k \in KStages : Requirements[k] \in Nat
  /\ 0 \in KStages
<1>1. NStages \in Nat /\ PhaseLock \in Nat /\ (NStages > 0 => Stages \in [0..NStages-1 -> Nat \ {0}])
  BY StagesAssumption, MainAssumption
<1>2. CASE NStages = 0
  <2>1. Requirements = [k \in {0} |-> PhaseLock]
    BY <1>2 DEF Requirements
  <2> QED BY <1>1, <1>2, <2>1 DEF KStages
<1>3. CASE NStages # 0
  <2>1. Requirements = Stages /\ Stages \in [0..NStages-1 -> Nat \ {0}]
    BY <1>1, <1>3 DEF Requirements
  <2> QED BY <1>1, <1>3, <2>1 DEF KStages
<1> QED BY <1>2, <1>3

\* The schedule with its stage and its memory of the lock rewritten.
LEMMA ScheduleWrite ==
  ASSUME NEW g \in Schedules, NEW k \in KStages, NEW l \in BOOLEAN
  PROVE  /\ [g EXCEPT !.current_stage = k, !.locked_d = l] \in Schedules
         /\ [g EXCEPT !.current_stage = k, !.locked_d = l].current_stage = k
         /\ [g EXCEPT !.current_stage = k, !.locked_d = l].locked_d = l
         /\ [g EXCEPT !.locked_d = l] \in Schedules
         /\ [g EXCEPT !.locked_d = l].current_stage = g.current_stage
         /\ [g EXCEPT !.locked_d = l].locked_d = l
BY Zenon DEF Schedules

\* Entering a stage.
LEMMA EnterIs ==
  ASSUME NEW y, DOMAIN y = MainFields, y.gain_sched \in Schedules, NEW k
  PROVE  LET z == EnterStage(y, k)
         IN  /\ DOMAIN z = MainFields /\ z.enabled = y.enabled /\ z.ps_freeze = y.ps_freeze
             /\ z.freq_ld = y.freq_ld /\ z.phase_shift_current = y.phase_shift_current
             /\ z.phase_shift_target = y.phase_shift_target /\ z.locked = y.locked
             /\ z.phase_ld = Entered(y.phase_ld, Stages[k])
             /\ z.gain_sched = [y.gain_sched EXCEPT !.current_stage = k, !.locked_d = FALSE]
<1>0. y.gain_sched.stages = Stages /\ DOMAIN y.gain_sched = {"n_stages", "current_stage", "locked_d", "stages"}
  BY Zenon DEF Schedules
<1> QED BY <1>0, Zenon DEF EnterStage, MainFields, Entered

\* The fields that a gain schedule step leaves, and the three that it decides.
ScheduleLeaves(x, n) ==
  /\ DOMAIN n = MainFields /\ n.enabled = x.enabled /\ n.ps_freeze = x.ps_freeze
  /\ n.freq_ld = x.freq_ld /\ n.phase_shift_current = x.phase_shift_current
  /\ n.phase_shift_target = x.phase_shift_target

Scheduled(locked, pl, gs, n) ==
  /\ NStages = 0 => n.locked = pl.locked /\ n.phase_ld = pl /\ n.gain_sched = gs
  /\ NStages # 0 /\ gs.locked_d /\ ~ pl.locked =>
       /\ n.locked = FALSE /\ n.phase_ld = Entered(pl, Stages[0])
       /\ n.gain_sched = [gs EXCEPT !.current_stage = 0, !.locked_d = FALSE]
  /\ NStages # 0 /\ ~ gs.locked_d /\ pl.locked /\ gs.current_stage = NStages - 1 =>
       /\ n.locked = TRUE /\ n.phase_ld = pl /\ n.gain_sched = [gs EXCEPT !.locked_d = TRUE]
  /\ NStages # 0 /\ ~ gs.locked_d /\ pl.locked /\ gs.current_stage # NStages - 1 =>
       /\ n.locked = locked /\ n.phase_ld = Entered(pl, Stages[gs.current_stage + 1])
       /\ n.gain_sched = [gs EXCEPT !.current_stage = gs.current_stage + 1, !.locked_d = FALSE]
  /\ NStages # 0 /\ (gs.locked_d <=> pl.locked) =>
       /\ n.locked = locked /\ n.phase_ld = pl /\ n.gain_sched = [gs EXCEPT !.locked_d = pl.locked]

\* That is what mpll_handle_gain_schedule does.
LEMMA HandleIs ==
  ASSUME NEW x, DOMAIN x = MainFields, x.gain_sched \in Schedules, x.phase_ld \in Detectors
  PROVE  LET n == mpll_handle_gain_schedule(x)
         IN  ScheduleLeaves(x, n) /\ Scheduled(x.locked, x.phase_ld, x.gain_sched, n)
<1> DEFINE n  == mpll_handle_gain_schedule(x)
           gs == x.gain_sched
           cs == x.gain_sched.current_stage
           pl == x.phase_ld
<1>0. gs.n_stages = NStages /\ gs.stages = Stages /\ gs.locked_d \in BOOLEAN /\ pl.locked \in BOOLEAN
      /\ DOMAIN gs = {"n_stages", "current_stage", "locked_d", "stages"}
  BY Zenon DEF Schedules, Detectors
<1>1. CASE NStages = 0
  <2>1. n = [x EXCEPT !.locked = pl.locked]
    BY <1>0, <1>1, Zenon DEF mpll_handle_gain_schedule
  <2> HIDE DEF n
  <2>2. /\ DOMAIN n = MainFields /\ n.enabled = x.enabled /\ n.ps_freeze = x.ps_freeze
        /\ n.freq_ld = x.freq_ld /\ n.phase_shift_current = x.phase_shift_current
        /\ n.phase_shift_target = x.phase_shift_target
        /\ n.locked = pl.locked /\ n.phase_ld = pl /\ n.gain_sched = gs
    BY <2>1, Zenon DEF MainFields
  <2> QED BY <1>1, <2>2, Zenon DEF n, ScheduleLeaves, Scheduled
<1>2. CASE NStages # 0 /\ gs.locked_d /\ ~ pl.locked
  <2> DEFINE y == [x EXCEPT !.locked = FALSE]
  <2>1. n = EnterStage(y, 0)
    BY <1>0, <1>2, Zenon DEF mpll_handle_gain_schedule
  <2>2. /\ DOMAIN y = MainFields /\ y.enabled = x.enabled /\ y.ps_freeze = x.ps_freeze
        /\ y.freq_ld = x.freq_ld /\ y.phase_shift_current = x.phase_shift_current
        /\ y.phase_shift_target = x.phase_shift_target
        /\ y.locked = FALSE /\ y.phase_ld = pl /\ y.gain_sched = gs
    BY Zenon DEF MainFields
  <2> HIDE DEF y, n
  <2>3. /\ DOMAIN n = MainFields /\ n.enabled = x.enabled /\ n.ps_freeze = x.ps_freeze
        /\ n.freq_ld = x.freq_ld /\ n.phase_shift_current = x.phase_shift_current
        /\ n.phase_shift_target = x.phase_shift_target
        /\ n.locked = FALSE /\ n.phase_ld = Entered(pl, Stages[0])
        /\ n.gain_sched = [gs EXCEPT !.current_stage = 0, !.locked_d = FALSE]
    <3>1. LET z == EnterStage(y, 0)
          IN  /\ DOMAIN z = MainFields /\ z.enabled = y.enabled /\ z.ps_freeze = y.ps_freeze
              /\ z.freq_ld = y.freq_ld /\ z.phase_shift_current = y.phase_shift_current
              /\ z.phase_shift_target = y.phase_shift_target /\ z.locked = y.locked
              /\ z.phase_ld = Entered(y.phase_ld, Stages[0])
              /\ z.gain_sched = [y.gain_sched EXCEPT !.current_stage = 0, !.locked_d = FALSE]
      BY <2>2, EnterIs, ZenonT(60)
    <3> QED BY <2>1, <2>2, <3>1, Zenon
  <2> QED BY <1>2, <2>3, Zenon DEF n, ScheduleLeaves, Scheduled
<1>3. CASE NStages # 0 /\ ~ gs.locked_d /\ pl.locked /\ cs = NStages - 1
  <2>1. n = [x EXCEPT !.locked = TRUE, !.gain_sched.locked_d = TRUE]
    BY <1>0, <1>3, Zenon DEF mpll_handle_gain_schedule
  <2> HIDE DEF n
  <2>2. /\ DOMAIN n = MainFields /\ n.enabled = x.enabled /\ n.ps_freeze = x.ps_freeze
        /\ n.freq_ld = x.freq_ld /\ n.phase_shift_current = x.phase_shift_current
        /\ n.phase_shift_target = x.phase_shift_target
        /\ n.locked = TRUE /\ n.phase_ld = pl /\ n.gain_sched = [gs EXCEPT !.locked_d = TRUE]
    BY <2>1, Zenon DEF MainFields
  <2> QED BY <1>3, <2>2, Zenon DEF n, ScheduleLeaves, Scheduled
<1>4. CASE NStages # 0 /\ ~ gs.locked_d /\ pl.locked /\ cs # NStages - 1
  <2>1. n = EnterStage(x, cs + 1)
    BY <1>0, <1>4, Zenon DEF mpll_handle_gain_schedule
  <2> HIDE DEF n
  <2>2. /\ DOMAIN n = MainFields /\ n.enabled = x.enabled /\ n.ps_freeze = x.ps_freeze
        /\ n.freq_ld = x.freq_ld /\ n.phase_shift_current = x.phase_shift_current
        /\ n.phase_shift_target = x.phase_shift_target
        /\ n.locked = x.locked /\ n.phase_ld = Entered(pl, Stages[cs + 1])
        /\ n.gain_sched = [gs EXCEPT !.current_stage = cs + 1, !.locked_d = FALSE]
    <3>1. LET z == EnterStage(x, cs + 1)
          IN  /\ DOMAIN z = MainFields /\ z.enabled = x.enabled /\ z.ps_freeze = x.ps_freeze
              /\ z.freq_ld = x.freq_ld /\ z.phase_shift_current = x.phase_shift_current
              /\ z.phase_shift_target = x.phase_shift_target /\ z.locked = x.locked
              /\ z.phase_ld = Entered(x.phase_ld, Stages[cs + 1])
              /\ z.gain_sched = [x.gain_sched EXCEPT !.current_stage = cs + 1, !.locked_d = FALSE]
      BY EnterIs, Zenon
    <3> QED BY <2>1, <3>1, Zenon
  <2> QED BY <1>4, <2>2, Zenon DEF n, ScheduleLeaves, Scheduled
<1>5. CASE NStages # 0 /\ (gs.locked_d <=> pl.locked)
  <2>1. n = [x EXCEPT !.gain_sched.locked_d = pl.locked]
    BY <1>0, <1>5, Zenon DEF mpll_handle_gain_schedule
  <2> HIDE DEF n
  <2>2. /\ DOMAIN n = MainFields /\ n.enabled = x.enabled /\ n.ps_freeze = x.ps_freeze
        /\ n.freq_ld = x.freq_ld /\ n.phase_shift_current = x.phase_shift_current
        /\ n.phase_shift_target = x.phase_shift_target
        /\ n.locked = x.locked /\ n.phase_ld = pl /\ n.gain_sched = [gs EXCEPT !.locked_d = pl.locked]
    BY <2>1, Zenon DEF MainFields
  <2> QED BY <1>5, <2>2, Zenon DEF n, ScheduleLeaves, Scheduled
<1> QED BY <1>0, <1>1, <1>2, <1>3, <1>4, <1>5, Zenon

\* The phase shifter's position after a pair.
Shifted(x) ==
  IF x.locked /\ ~ x.ps_freeze
  THEN IF x.phase_shift_current < x.phase_shift_target THEN x.phase_shift_current + 1
       ELSE IF x.phase_shift_current > x.phase_shift_target THEN x.phase_shift_current - 1
       ELSE x.phase_shift_current
  ELSE x.phase_shift_current

\* ShiftPhase changes that field only.
LEMMA ShifterIs ==
  ASSUME NEW x, DOMAIN x = MainFields
  PROVE  LET n == ShiftPhase(x)
         IN  /\ DOMAIN n = MainFields /\ n.enabled = x.enabled /\ n.locked = x.locked
             /\ n.freq_ld = x.freq_ld /\ n.phase_ld = x.phase_ld /\ n.gain_sched = x.gain_sched
             /\ n.ps_freeze = x.ps_freeze /\ n.phase_shift_target = x.phase_shift_target
             /\ n.phase_shift_current = Shifted(x)
<1>1. CASE x.locked /\ ~ x.ps_freeze
  <2> DEFINE v == IF x.phase_shift_current < x.phase_shift_target THEN x.phase_shift_current + 1
                  ELSE IF x.phase_shift_current > x.phase_shift_target THEN x.phase_shift_current - 1
                  ELSE x.phase_shift_current
  <2>1. ShiftPhase(x) = [x EXCEPT !.phase_shift_current = v] /\ Shifted(x) = v
    BY <1>1, Zenon DEF ShiftPhase, Shifted
  <2> HIDE DEF v
  <2> QED BY <2>1, Zenon DEF MainFields
<1>2. CASE ~ (x.locked /\ ~ x.ps_freeze)
  <2>1. ShiftPhase(x) = x /\ Shifted(x) = x.phase_shift_current
    BY <1>2, Zenon DEF ShiftPhase, Shifted
  <2> QED BY <2>1, Zenon
<1> QED BY <1>1, <1>2, Zenon

\* One pair of tags up to the schedule: the frequency detector takes its sample,
\* the shifter its step and, with the frequency locked, the phase detector its.
PairLeaves(x, y, fl, pl) ==
  /\ DOMAIN y = MainFields /\ y.enabled = x.enabled /\ y.locked = x.locked /\ y.freq_ld = fl
  /\ y.phase_ld = pl /\ y.gain_sched = x.gain_sched /\ y.ps_freeze = x.ps_freeze
  /\ y.phase_shift_target = x.phase_shift_target /\ y.phase_shift_current = Shifted(x)

\* What mpll_pair hands to the schedule.
LEMMA PairIs ==
  ASSUME NEW x, MainShape(x), NEW f \in BOOLEAN, NEW p \in BOOLEAN
  PROVE  LET n  == mpll_pair(x, f, p)
             fl == ld_sample(x.freq_ld, f)
             pl == ld_sample(x.phase_ld, p)
         IN  /\ fl.locked => \E y : n = mpll_handle_gain_schedule(y) /\ PairLeaves(x, y, fl, pl)
             /\ ~ fl.locked => PairLeaves(x, n, fl, x.phase_ld)
<1> DEFINE fl == ld_sample(x.freq_ld, f)
           x0 == [x EXCEPT !.freq_ld = fl, !.tag_ref = FALSE, !.tag_out = FALSE]
           x1 == ShiftPhase(x0)
           y  == [x1 EXCEPT !.phase_ld = ld_sample(x1.phase_ld, p)]
           n  == mpll_pair(x, f, p)
<1>1. n = IF x1.freq_ld.locked THEN mpll_handle_gain_schedule(y) ELSE x1
  BY Zenon DEF mpll_pair
<1>2. /\ DOMAIN x0 = MainFields /\ x0.enabled = x.enabled /\ x0.locked = x.locked
      /\ x0.freq_ld = fl /\ x0.phase_ld = x.phase_ld /\ x0.gain_sched = x.gain_sched
      /\ x0.ps_freeze = x.ps_freeze /\ x0.phase_shift_target = x.phase_shift_target
      /\ x0.phase_shift_current = x.phase_shift_current
  BY Zenon DEF MainShape, MainFields
<1> HIDE DEF x0
<1>3. Shifted(x0) = Shifted(x)
  BY <1>2, Zenon DEF Shifted
<1>4. /\ DOMAIN x1 = MainFields /\ x1.enabled = x.enabled /\ x1.locked = x.locked
      /\ x1.freq_ld = fl /\ x1.phase_ld = x.phase_ld /\ x1.gain_sched = x.gain_sched
      /\ x1.ps_freeze = x.ps_freeze /\ x1.phase_shift_target = x.phase_shift_target
      /\ x1.phase_shift_current = Shifted(x)
  BY <1>2, <1>3, ShifterIs, Zenon
<1> HIDE DEF x1, fl
<1>5. /\ DOMAIN y = MainFields /\ y.enabled = x.enabled /\ y.locked = x.locked /\ y.freq_ld = fl
      /\ y.phase_ld = ld_sample(x.phase_ld, p) /\ y.gain_sched = x.gain_sched /\ y.ps_freeze = x.ps_freeze
      /\ y.phase_shift_target = x.phase_shift_target /\ y.phase_shift_current = Shifted(x)
  BY <1>4, Zenon DEF MainFields
<1> HIDE DEF y, n
<1>6. ASSUME fl.locked PROVE n = mpll_handle_gain_schedule(y)
  BY <1>1, <1>4, <1>6, Zenon
<1>7. ASSUME ~ fl.locked PROVE n = x1
  BY <1>1, <1>4, <1>7, Zenon
<1>8. PairLeaves(x, y, fl, ld_sample(x.phase_ld, p)) /\ PairLeaves(x, x1, fl, x.phase_ld)
  BY <1>4, <1>5, Zenon DEF PairLeaves
<1> QED BY <1>6, <1>7, <1>8, Zenon DEF n, fl
-----------------------------------------------------------------------------
\* The part of the invariant that a running PLL has to keep.
Running(x, w) ==
  /\ x.phase_ld.lock_samples = Requirements[StageOf(x)]
  /\ x.locked = x.phase_ld.locked /\ (NStages > 0 => x.gain_sched.locked_d = x.locked)
  /\ x.locked => x.freq_ld.locked /\ StageOf(x) = LastStage
  /\ w[StageOf(x)] >= x.phase_ld.lock_cnt
  /\ \A k \in KStages : k < StageOf(x) \/ x.locked => w[k] >= Requirements[k]

\* The invariant, in these terms.
LEMMA InvIs ==
  MainInv <=> /\ MainShape(m) /\ seen \in [KStages -> Nat]
              /\ m.freq_ld.lock_samples = FreqLock /\ m.freq_ld.delock_samples = FreqDelock
              /\ m.freq_ld.lock_cnt <= FreqLock
              /\ NStages = 0 => m.phase_ld.lock_samples = PhaseLock
              /\ m.enabled => Running(m, seen)
BY DEF MainInv, MainTypeOK, Running

\* The same after a step.
LEMMA InvNextIs ==
  MainInv' <=> /\ MainShape(m)' /\ seen' \in [KStages -> Nat]
               /\ m'.freq_ld.lock_samples = FreqLock /\ m'.freq_ld.delock_samples = FreqDelock
               /\ m'.freq_ld.lock_cnt <= FreqLock
               /\ NStages = 0 => m'.phase_ld.lock_samples = PhaseLock
               /\ m'.enabled => Running(m', seen')
BY DEF MainInv, MainTypeOK, Running, StageOf

\* A step that leaves the detectors, the lock and the schedule alone.
LEMMA KeepsInv ==
  ASSUME MainInv, MainShape(m)', seen' = seen, m'.enabled => m.enabled,
         m'.locked = m.locked, m'.freq_ld = m.freq_ld, m'.phase_ld = m.phase_ld,
         m'.gain_sched = m.gain_sched
  PROVE  MainInv'
<1>1. Running(m, seen) => Running(m', seen')
  BY Zenon DEF Running, StageOf
<1> QED BY <1>1, InvIs, InvNextIs, Zenon

\* The counts after a pair: those of the stage go up with every good sample, and
\* all start over when the lock is lost.
Counted(w, k, ok) == IF ok /\ w[k] < Requirements[k] THEN [w EXCEPT ![k] = @ + 1] ELSE w
SeenAfter(x, n, w, ok) ==
  IF x.locked /\ ~ n.locked THEN Fresh ELSE Counted(w, StageOf(x), n.freq_ld.locked /\ ok)

\* The two writes of a stage, by the record that holds their result.
LEMMA EnteredAs ==
  ASSUME NEW d, d \in Detectors, NEW r, r \in Nat, NEW x, x = Entered(d, r)
  PROVE  x \in Detectors /\ x.lock_samples = r /\ x.lock_cnt = 0 /\ ~ x.locked
<1>1. /\ Entered(d, r) \in Detectors /\ Entered(d, r).lock_samples = r
      /\ Entered(d, r).lock_cnt = 0 /\ Entered(d, r).locked = FALSE
  BY Zenon, EnteredIs
<1> QED BY <1>1, Zenon

\* A schedule that goes to another stage.
LEMMA ScheduleAs ==
  ASSUME NEW g, g \in Schedules, NEW k, k \in KStages, NEW x,
         x = [g EXCEPT !.current_stage = k, !.locked_d = FALSE]
  PROVE  x \in Schedules /\ x.current_stage = k /\ ~ x.locked_d
BY Zenon DEF Schedules

\* A schedule that takes note of a lock.
LEMMA FollowAs ==
  ASSUME NEW g, g \in Schedules, NEW l, l \in BOOLEAN, NEW x, x = [g EXCEPT !.locked_d = l]
  PROVE  x \in Schedules /\ x.current_stage = g.current_stage /\ x.locked_d = l
BY DEF Schedules

\* The history counts at least what the detector does.
LEMMA CountedIs ==
  ASSUME NEW w \in [KStages -> Nat], NEW k \in KStages, NEW p \in BOOLEAN, NEW d \in Detectors,
         w[k] >= d.lock_cnt, d.lock_samples = Requirements[k],
         NEW t, t = Counted(w, k, p)
  PROVE  /\ t \in [KStages -> Nat] /\ t[k] >= ld_sample(d, p).lock_cnt
         /\ \A j \in KStages : t[j] >= w[j]
         /\ ld_sample(d, p).locked /\ ~ d.locked => t[k] >= Requirements[k]
<1>0. Requirements[k] \in Nat /\ w[k] \in Nat /\ \A j \in KStages : w[j] \in Nat
  BY StagesAre
<1>1. PICK e \in Detectors : e = ld_sample(d, p)
  BY SampleIs
<1>2. /\ p => /\ e.lock_cnt = IF d.lock_cnt < d.lock_samples THEN d.lock_cnt + 1 ELSE d.lock_cnt
              /\ e.locked <=> (d.locked \/ e.lock_cnt = d.lock_samples)
      /\ ~ p => e.lock_cnt <= d.lock_cnt /\ (e.locked => d.locked)
  BY <1>1, SampleIs
<1>3. d.lock_cnt \in Nat /\ e.lock_cnt \in Nat
  BY DEF Detectors
<1>4. CASE p /\ w[k] < Requirements[k]
  <2>1. t = [w EXCEPT ![k] = w[k] + 1]
    BY <1>4 DEF Counted
  <2>2. t \in [KStages -> Nat] /\ t[k] = w[k] + 1 /\ \A j \in KStages : j # k => t[j] = w[j]
    BY <1>0, <2>1
  <2>3. \A j \in KStages : t[j] >= w[j]
    BY <1>0, <2>2
  <2>4. t[k] >= e.lock_cnt
    <3>1. e.lock_cnt <= d.lock_cnt + 1
      BY <1>2, <1>3, <1>4
    <3> QED BY <1>0, <1>3, <2>2, <3>1
  <2>5. e.locked /\ ~ d.locked => t[k] >= Requirements[k]
    BY Zenon, <1>0, <1>2, <1>3, <1>4, <2>2, <2>4
  <2> QED BY <1>1, <2>2, <2>3, <2>4, <2>5
<1>5. CASE ~ (p /\ w[k] < Requirements[k])
  <2>1. t = w
    BY <1>5 DEF Counted
  <2>2. t[k] >= e.lock_cnt
    <3>1. CASE p
      BY <1>0, <1>2, <1>3, <1>5, <2>1, <3>1
    <3>2. CASE ~ p
      BY <1>0, <1>2, <1>3, <2>1, <3>2
    <3> QED BY <3>1, <3>2
  <2>3. e.locked /\ ~ d.locked => t[k] >= Requirements[k]
    BY SMTT(30), <1>0, <1>2, <1>5, <2>1
  <2> QED BY <1>0, <1>1, <2>1, <2>2, <2>3
<1> QED BY <1>4, <1>5

\* What a pair of tags does to a running PLL.  The frequency detector never loses a
\* lock, so a PLL that is locked goes on to its phase detector.
LEMMA PairRuns ==
  ASSUME MainInv, m.enabled, NEW f \in BOOLEAN, NEW p \in BOOLEAN, NEW n, n = mpll_pair(m, f, p),
         NEW t, t = SeenAfter(m, n, seen, p)
  PROVE  /\ MainShape(n) /\ t \in [KStages -> Nat] /\ n.enabled
         /\ n.freq_ld.lock_samples = FreqLock /\ n.freq_ld.delock_samples = FreqDelock
         /\ n.freq_ld.lock_cnt <= FreqLock
         /\ NStages = 0 => n.phase_ld.lock_samples = PhaseLock
         /\ Running(n, t)
         /\ n.phase_shift_target = m.phase_shift_target /\ n.phase_shift_current = Shifted(m)
<1> DEFINE fl == ld_sample(m.freq_ld, f)
           pl == ld_sample(m.phase_ld, p)
           gs == m.gain_sched
           k  == StageOf(m)
<1>0. /\ MainShape(m) /\ seen \in [KStages -> Nat] /\ Running(m, seen)
      /\ m.freq_ld.lock_samples = FreqLock /\ m.freq_ld.delock_samples = FreqDelock
      /\ m.freq_ld.lock_cnt <= FreqLock /\ (NStages = 0 => m.phase_ld.lock_samples = PhaseLock)
  BY InvIs
<1>1. /\ DOMAIN m = MainFields /\ m.enabled \in BOOLEAN /\ m.locked \in BOOLEAN /\ m.ps_freeze \in BOOLEAN
      /\ m.freq_ld \in Detectors /\ m.phase_ld \in Detectors /\ gs \in Schedules
      /\ m.phase_shift_current \in Int /\ m.phase_shift_target \in Int
  BY <1>0, Zenon DEF MainShape
<1>2. FreqLock \in Nat /\ FreqLock < FreqDelock /\ NStages \in Nat /\ PhaseLock \in Nat /\ FreqDelock \in Nat
  BY MainAssumption, FreqAssumption, StagesAssumption
<1>3. /\ fl \in Detectors /\ fl.lock_samples = FreqLock /\ fl.delock_samples = FreqDelock
      /\ fl.lock_cnt <= FreqLock /\ (m.freq_ld.locked => fl.locked)
  BY <1>0, <1>1, FreqSample, Zenon
<1>4. /\ pl \in Detectors /\ pl.lock_samples = m.phase_ld.lock_samples
      /\ ~ pl.locked /\ m.phase_ld.locked => pl.lock_cnt = 0
  BY <1>1, PhaseSample, Zenon
<1>k. k \in KStages /\ k = gs.current_stage /\ gs.locked_d \in BOOLEAN /\ pl.locked \in BOOLEAN /\ pl.lock_cnt \in Nat
  BY <1>1, <1>4, Zenon DEF StageOf, Schedules, Detectors
<1>5. Shifted(m) \in Int
  BY SMTT(30), <1>1 DEF Shifted
<1>6. PICK u : /\ u = Counted(seen, k, p)
               /\ u \in [KStages -> Nat] /\ u[k] >= pl.lock_cnt
               /\ \A j \in KStages : u[j] >= seen[j]
               /\ pl.locked /\ ~ m.phase_ld.locked => u[k] >= Requirements[k]
  BY <1>0, <1>1, <1>k, CountedIs DEF Running
<1>7. PICK shift \in Int : shift = Shifted(m)
  BY <1>5
<1> HIDE DEF fl, pl
<1>8. CASE ~ fl.locked
  <2>1. PairLeaves(m, n, fl, m.phase_ld)
    BY <1>0, <1>8, PairIs, Zenon DEF fl
  <2>2. ~ m.locked
    BY <1>0, <1>3, <1>8, Zenon DEF Running
  <2>3. t = seen
    BY <1>8, <2>1, <2>2, Zenon DEF SeenAfter, Counted, PairLeaves
  <2>4. MainShape(n)
    BY <1>1, <1>3, <1>7, <2>1, Zenon DEF MainShape, PairLeaves
  <2>5. Running(n, t)
    BY <1>0, <2>1, <2>2, <2>3, Zenon DEF Running, StageOf, PairLeaves
  <2> QED BY <1>0, <1>3, <2>1, <2>3, <2>4, <2>5, Zenon DEF PairLeaves
<1>9. CASE fl.locked
  <2>1. PICK y : n = mpll_handle_gain_schedule(y) /\ PairLeaves(m, y, fl, pl)
    BY <1>0, <1>9, PairIs, Zenon DEF fl, pl
  <2>2. ScheduleLeaves(y, n) /\ Scheduled(y.locked, y.phase_ld, y.gain_sched, n)
    <3>1. DOMAIN y = MainFields /\ y.gain_sched \in Schedules /\ y.phase_ld \in Detectors
      BY <1>1, <1>4, <2>1, Zenon DEF PairLeaves
    <3> QED BY <2>1, <3>1, HandleIs, Zenon
  <2>a. /\ DOMAIN n = MainFields /\ n.enabled = m.enabled /\ n.ps_freeze = m.ps_freeze /\ n.freq_ld = fl
        /\ n.phase_shift_current = Shifted(m) /\ n.phase_shift_target = m.phase_shift_target
    BY <2>1, <2>2, Zenon DEF ScheduleLeaves, PairLeaves
  <2>3. Scheduled(m.locked, pl, gs, n)
    BY <2>1, <2>2, Zenon DEF PairLeaves
  <2>4. t = IF m.locked /\ ~ n.locked THEN Fresh ELSE u
    <3>1. (n.freq_ld.locked /\ p) = p
      BY <1>9, <2>a, Zenon
    <3> QED BY <1>6, <3>1, Zenon DEF SeenAfter
  <2>f. Fresh \in [KStages -> Nat] /\ \A j \in KStages : Fresh[j] = 0
    BY DEF Fresh
  <2>5. t \in [KStages -> Nat]
    BY <1>6, <2>4, <2>f
  <2>6. ASSUME n.locked \in BOOLEAN, n.phase_ld \in Detectors, n.gain_sched \in Schedules,
               Running(n, t), NStages = 0 => n.phase_ld.lock_samples = PhaseLock
        PROVE  /\ MainShape(n) /\ t \in [KStages -> Nat] /\ n.enabled
               /\ n.freq_ld.lock_samples = FreqLock /\ n.freq_ld.delock_samples = FreqDelock
               /\ n.freq_ld.lock_cnt <= FreqLock
               /\ NStages = 0 => n.phase_ld.lock_samples = PhaseLock
               /\ Running(n, t)
               /\ n.phase_shift_target = m.phase_shift_target /\ n.phase_shift_current = Shifted(m)
    <3>1. MainShape(n)
      BY <1>1, <1>3, <1>7, <2>a, <2>6, Zenon DEF MainShape
    <3> QED BY <1>3, <2>a, <2>5, <2>6, <3>1, Zenon
  <2>r. /\ m.locked = m.phase_ld.locked /\ (NStages # 0 => gs.locked_d = m.locked)
        /\ (m.locked => k = LastStage) /\ m.phase_ld.lock_samples = Requirements[k]
        /\ \A j \in KStages : j < k \/ m.locked => seen[j] >= Requirements[j]
    BY SMTT(30), <1>0, <1>2 DEF Running
  <2>s. /\ \A j \in KStages : Requirements[j] \in Nat /\ seen[j] \in Nat /\ u[j] \in Nat /\ j \in Nat
        /\ 0 \in KStages /\ k \in Nat
        /\ NStages = 0 => KStages = {0} /\ LastStage = 0
        /\ NStages # 0 => KStages = 0..NStages - 1 /\ LastStage = NStages - 1 /\ Requirements = Stages
    BY SMTT(30), <1>0, <1>2, <1>6, <1>k, StagesAre DEF LastStage
  <2>u. \A j \in KStages : j < k \/ m.locked => u[j] >= Requirements[j]
    BY SMTT(30), <1>6, <2>r, <2>s
  <2>7. CASE NStages = 0
    <3>1. n.locked = pl.locked /\ n.phase_ld = pl /\ n.gain_sched = gs /\ StageOf(n) = k /\ k = 0
      BY <1>k, <2>3, <2>7, <2>s, ZenonT(60) DEF Scheduled, StageOf
    <3>2. t[k] >= pl.lock_cnt /\ \A j \in KStages : n.locked => t[j] >= Requirements[j]
      <4>1. CASE m.locked /\ ~ n.locked
        <5>1. pl.lock_cnt = 0
          BY <1>4, <2>r, <3>1, <4>1, Zenon
        <5> QED BY <1>k, <2>4, <2>f, <4>1, <5>1
      <4>2. CASE ~ (m.locked /\ ~ n.locked)
        <5>1. t = u
          BY <2>4, <4>2
        <5>2. n.locked => u[0] >= Requirements[0]
          BY <1>6, <2>r, <2>s, <2>u, <3>1, Zenon
        <5> QED BY <1>6, <2>7, <2>s, <3>1, <5>1, <5>2
      <4> QED BY <4>1, <4>2
    <3>3. \A j \in KStages : ~ (j < k)
      BY SMTT(30), <2>7, <2>s, <3>1
    <3>4. Running(n, t)
      BY <1>2, <1>9, <1>4, <2>7, <2>a, <2>r, <2>s, <3>1, <3>2, <3>3 DEF Running
    <3> QED BY <1>0, <1>1, <1>4, <1>k, <2>6, <3>1, <3>4, Zenon
  <2>8. CASE NStages # 0 /\ gs.locked_d /\ ~ pl.locked
    <3>1. /\ n.locked = FALSE /\ n.phase_ld = Entered(pl, Stages[0])
          /\ n.gain_sched = [gs EXCEPT !.current_stage = 0, !.locked_d = FALSE]
      BY <2>3, <2>8, Zenon DEF Scheduled
    <3>2. /\ n.phase_ld \in Detectors /\ n.phase_ld.lock_samples = Stages[0]
          /\ n.phase_ld.lock_cnt = 0 /\ ~ n.phase_ld.locked
      <4>1. PICK r \in Nat : r = Stages[0]
        BY <2>8, <2>s, Zenon
      <4>2. PICK d \in Detectors : d = pl
        BY <1>4
      <4>3. n.phase_ld = Entered(d, r)
        BY <3>1, <4>1, <4>2, Zenon
      <4>4. n.phase_ld \in Detectors /\ n.phase_ld.lock_samples = r /\ n.phase_ld.lock_cnt = 0 /\ ~ n.phase_ld.locked
        BY <4>3, EnteredAs, Zenon
      <4> QED BY <4>1, <4>4, Zenon
    <3>3. n.gain_sched \in Schedules /\ StageOf(n) = 0 /\ ~ n.gain_sched.locked_d
      <4>1. gs \in Schedules /\ 0 \in KStages /\ FALSE \in BOOLEAN
        BY <1>1, <2>s
      <4>2. n.gain_sched = [gs EXCEPT !.current_stage = 0, !.locked_d = FALSE]
        BY <3>1
      <4> QED BY <4>1, <4>2, ScheduleAs, Zenon DEF StageOf
    <3>4. t = Fresh
      BY <2>4, <2>8, <2>r, <3>1, Zenon
    <3>5. \A j \in KStages : ~ (j < 0)
      BY <2>s
    <3>6. Running(n, t)
      <4>1. t[0] >= 0
        BY <2>f, <2>s, <3>4
      <4>2. n.phase_ld.lock_samples = Requirements[0]
        BY <2>8, <2>s, <3>2, Zenon
      <4>3. n.locked = n.phase_ld.locked /\ n.gain_sched.locked_d = n.locked
        <5>1. n.phase_ld.locked \in BOOLEAN /\ n.gain_sched.locked_d \in BOOLEAN
          BY <3>2, <3>3, Zenon DEF Detectors, Schedules
        <5> QED BY Zenon, <3>1, <3>2, <3>3, <5>1
      <4>4. ~ n.locked
        BY <3>1
      <4>5. StageOf(n) = 0 /\ n.phase_ld.lock_cnt = 0
        BY <3>2, <3>3
      <4> QED BY <3>5, <4>1, <4>2, <4>3, <4>4, <4>5, Zenon DEF Running
    <3>7. n.locked \in BOOLEAN
      BY Zenon, <3>1
    <3> QED BY <2>6, <2>8, <3>2, <3>3, <3>6, <3>7, Zenon
  <2>9. CASE NStages # 0 /\ ~ gs.locked_d /\ pl.locked /\ gs.current_stage = NStages - 1
    <3>1. n.locked = TRUE /\ n.phase_ld = pl /\ n.gain_sched = [gs EXCEPT !.locked_d = TRUE]
      BY <2>3, <2>9, Zenon DEF Scheduled
    <3>2. n.gain_sched \in Schedules /\ StageOf(n) = k /\ n.gain_sched.locked_d = TRUE
      <4>1. gs \in Schedules /\ TRUE \in BOOLEAN
        BY <1>1
      <4>2. /\ [gs EXCEPT !.locked_d = TRUE] \in Schedules
            /\ [gs EXCEPT !.locked_d = TRUE].current_stage = gs.current_stage
            /\ [gs EXCEPT !.locked_d = TRUE].locked_d = TRUE
        BY <1>k, <4>1, ScheduleWrite, Zenon
      <4> QED BY <1>k, <3>1, <4>2, Zenon DEF StageOf
    <3>3. t = u
      BY <2>4, <3>1, Zenon
    <3>4. u[k] >= Requirements[k]
      BY <1>6, <2>9, <2>r, Zenon
    <3>5. \A j \in KStages : t[j] >= Requirements[j]
      <4>1. \A j \in KStages : j = k \/ j < k
        BY <1>2, <1>k, <2>9, <2>s
      <4> QED BY SMTT(30), <2>u, <3>3, <3>4, <4>1
    <3>6. Running(n, t)
      BY ZenonT(60), <1>4, <1>6, <1>9, <1>k, <2>9, <2>a, <2>r, <2>s, <3>1, <3>2, <3>3, <3>5 DEF Running
    <3> QED BY <1>4, <2>6, <2>9, <3>1, <3>2, <3>6, Zenon
  <2>10. CASE NStages # 0 /\ ~ gs.locked_d /\ pl.locked /\ gs.current_stage # NStages - 1
    <3>0. k + 1 \in KStages /\ \A j \in KStages : j < k + 1 => j < k \/ j = k
      BY <1>2, <1>k, <2>10, <2>s
    <3>1. /\ n.locked = m.locked /\ n.phase_ld = Entered(pl, Stages[k + 1])
          /\ n.gain_sched = [gs EXCEPT !.current_stage = k + 1, !.locked_d = FALSE]
      BY <1>k, <2>3, <2>10, Zenon DEF Scheduled
    <3>2. /\ n.phase_ld \in Detectors /\ n.phase_ld.lock_samples = Stages[k + 1]
          /\ n.phase_ld.lock_cnt = 0 /\ ~ n.phase_ld.locked
      <4>1. PICK r \in Nat : r = Stages[k + 1]
        BY <2>10, <2>s, <3>0, Zenon
      <4>2. PICK d \in Detectors : d = pl
        BY <1>4
      <4>3. n.phase_ld = Entered(d, r)
        BY <3>1, <4>1, <4>2, Zenon
      <4>4. n.phase_ld \in Detectors /\ n.phase_ld.lock_samples = r /\ n.phase_ld.lock_cnt = 0 /\ ~ n.phase_ld.locked
        BY <4>3, EnteredAs, Zenon
      <4> QED BY <4>1, <4>4, Zenon
    <3>3. n.gain_sched \in Schedules /\ StageOf(n) = k + 1 /\ ~ n.gain_sched.locked_d
      <4>1. gs \in Schedules /\ k + 1 \in KStages /\ FALSE \in BOOLEAN
        BY <1>1, <3>0
      <4>2. n.gain_sched = [gs EXCEPT !.current_stage = k + 1, !.locked_d = FALSE]
        BY <3>1
      <4> QED BY <4>1, <4>2, ScheduleAs, Zenon DEF StageOf
    <3>4. m.locked = FALSE /\ t = u /\ u[k] >= Requirements[k]
      BY <1>1, <1>6, <2>4, <2>10, <2>r, Zenon
    <3>5. \A j \in KStages : j < k + 1 => t[j] >= Requirements[j]
      BY <2>u, <3>0, <3>4
    <3>6. Running(n, t)
      <4>1. t[k + 1] >= 0
        BY <2>s, <3>0, <3>4
      <4>2. n.phase_ld.lock_samples = Requirements[k + 1]
        BY <2>10, <2>s, <3>2, Zenon
      <4>3. n.locked = n.phase_ld.locked /\ n.gain_sched.locked_d = n.locked
        <5>1. n.phase_ld.locked \in BOOLEAN /\ n.gain_sched.locked_d \in BOOLEAN
          BY <3>2, <3>3, Zenon DEF Detectors, Schedules
        <5> QED BY Zenon, <3>1, <3>2, <3>3, <3>4, <5>1
      <4>4. ~ n.locked
        BY SMTT(30), <3>1, <3>4
      <4>5. StageOf(n) = k + 1 /\ n.phase_ld.lock_cnt = 0
        BY <3>2, <3>3
      <4> QED BY <3>5, <4>1, <4>2, <4>3, <4>4, <4>5, Zenon DEF Running
    <3> QED BY <2>6, <2>10, <3>1, <3>2, <3>3, <3>4, <3>6, Zenon
  <2>11. CASE NStages # 0 /\ (gs.locked_d <=> pl.locked)
    <3>1. n.locked = m.locked /\ n.phase_ld = pl /\ n.gain_sched = [gs EXCEPT !.locked_d = pl.locked]
      BY <2>3, <2>11, Zenon DEF Scheduled
    <3>2. n.gain_sched \in Schedules /\ StageOf(n) = k /\ n.gain_sched.locked_d = pl.locked
      <4>1. gs \in Schedules /\ pl.locked \in BOOLEAN /\ k \in KStages
        BY <1>1, <1>k
      <4>2. PICK l \in BOOLEAN : l = pl.locked
        BY <4>1
      <4>3. n.gain_sched = [gs EXCEPT !.locked_d = l]
        BY <3>1, <4>2, Zenon
      <4>4. n.gain_sched \in Schedules /\ n.gain_sched.current_stage = gs.current_stage /\ n.gain_sched.locked_d = l
        BY <4>1, <4>3, FollowAs
      <4> QED BY <1>k, <4>2, <4>4, Zenon DEF StageOf
    <3>3. t = u
      BY <2>4, <3>1, Zenon
    <3>4. pl.locked = m.locked
      BY <1>k, <2>11, <2>r
    <3>5. Running(n, t)
      BY <1>4, <1>6, <1>9, <1>k, <2>11, <2>a, <2>r, <2>u, <3>1, <3>2, <3>3, <3>4 DEF Running
    <3> QED BY <1>1, <1>4, <2>6, <2>11, <3>1, <3>2, <3>5, Zenon
  <2> QED BY <1>k, <2>7, <2>8, <2>9, <2>10, <2>11, Zenon
<1> QED BY SMTT(30), <1>8, <1>9

-----------------------------------------------------------------------------

\* Rewinding the schedule.
LEMMA RewindIs ==
  ASSUME NEW g, g \in Schedules
  PROVE  /\ RewindSchedule(g) \in Schedules /\ RewindSchedule(g).current_stage = 0
         /\ ~ RewindSchedule(g).locked_d
<1>1. 0 \in KStages
  BY StagesAre
<1> QED BY <1>1, ScheduleAs, Zenon DEF RewindSchedule

\* mpll_init configures both detectors and disables the PLL.
LEMMA InitIs ==
  ASSUME NEW x, DOMAIN x = MainFields, x.locked \in BOOLEAN, x.gain_sched \in Schedules,
         x.phase_shift_current \in Int, x.phase_shift_target \in Int,
         NEW n, n = mpll_init(x, REF, OUT)
  PROVE  /\ MainShape(n) /\ ~ n.enabled
         /\ n.freq_ld.lock_samples = FreqLock /\ n.freq_ld.delock_samples = FreqDelock
         /\ n.freq_ld.lock_cnt <= FreqLock /\ n.phase_ld.lock_samples = PhaseLock
         /\ n.phase_shift_current = x.phase_shift_current
<1>1. /\ DOMAIN n = MainFields /\ n.enabled = FALSE /\ n.locked = x.locked /\ n.ps_freeze = FALSE
      /\ n.freq_ld = ld_config(FreqLock, FreqDelock) /\ n.phase_ld = ld_config(PhaseLock, PhaseDelock)
      /\ n.gain_sched = RewindSchedule(x.gain_sched)
      /\ n.phase_shift_current = x.phase_shift_current /\ n.phase_shift_target = x.phase_shift_target
  BY Zenon DEF mpll_init, MainFields
<1>2. FreqLock \in Nat /\ FreqDelock \in Nat /\ PhaseLock \in Nat /\ PhaseDelock \in Nat
  BY SMTT(30), MainAssumption
<1>3. /\ n.freq_ld \in Detectors /\ n.freq_ld.lock_cnt = 0
      /\ n.freq_ld.lock_samples = FreqLock /\ n.freq_ld.delock_samples = FreqDelock
  BY SMTT(30), <1>1, <1>2, ConfigIs
<1>4. n.phase_ld \in Detectors /\ n.phase_ld.lock_samples = PhaseLock
  BY <1>1, <1>2, ConfigIs
<1>5. n.gain_sched \in Schedules
  BY <1>1, RewindIs, Zenon
<1>6. n.freq_ld.lock_cnt <= FreqLock
  BY <1>2, <1>3
<1>7. n.enabled \in BOOLEAN /\ n.ps_freeze \in BOOLEAN /\ ~ n.enabled
  BY Zenon, <1>1
<1> QED BY <1>1, <1>3, <1>4, <1>5, <1>6, <1>7, Zenon DEF MainShape

\* mpll_start restarts both detectors and the schedule, and takes the phase
\* shift back to zero.
LEMMA StartIs ==
  ASSUME MainInv, NEW n, n = mpll_start(m)
  PROVE  /\ MainShape(n) /\ Running(n, Fresh) /\ ~ n.locked
         /\ n.freq_ld.lock_samples = FreqLock /\ n.freq_ld.delock_samples = FreqDelock
         /\ n.freq_ld.lock_cnt <= FreqLock /\ (NStages = 0 => n.phase_ld.lock_samples = PhaseLock)
         /\ n.phase_shift_current = 0 /\ n.phase_shift_target = 0
<1>0. /\ MainShape(m) /\ (NStages = 0 => m.phase_ld.lock_samples = PhaseLock)
      /\ m.freq_ld.lock_samples = FreqLock /\ m.freq_ld.delock_samples = FreqDelock
  BY InvIs, Zenon
<1>1. DOMAIN m = MainFields /\ m.freq_ld \in Detectors /\ m.phase_ld \in Detectors /\ m.gain_sched \in Schedules
  BY <1>0 DEF MainShape
<1>2. /\ FreqLock \in Nat /\ NStages \in Nat /\ 0 \in KStages /\ Requirements[0] \in Nat
      /\ NStages = 0 => Requirements[0] = PhaseLock
      /\ NStages # 0 => Requirements = Stages
      /\ \A j \in KStages : ~ (j < 0)
  <2>1. FreqLock \in Nat /\ NStages \in Nat
    BY MainAssumption, StagesAssumption
  <2>2. NStages = 0 => Requirements[0] = PhaseLock
    BY DEF Requirements
  <2>3. NStages # 0 => Requirements = Stages
    BY DEF Requirements
  <2>4. 0 \in KStages /\ Requirements[0] \in Nat /\ \A j \in KStages : j \in Nat
    BY StagesAre
  <2> QED BY <2>1, <2>2, <2>3, <2>4
<1>3. m.gain_sched.n_stages = NStages /\ m.gain_sched.stages = Stages
  BY <1>1 DEF Schedules
<1> DEFINE ph == IF m.gain_sched.n_stages > 0
                 THEN [m.phase_ld EXCEPT !.lock_samples = m.gain_sched.stages[0]]
                 ELSE m.phase_ld
<1>4. ph \in Detectors /\ ph.lock_samples = Requirements[0]
  <2>1. CASE NStages = 0
    <3>1. ph = m.phase_ld
      BY <1>3, <2>1
    <3> QED BY Zenon, <1>0, <1>1, <1>2, <2>1, <3>1
  <2>2. CASE NStages # 0
    <3>1. PICK r \in Nat : r = Stages[0] /\ r = Requirements[0]
      BY <1>2, <2>2
    <3>2. ph = [m.phase_ld EXCEPT !.lock_samples = r]
      BY <1>2, <1>3, <2>2, <3>1
    <3> HIDE DEF ph
    <3> QED BY <1>1, <3>1, <3>2 DEF Detectors
  <2> QED BY <2>1, <2>2
<1>5. /\ DOMAIN n = MainFields /\ n.enabled = TRUE /\ n.locked = FALSE /\ n.ps_freeze = FALSE
      /\ n.freq_ld = ld_init(m.freq_ld) /\ n.phase_ld = ld_init(ph)
      /\ n.gain_sched = RewindSchedule(m.gain_sched)
      /\ n.phase_shift_current = 0 /\ n.phase_shift_target = 0
  BY <1>1, Zenon DEF mpll_start, MainFields
<1> HIDE DEF ph
<1>6. /\ n.freq_ld \in Detectors /\ n.freq_ld.lock_cnt = 0
      /\ n.freq_ld.lock_samples = FreqLock /\ n.freq_ld.delock_samples = FreqDelock
  BY SMTT(30), <1>0, <1>1, <1>5, SameLd, InitShape
<1>7. /\ n.phase_ld \in Detectors /\ ~ n.phase_ld.locked /\ n.phase_ld.lock_cnt = 0
      /\ n.phase_ld.lock_samples = Requirements[0]
  BY <1>4, <1>5, SameLd, InitShape
<1>8. n.gain_sched \in Schedules /\ StageOf(n) = 0 /\ ~ n.gain_sched.locked_d
  BY <1>1, <1>5, RewindIs, Zenon DEF StageOf
<1>9. n.enabled \in BOOLEAN /\ n.locked \in BOOLEAN /\ ~ n.locked /\ n.ps_freeze \in BOOLEAN /\ 0 \in Int
  <2>1. 0 \in Int
    OBVIOUS
  <2>2. n.enabled \in BOOLEAN /\ n.locked \in BOOLEAN /\ ~ n.locked /\ n.ps_freeze \in BOOLEAN
    BY <1>5, Zenon
  <2> QED BY <2>1, <2>2
<1>10. MainShape(n)
  BY <1>5, <1>6, <1>7, <1>8, <1>9, Zenon DEF MainShape
<1>11. n.phase_ld.locked \in BOOLEAN /\ n.gain_sched.locked_d \in BOOLEAN
  BY <1>7, <1>8, Zenon DEF Detectors, Schedules
<1>12. n.locked = n.phase_ld.locked /\ n.gain_sched.locked_d = n.locked
  BY <1>7, <1>8, <1>9, <1>11
<1>13. Fresh[0] >= 0
  BY <1>2 DEF Fresh
<1>14. Running(n, Fresh)
  BY <1>2, <1>7, <1>8, <1>9, <1>12, <1>13, Zenon DEF Running
<1>15. n.freq_ld.lock_cnt <= FreqLock
  BY <1>2, <1>6
<1> QED BY <1>2, <1>5, <1>6, <1>7, <1>9, <1>10, <1>14, <1>15, Zenon

-----------------------------------------------------------------------------

\* The PLL as spll_very_init and mpll_init leave it has the invariant.
LEMMA MainInitInv == Init => MainInv
<1> SUFFICES ASSUME Init PROVE MainInv
  OBVIOUS
<1>1. PICK g : g = [n_stages |-> NStages, current_stage |-> 0, locked_d |-> FALSE, stages |-> Stages]
  BY Zenon
<1>2. g \in Schedules
  <2>1. 0 \in KStages
    BY StagesAre
  <2> QED BY <1>1, <2>1 DEF Schedules
<1>3. m = mpll_init(main_zero(g), REF, OUT) /\ seen = Fresh
  BY <1>1, Zenon DEF Init
<1>4. PICK x : x = main_zero(g)
  BY SMTT(30)
<1>5. /\ DOMAIN x = MainFields /\ x.locked = FALSE /\ x.gain_sched = g
      /\ x.phase_shift_current = 0 /\ x.phase_shift_target = 0
  BY <1>4 DEF main_zero, MainFields
<1>6. x.locked \in BOOLEAN
  BY <1>5, Zenon
<1>7. x.phase_shift_current \in Int /\ x.phase_shift_target \in Int
  BY <1>5
<1>8. m = mpll_init(x, REF, OUT)
  BY <1>3, <1>4, Zenon
<1>9. /\ MainShape(m) /\ ~ m.enabled
      /\ m.freq_ld.lock_samples = FreqLock /\ m.freq_ld.delock_samples = FreqDelock
      /\ m.freq_ld.lock_cnt <= FreqLock /\ m.phase_ld.lock_samples = PhaseLock
  BY <1>2, <1>5, <1>6, <1>7, <1>8, InitIs, Zenon
<1>10. seen \in [KStages -> Nat]
  BY <1>3 DEF Fresh
<1> QED BY <1>9, <1>10, InvIs, Zenon

\* What a step that shifts the phase may do: the predicate of ShiftIsGradual.
Gradual ==
  m'.phase_shift_current # m.phase_shift_current =>
    \/ m'.phase_shift_current = 0 /\ m'.phase_shift_target = 0 /\ ~m'.locked
    \/ /\ m.locked /\ ~m.ps_freeze
       /\ \/ /\ m'.phase_shift_current = m.phase_shift_current + 1
             /\ m'.phase_shift_current <= m.phase_shift_target
          \/ /\ m'.phase_shift_current = m.phase_shift_current - 1
             /\ m'.phase_shift_current >= m.phase_shift_target

\* mpll_init on a mode switch.
LEMMA ReinitStep ==
  ASSUME MainInv, Reinit PROVE MainInv' /\ Gradual
<1>1. m' = mpll_init(m, REF, OUT) /\ seen' = Fresh
  BY DEF Reinit
<1>2. MainShape(m)
  BY InvIs, Zenon
<1>3. /\ DOMAIN m = MainFields /\ m.locked \in BOOLEAN /\ m.gain_sched \in Schedules
      /\ m.phase_shift_current \in Int /\ m.phase_shift_target \in Int
  BY <1>2, Zenon DEF MainShape
<1>4. /\ MainShape(m)' /\ ~ m'.enabled
      /\ m'.freq_ld.lock_samples = FreqLock /\ m'.freq_ld.delock_samples = FreqDelock
      /\ m'.freq_ld.lock_cnt <= FreqLock /\ m'.phase_ld.lock_samples = PhaseLock
      /\ m'.phase_shift_current = m.phase_shift_current
  BY <1>1, <1>3, InitIs, Zenon DEF MainShape
<1>5. seen' \in [KStages -> Nat]
  BY <1>1 DEF Fresh
<1>6. MainInv'
  BY <1>4, <1>5, InvNextIs, Zenon
<1> QED BY <1>4, <1>6, Zenon DEF Gradual

\* mpll_start.
LEMMA StartStep ==
  ASSUME MainInv, StartPll PROVE MainInv' /\ Gradual
<1>1. m' = mpll_start(m) /\ seen' = Fresh
  BY DEF StartPll
<1>2. PICK n : n = m'
  OBVIOUS
<1>3. /\ MainShape(n) /\ Running(n, Fresh) /\ ~ n.locked
      /\ n.freq_ld.lock_samples = FreqLock /\ n.freq_ld.delock_samples = FreqDelock
      /\ n.freq_ld.lock_cnt <= FreqLock /\ (NStages = 0 => n.phase_ld.lock_samples = PhaseLock)
      /\ n.phase_shift_current = 0 /\ n.phase_shift_target = 0
  BY <1>1, <1>2, StartIs, Zenon
<1>4. seen' \in [KStages -> Nat]
  BY <1>1 DEF Fresh
<1>5. MainShape(m)' /\ Running(m', seen')
  <2>1. MainShape(m)'
    BY <1>2, <1>3, Zenon DEF MainShape
  <2> QED BY <1>1, <1>2, <1>3, <2>1, Zenon
<1>6. MainInv'
  BY <1>2, <1>3, <1>4, <1>5, InvNextIs, Zenon
<1> QED BY <1>2, <1>3, <1>6, Zenon DEF Gradual

\* The calls that leave the detectors and the schedule alone.
LEMMA CallStep ==
  ASSUME MainInv,
         \/ Stop \/ Settle
         \/ \E shift \in -MaxShift..MaxShift : SetPhaseShift(shift)
         \/ \E ps, vco \in BOOLEAN : Freeze(ps, vco)
  PROVE  MainInv' /\ Gradual
<1>0. MainShape(m)
  BY InvIs, Zenon
<1>1. /\ DOMAIN m = MainFields /\ m.enabled \in BOOLEAN /\ m.locked \in BOOLEAN /\ m.ps_freeze \in BOOLEAN
      /\ m.freq_ld \in Detectors /\ m.phase_ld \in Detectors /\ m.gain_sched \in Schedules
      /\ m.phase_shift_current \in Int /\ m.phase_shift_target \in Int
  BY <1>0, Zenon DEF MainShape
<1>2. /\ DOMAIN m' = MainFields /\ (m'.enabled => m.enabled) /\ m'.enabled \in BOOLEAN
      /\ m'.ps_freeze \in BOOLEAN /\ m'.locked = m.locked /\ m'.freq_ld = m.freq_ld
      /\ m'.phase_ld = m.phase_ld /\ m'.gain_sched = m.gain_sched /\ seen' = seen
      /\ m'.phase_shift_current = m.phase_shift_current /\ m'.phase_shift_target \in Int
  <2>1. CASE Stop
    BY <1>1, <2>1, Zenon DEF Stop, mpll_stop, MainFields
  <2>2. CASE Settle
    BY <1>1, <2>2, Zenon DEF Settle
  <2>3. CASE \E shift \in -MaxShift..MaxShift : SetPhaseShift(shift)
    <3>1. PICK shift \in -MaxShift..MaxShift : SetPhaseShift(shift)
      BY <2>3
    <3>2. shift \in Int
      BY StagesAssumption
    <3> QED BY <1>1, <3>1, <3>2, Zenon DEF SetPhaseShift, mpll_set_phase_shift, MainFields
  <2>4. CASE \E ps, vco \in BOOLEAN : Freeze(ps, vco)
    BY <1>1, <2>4, Zenon DEF Freeze, MainFields
  <2> QED BY <2>1, <2>2, <2>3, <2>4, Zenon
<1>3. MainShape(m)'
  BY <1>1, <1>2, Zenon DEF MainShape
<1>4. MainInv'
  BY <1>2, <1>3, KeepsInv, Zenon
<1> QED BY <1>2, <1>4, Zenon DEF Gradual

\* A tag that finds the PLL disabled, or the other tag of the pair missing.
LEMMA LoneTag ==
  ASSUME MainInv, NEW source, NEW f \in BOOLEAN, NEW p \in BOOLEAN, Tag(source, f, p),
         ~ CompletesPair(m, source)
  PROVE  MainInv' /\ Gradual
<1>0. MainShape(m)
  BY InvIs, Zenon
<1>1. /\ DOMAIN m = MainFields /\ m.enabled \in BOOLEAN /\ m.locked \in BOOLEAN /\ m.ps_freeze \in BOOLEAN
      /\ m.freq_ld \in Detectors /\ m.phase_ld \in Detectors /\ m.gain_sched \in Schedules
      /\ m.phase_shift_current \in Int /\ m.phase_shift_target \in Int
  BY <1>0, Zenon DEF MainShape
<1>2. \/ m' = m
      \/ m' = [m EXCEPT !.tag_ref = @ \/ source = m.id_ref, !.tag_out = @ \/ source = m.id_out]
  BY Zenon DEF Tag, mpll_update
<1>3. /\ DOMAIN m' = MainFields /\ m'.enabled = m.enabled
      /\ m'.ps_freeze = m.ps_freeze /\ m'.locked = m.locked /\ m'.freq_ld = m.freq_ld
      /\ m'.phase_ld = m.phase_ld /\ m'.gain_sched = m.gain_sched
      /\ m'.phase_shift_current = m.phase_shift_current /\ m'.phase_shift_target = m.phase_shift_target
  BY <1>1, <1>2, Zenon DEF MainFields
<1>4. MainShape(m)'
  BY <1>1, <1>3, Zenon DEF MainShape
<1>5. seen' = seen
  BY <1>3, Zenon DEF Tag
<1>6. MainInv'
  BY <1>3, <1>4, <1>5, KeepsInv, Zenon
<1> QED BY <1>3, <1>6, Zenon DEF Gradual

\* One step of the shifter, with the target unchanged, is a gradual one.
LEMMA ShiftedIs ==
  ASSUME MainShape(m), m'.phase_shift_current = Shifted(m)
  PROVE  Gradual
<1>1. PICK c \in Int, t \in Int : c = m.phase_shift_current /\ t = m.phase_shift_target
  BY DEF MainShape
<1>2. CASE m.locked /\ ~ m.ps_freeze
  <2>1. m'.phase_shift_current = IF c < t THEN c + 1 ELSE IF c > t THEN c - 1 ELSE c
    BY <1>1, <1>2, Zenon DEF Shifted
  <2>2. PICK d : d = m'.phase_shift_current
    OBVIOUS
  <2>3. d # c => (d = c + 1 /\ d <= t) \/ (d = c - 1 /\ d >= t)
    BY <2>1, <2>2
  <2> QED BY <1>1, <1>2, <2>2, <2>3, Zenon DEF Gradual
<1>3. CASE ~ (m.locked /\ ~ m.ps_freeze)
  BY <1>3, Zenon DEF Shifted, Gradual
<1> QED BY <1>2, <1>3

\* A tag that completes a pair.
LEMMA PairTag ==
  ASSUME MainInv, NEW source, NEW f \in BOOLEAN, NEW p \in BOOLEAN, Tag(source, f, p),
         CompletesPair(m, source)
  PROVE  MainInv' /\ Gradual
<1>1. m.enabled /\ m' = mpll_pair(m, f, p)
  BY Zenon DEF Tag, mpll_update, CompletesPair
<1>2. seen' = SeenAfter(m, m', seen, p)
  BY <1>1, Zenon DEF Tag, SeenAfter, Counted
<1>3. PICK n : n = m'
  OBVIOUS
<1>4. PICK t : t = seen'
  OBVIOUS
<1>5. n = mpll_pair(m, f, p) /\ t = SeenAfter(m, n, seen, p)
  BY <1>1, <1>2, <1>3, <1>4, Zenon
<1>6. /\ MainShape(n) /\ t \in [KStages -> Nat]
      /\ n.freq_ld.lock_samples = FreqLock /\ n.freq_ld.delock_samples = FreqDelock
      /\ n.freq_ld.lock_cnt <= FreqLock
      /\ NStages = 0 => n.phase_ld.lock_samples = PhaseLock
      /\ Running(n, t) /\ n.phase_shift_current = Shifted(m)
  BY <1>1, <1>5, PairRuns, ZenonT(60)
<1>7. MainShape(m)'
  BY <1>3, <1>6, Zenon DEF MainShape
<1>8. MainInv'
  BY <1>3, <1>4, <1>6, <1>7, InvNextIs, Zenon
<1>9. Gradual
  BY <1>3, <1>6, InvIs, ShiftedIs, Zenon
<1> QED BY <1>8, <1>9

\* Every step keeps the invariant and shifts gradually.
LEMMA MainStepInv ==
  ASSUME MainInv, [Next]_vars
  PROVE  MainInv' /\ (Next => Gradual)
<1>1. CASE Reinit
  BY <1>1, ReinitStep
<1>2. CASE StartPll
  BY <1>2, StartStep
<1>3. CASE Stop \/ Settle \/ (\E shift \in -MaxShift..MaxShift : SetPhaseShift(shift))
           \/ (\E ps, vco \in BOOLEAN : Freeze(ps, vco))
  BY <1>3, CallStep
<1>4. CASE \E source \in {REF, OUT, THIRD}, f_ok, p_ok \in BOOLEAN : Tag(source, f_ok, p_ok)
  <2>1. PICK source \in {REF, OUT, THIRD}, f \in BOOLEAN, p \in BOOLEAN : Tag(source, f, p)
    BY <1>4
  <2> QED BY <2>1, LoneTag, PairTag
<1>5. CASE UNCHANGED vars
  <2>1. m' = m /\ seen' = seen
    BY <1>5 DEF vars
  <2>2. MainShape(m)'
    <3>1. MainShape(m)
      BY InvIs, Zenon
    <3> QED BY <2>1, <3>1, Zenon DEF MainShape
  <2>3. MainInv'
    BY <2>1, <2>2, KeepsInv, Zenon
  <2>4. Gradual
    BY <2>1, Zenon DEF Gradual
  <2> QED BY <2>3, <2>4
<1> QED BY <1>1, <1>2, <1>3, <1>4, <1>5, Zenon DEF Next

\* The invariant is inductive, whatever the stages and the calls.
THEOREM MainInvHolds == Spec => []MainInv
<1>1. MainInv /\ [Next]_vars => MainInv'
  BY MainStepInv
<1> QED BY <1>1, MainInitInv, PTL DEF Spec

\* What sequencing_fsm and the aligner read as `locked' is the lock of the phase
\* detector in the last stage of the schedule, with the frequency branch locked,
\* for every schedule and every sequence of tags, errors and calls.
THEOREM LockIsBacked == Spec => []LockedIsCurrent
<1>1. MainInv => LockedIsCurrent
  <2> SUFFICES ASSUME MainInv, m.enabled PROVE LockedIsCurrent
    BY DEF LockedIsCurrent
  <2>1. Running(m, seen)
    BY InvIs, Zenon
  <2> QED BY <2>1 DEF Running, LockedIsCurrent, LastStage
<1> QED BY <1>1, MainInvHolds, PTL

\* A PLL that reports a lock has seen, in every stage of its schedule, the good
\* samples that the stage asks for, since it was started or last lost its lock.
THEOREM StagesAreEarned == Spec => []EveryStageEarned
<1>1. MainInv => EveryStageEarned
  <2> SUFFICES ASSUME MainInv, m.enabled, m.locked PROVE \A k \in KStages : seen[k] >= Requirements[k]
    BY DEF EveryStageEarned
  <2>1. Running(m, seen)
    BY InvIs, Zenon
  <2> QED BY <2>1, Zenon DEF Running
<1> QED BY <1>1, MainInvHolds, PTL

\* mpll_update moves the phase by one unit, towards its target and under lock;
\* nothing else but mpll_start moves it.
THEOREM ShiftsAreGradual == Spec => ShiftIsGradual
<1>1. MainInv /\ [Next]_vars => [Gradual]_vars
  BY MainStepInv
<1> QED BY <1>1, MainInvHolds, PTL DEF Spec, ShiftIsGradual, Gradual
=============================================================================
