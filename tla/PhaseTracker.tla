---------------------------- MODULE PhaseTracker ----------------------------
(***************************************************************************)
(* A phase tracker (softpll/spll_ptracker.c): the average of the phase     *)
(* between a reference and the main output, taken in the tag interrupt     *)
(* from values that wrap at PtScale = 2^HPLL_N, and read by tasks          *)
(* (spll_read_ptracker), which also restart it and change the number of    *)
(* samples.                                                                *)
(*                                                                         *)
(*   tr        struct spll_ptracker_state                                  *)
(*   tag_ref   the last tag of the main channel, its HPLL_N low bits       *)
(*   pt_pc     how far the task is in ptracker_start, 0 outside            *)
(*   avg       history of the average being taken: its first sample and    *)
(*             the sum of the distances of the others from it, or Spoilt   *)
(*             once one is further than a quarter of the scale away or was *)
(*             taken during a restart                                      *)
(*   done      the total and length of the average in phase_val, or Spoilt *)
(***************************************************************************)
EXTENDS Integers

CONSTANTS PtScale,     \* a multiple of 4
          PtReverse,   \* reverse_spll
          NumAvgs,     \* numbers of samples, each at least 2
          MainTagsSeen \* tags of the main channel

ASSUME PtAssumption == /\ PtScale \in Nat \ {0} /\ PtScale % 4 = 0
                       /\ PtReverse \in BOOLEAN
                       /\ NumAvgs \subseteq Nat \ {0, 1}
                       /\ MainTagsSeen \subseteq Int

VARIABLES tr, tag_ref, pt_pc, avg, done
PtVars == <<tr, tag_ref, pt_pc, avg, done>>

Quarter(delta) == (4 * delta) \div PtScale

\* adj_tab, by the quarters of the first sample and of this one.
adj_tab(first, now) ==
  CASE first = 0 /\ now = 3 -> -PtScale
    [] first = 3 /\ now = 0 -> PtScale
    [] OTHER -> 0

\* C's division rounds towards zero.
Div(a, n) == IF a >= 0 THEN a \div n ELSE -((-a) \div n)

Spoilt == [first |-> -1, sum |-> 0]

Delta(tag) == (IF PtReverse THEN tag - tag_ref ELSE tag_ref - tag) % PtScale

-----------------------------------------------------------------------------
ptracker_init(n) ==
  [enabled |-> FALSE, n_avg |-> n, acc |-> 0, avg_count |-> 0, preserve_sign |-> 0,
   phase_val |-> 0, ready |-> FALSE]

MainTag(tag) ==
  /\ tag_ref' = tag
  /\ UNCHANGED <<tr, pt_pc, avg, done>>

FirstSample(delta) ==
  [tr EXCEPT !.preserve_sign = Quarter(delta), !.acc = delta, !.avg_count = 1]

NextSample(delta) ==
  LET acc == tr.acc + delta + adj_tab(tr.preserve_sign, Quarter(delta))
  IN  IF tr.avg_count + 1 = tr.n_avg
      THEN [tr EXCEPT !.phase_val = Div(acc, tr.n_avg), !.ready = TRUE, !.acc = 0,
                      !.avg_count = 0]
      ELSE [tr EXCEPT !.acc = acc, !.avg_count = @ + 1]

\* The distance of a sample from the first one, the short way round.
Away(delta) == ((delta - avg.first + PtScale \div 2) % PtScale) - PtScale \div 2

\* Of the average being taken, with the sample delta.
WithSample(delta) ==
  IF pt_pc # 0 \/ (tr.avg_count > 0 /\ (avg = Spoilt \/ 4 * Away(delta) \notin -PtScale..PtScale))
  THEN Spoilt
  ELSE IF tr.avg_count = 0 THEN [first |-> delta, sum |-> 0]
  ELSE [avg EXCEPT !.sum = @ + Away(delta)]

ptrackers_update(tag) ==
  LET delta == Delta(tag)
      now   == WithSample(delta)
  IN /\ tr.enabled
     /\ tr' = IF tr.avg_count = 0 THEN FirstSample(delta) ELSE NextSample(delta)
     /\ IF tr'.avg_count > 0 THEN avg' = now /\ UNCHANGED done
        ELSE /\ avg' = Spoilt
             /\ done' = IF now = Spoilt THEN Spoilt
                        ELSE [n |-> tr.n_avg, total |-> tr.n_avg * now.first + now.sum]
     /\ UNCHANGED <<tag_ref, pt_pc>>

-----------------------------------------------------------------------------
\* ptracker_start, called by a task without masking the interrupt: five stores.
ptracker_start ==
  /\ tr' = CASE pt_pc = 0 -> [tr EXCEPT !.preserve_sign = 0]
             [] pt_pc = 1 -> [tr EXCEPT !.enabled = TRUE]
             [] pt_pc = 2 -> [tr EXCEPT !.ready = FALSE]
             [] pt_pc = 3 -> [tr EXCEPT !.acc = 0]
             [] OTHER -> [tr EXCEPT !.avg_count = 0]
  /\ pt_pc' = (pt_pc + 1) % 5
  /\ UNCHANGED <<tag_ref, avg, done>>

\* A slip of spll_set_ptracker_average_samples: the samples taken so far count.
spll_set_ptracker_average_samples_keeps(n) ==
  /\ pt_pc = 0
  /\ tr' = [tr EXCEPT !.preserve_sign = 0, !.ready = FALSE, !.acc = 0, !.n_avg = n]
  /\ UNCHANGED <<tag_ref, pt_pc, avg, done>>

\* The interrupt is masked meanwhile.
spll_set_ptracker_average_samples(n) ==
  /\ pt_pc = 0
  /\ tr' = [tr EXCEPT !.preserve_sign = 0, !.ready = FALSE, !.acc = 0, !.avg_count = 0,
                      !.n_avg = n]
  /\ UNCHANGED <<tag_ref, pt_pc, avg, done>>

\* What a reader gets, before it is converted to picoseconds.
spll_read_ptracker ==
  CASE tr.phase_val < 0 -> tr.phase_val + PtScale
    [] tr.phase_val >= PtScale -> tr.phase_val - PtScale
    [] OTHER -> tr.phase_val

PtInit ==
  /\ \E n \in NumAvgs : tr = ptracker_init(n)
  /\ tag_ref = -1
  /\ pt_pc = 0
  /\ avg = Spoilt /\ done = Spoilt

PtNext ==
  \/ \E tag \in MainTagsSeen : MainTag(tag)
  \/ \E tag \in 0..PtScale - 1 : ptrackers_update(tag)
  \/ ptracker_start
  \/ \E n \in NumAvgs : spll_set_ptracker_average_samples(n)

PtSpec == PtInit /\ [][PtNext]_PtVars

-----------------------------------------------------------------------------
\* A phase that is ready is the mean of the samples it was taken from, to less
\* than one unit, and within the scale, wherever the phase lies on the circle
\* and although the samples wrap around it, restarts and changes of the length
\* included.  It is so if no sample is further than a quarter from the first,
\* and none was taken in the middle of a restart (ptrackers_update,
\* spll_read_ptracker, spll_set_ptracker_average_samples).
AverageIsTrue ==
  tr.ready /\ pt_pc = 0 /\ done # Spoilt =>
    /\ spll_read_ptracker \in 0..PtScale - 1
    /\ \E k \in -1..1 :
         LET error == done.n * (spll_read_ptracker + k * PtScale) - done.total
         IN  -done.n < error /\ error < done.n

Tracker == [enabled : BOOLEAN, n_avg : NumAvgs, acc : Int, avg_count : Nat,
            preserve_sign : 0..3, phase_val : Int, ready : BOOLEAN]

PtTypeOK ==
  /\ tr \in Tracker /\ tag_ref \in Int /\ pt_pc \in 0..4
  /\ avg = Spoilt \/ avg \in [first : 0..PtScale - 1, sum : Int]
  /\ done = Spoilt \/ done \in [n : NumAvgs, total : Int]

\* Outside of a restart the accumulator of an average that is not spoilt is the
\* sum of its samples, unwrapped around the first one.
AccIsSum ==
  pt_pc = 0 /\ tr.avg_count > 0 /\ avg # Spoilt =>
    /\ tr.acc = tr.avg_count * avg.first + avg.sum
    /\ tr.preserve_sign = Quarter(avg.first)
    /\ 4 * avg.sum <= (tr.avg_count - 1) * PtScale
    /\ -4 * avg.sum <= (tr.avg_count - 1) * PtScale

\* The phase that is shown is the mean, up to a turn of the circle.
PhaseIsMean ==
  done # Spoilt =>
    /\ -PtScale < tr.phase_val /\ tr.phase_val < 2 * PtScale
    /\ -done.n < done.n * tr.phase_val - done.total
    /\ done.n * tr.phase_val - done.total < done.n

PtInv == PtTypeOK /\ AccIsSum /\ PhaseIsMean
=============================================================================
