----------------------------- MODULE SpllCommon -----------------------------
(***************************************************************************)
(* The building blocks shared by every loop of the SoftPLL                 *)
(* (softpll/spll_common.c): the lock detector and the PI regulator, as     *)
(* operators from a record, the C struct, to the record after the call.    *)
(* Only the fields that the code reads back are kept.                      *)
(***************************************************************************)
EXTENDS Integers

(***************************************************************************)
(* Lock detector (spll_lock_det_t).  The error sample is abstracted to     *)
(* `ok', whether |y| <= threshold.                                         *)
(***************************************************************************)
ld_init(ld) ==
  [ld EXCEPT !.locked = FALSE, !.lock_cnt = 0, !.lock_changed = FALSE]

\* A slip of ld_good: locking one sample early.
ld_good_early(ld) ==
  LET cnt  == IF ld.lock_cnt < ld.lock_samples THEN ld.lock_cnt + 1 ELSE ld.lock_cnt
      full == cnt >= ld.lock_samples - 1
  IN  [ld EXCEPT !.lock_cnt = cnt, !.lock_changed = full /\ ~ld.locked, !.locked = @ \/ full]

\* A sample inside the threshold: count up to lock_samples, lock when there.
ld_good(ld) ==
  LET cnt  == IF ld.lock_cnt < ld.lock_samples THEN ld.lock_cnt + 1 ELSE ld.lock_cnt
      full == cnt = ld.lock_samples
  IN  [ld EXCEPT !.lock_cnt = cnt,
                 !.lock_changed = full /\ ~ld.locked,
                 !.locked = @ \/ full]

\* Slips of ld_bad: no hysteresis; the lock lost only below the floor, where the
\* counter never gets.
ld_bad_hasty(ld) ==
  [ld EXCEPT !.lock_cnt = 0, !.lock_changed = ld.locked, !.locked = FALSE]
ld_bad_never(ld) ==
  LET cnt   == IF ld.lock_cnt > ld.delock_samples THEN ld.lock_cnt - 1 ELSE ld.lock_cnt
      loses == cnt < ld.delock_samples /\ ld.locked
  IN  [ld EXCEPT !.lock_cnt = IF loses THEN 0 ELSE cnt,
                 !.lock_changed = loses, !.locked = @ /\ ~loses]

\* A sample outside: count down to delock_samples, lose the lock when there.
ld_bad(ld) ==
  LET cnt   == IF ld.lock_cnt > ld.delock_samples THEN ld.lock_cnt - 1 ELSE ld.lock_cnt
      loses == cnt = ld.delock_samples /\ ld.locked
  IN  [ld EXCEPT !.lock_cnt = IF loses THEN 0 ELSE cnt,
                 !.lock_changed = loses,
                 !.locked = @ /\ ~loses]

ld_update(ld, ok) == IF ok THEN ld_good(ld) ELSE ld_bad(ld)

(***************************************************************************)
(* PI regulator (spll_pi_t).  `scale' is 1 << shift, `half' the rounding   *)
(* term 1 << (shift - 1).  The result is the record after the call; the    *)
(* value pi_update returns is its field y.  The arithmetic shift right is  *)
(* the flooring \div.  The integrator and the products are 64 bits wide in *)
(* the code; PiController shows that they stay far from that width.        *)
(***************************************************************************)
pi_init(pi) == [pi EXCEPT !.integrator = 0, !.y = pi.bias]

Clamp(pi, y) == IF y < pi.y_min THEN pi.y_min ELSE IF y > pi.y_max THEN pi.y_max ELSE y

\* A slip of pi_update: no anti-windup.
pi_update_windup(pi, x) ==
  LET i_new == pi.integrator + pi.ki * x
  IN  [pi EXCEPT !.integrator = i_new,
                 !.y = Clamp(pi, ((i_new + x * pi.kp + pi.half) \div pi.scale) + pi.bias)]

pi_update(pi, x) ==
  LET i_new    == pi.integrator + pi.ki * x
      preround == i_new + x * pi.kp + pi.half
      y        == (preround \div pi.scale) + pi.bias
      keep     == IF y < pi.y_min THEN i_new > pi.integrator \/ ~pi.anti_windup
                  ELSE IF y > pi.y_max THEN i_new < pi.integrator \/ ~pi.anti_windup
                  ELSE TRUE
  IN  [pi EXCEPT !.integrator = IF keep THEN i_new ELSE @, !.y = Clamp(pi, y)]
=============================================================================
