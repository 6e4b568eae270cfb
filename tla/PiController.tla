---------------------------- MODULE PiController ----------------------------
(***************************************************************************)
(* One PI regulator of the SoftPLL (pi_update of softpll/spll_common.c)    *)
(* fed with an arbitrary stream of errors no larger than MaxErr.  The      *)
(* helper clamps its error to HELPER_ERROR_CLAMP; the error of the main    *)
(* PLL is masked to HPLL_N bits once the frequency branch has locked, and  *)
(* before that it is a difference of TAG_BITS wide tags.                   *)
(***************************************************************************)
EXTENDS SpllCommon

CONSTANTS Kp, Ki,        \* gains, of either sign
          Scale, Half,   \* 1 << shift and 1 << (shift - 1)
          Bias,          \* y_max or y_min in the helper, midscale in the main PLL
          YMin, YMax,    \* range of the DAC
          MaxErr,        \* largest |x|
          KpErr          \* largest |x * kp|

ASSUME PiAssumption ==
  /\ Kp \in Int /\ Ki \in Int
  /\ Scale \in Nat \ {0} /\ Half \in Nat
  /\ YMin \in Int /\ YMax \in Int /\ Bias \in YMin..YMax
  /\ MaxErr \in Nat
  /\ KpErr \in Nat
  /\ \A x \in -MaxErr..MaxErr : x * Kp <= KpErr /\ -KpErr <= x * Kp

VARIABLE pi

PiInit ==
  pi = pi_init([kp |-> Kp, ki |-> Ki, scale |-> Scale, half |-> Half, bias |-> Bias,
                integrator |-> 0, anti_windup |-> TRUE,
                y_min |-> YMin, y_max |-> YMax, y |-> 0])

Update(x) == pi' = pi_update(pi, x)

\* helper_start and mpll_start restart the regulator.
Rewind == pi' = pi_init(pi)

PiNext == Rewind \/ \E x \in -MaxErr..MaxErr : Update(x)

PiSpec == PiInit /\ [][PiNext]_pi

-----------------------------------------------------------------------------
(***************************************************************************)
(* Type correctness.  "output has to be in <y_min, y_max>": the value      *)
(* written to the DAC is always in its range.                              *)
(***************************************************************************)
PiTypeOK ==
  pi \in [kp : {Kp}, ki : {Ki}, scale : {Scale}, half : {Half}, bias : {Bias},
          integrator : Int, anti_windup : {TRUE},
          y_min : {YMin}, y_max : {YMax}, y : YMin..YMax]

\* The integrator values for which some error within KpErr leaves the output
\* in range, stretched to contain the starting point 0.
IntegratorLo ==
  LET lo == (YMin - Bias) * Scale - Half - KpErr IN IF lo < 0 THEN lo ELSE 0
IntegratorHi ==
  LET hi == (YMax - Bias + 1) * Scale - 1 - Half + KpErr IN IF hi > 0 THEN hi ELSE 0

\* "anti-windup: stop the integrator if the output is already out of range and
\* the output is going further away": however long the error has one sign, the
\* integrator stays within a band that depends on the DAC range and on the
\* proportional term only.  So it never overflows its 64 bits, and the output
\* leaves the rail within a bounded number of samples when the error reverses.
NoWindup == pi.integrator \in IntegratorLo..IntegratorHi

PiInv == PiTypeOK /\ NoWindup
=============================================================================
