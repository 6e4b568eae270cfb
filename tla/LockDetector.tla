---------------------------- MODULE LockDetector ----------------------------
(***************************************************************************)
(* One lock detector fed with an arbitrary stream of error samples: what   *)
(* ld_update (softpll/spll_common.c) promises to the helper and main PLLs. *)
(*                                                                         *)
(* goods counts the samples inside the threshold since the detector was    *)
(* last cleared, bads the samples outside it since it last locked.  Both   *)
(* are history variables and saturate at LockSamples, the largest value a  *)
(* property compares them with.  odd is the parity of the number of calls: *)
(* a sample that leaves the detector as it is (a bad one at the floor,     *)
(* say) is still a step.                                                   *)
(***************************************************************************)
EXTENDS SpllCommon

CONSTANTS LockSamples,    \* ld.lock_samples
          DelockSamples   \* ld.delock_samples

ASSUME LdAssumption == LockSamples \in Nat \ {0} /\ DelockSamples \in Nat

VARIABLES ld, last_ok, odd, goods, bads

LdVars == <<ld, last_ok, odd, goods, bads>>

Saturate(n) == IF n < LockSamples THEN n + 1 ELSE n

\* mpll_init and helper_very_init set the two thresholds, then ld_init.
LdInit ==
  /\ ld = ld_init([lock_cnt |-> 0, lock_samples |-> LockSamples,
                   delock_samples |-> DelockSamples,
                   locked |-> FALSE, lock_changed |-> FALSE])
  /\ last_ok = FALSE
  /\ odd = FALSE
  /\ goods = 0
  /\ bads = 0

\* One error sample.
Sample(ok) ==
  /\ ld' = ld_update(ld, ok)
  /\ last_ok' = ok
  /\ odd' = ~odd
  /\ goods' = IF ld.locked /\ ~ld'.locked THEN 0
              ELSE IF ok THEN Saturate(goods) ELSE goods
  /\ bads' = IF ~ld.locked /\ ld'.locked THEN 0
             ELSE IF ok THEN bads ELSE Saturate(bads)

\* The PLL is started again: helper_start and mpll_start call ld_init.
Reset ==
  /\ ld' = ld_init(ld)
  /\ odd' = ~odd
  /\ goods' = 0
  /\ bads' = 0
  /\ UNCHANGED last_ok

LdNext == Reset \/ \E ok \in BOOLEAN : Sample(ok)

LdSpec == LdInit /\ [][LdNext]_LdVars

\* Tags keep coming as long as a tagger is enabled, so samples do.
LdFairSpec == LdSpec /\ WF_LdVars(\E ok \in BOOLEAN : Sample(ok))

-----------------------------------------------------------------------------
(***************************************************************************)
(* Type correctness of the detector and of the two histories.              *)
(***************************************************************************)
LdTypeOK ==
  /\ ld \in [lock_cnt : 0..LockSamples, lock_samples : {LockSamples},
             delock_samples : {DelockSamples},
             locked : BOOLEAN, lock_changed : BOOLEAN]
  /\ last_ok \in BOOLEAN
  /\ odd \in BOOLEAN
  /\ goods \in 0..LockSamples
  /\ bads \in 0..LockSamples

\* The counter tells locked from unlocked: it is full only when locked, and a
\* locked detector still has samples to lose before it reaches delock_samples.
CounterMatchesLock ==
  /\ ld.lock_cnt = LockSamples => ld.locked
  /\ ld.locked /\ DelockSamples < LockSamples => ld.lock_cnt > DelockSamples

\* The counter never claims more good samples than were seen, nor hides more
\* than the bad ones seen since the lock.
CounterIsBacked ==
  /\ ~ld.locked => ld.lock_cnt <= goods
  /\ ld.locked => LockSamples - ld.lock_cnt <= bads

\* The strengthening under which the properties below are inductive.
LdInv == LdTypeOK /\ CounterMatchesLock /\ CounterIsBacked

\* "If it has been inside the range for (ld.lock_samples) cycles, the FSM
\* assumes the PLL is locked": ld_update reports a lock only after at least
\* lock_samples samples inside the threshold.
LockNeedsGoodSamples ==
  [][~ld.locked /\ ld'.locked => goods' = LockSamples]_LdVars

\* Hysteresis: a lock is lost only after at least lock_samples minus
\* delock_samples samples outside the threshold.  A single glitch never
\* restarts the SoftPLL sequencer.
DelockNeedsBadSamples ==
  [][Reset \/ (ld.locked /\ ~ld'.locked => bads' >= LockSamples - DelockSamples)]_LdVars

\* "Accumulated number of samples that causes the PLL go get out of lock":
\* when the error stays outside the threshold for good, so does the lock.
BadInputDelocks == <>[](~last_ok) => <>[](~ld.locked)
=============================================================================
