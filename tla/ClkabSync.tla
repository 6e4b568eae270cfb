------------------------------ MODULE ClkabSync -----------------------------
(***************************************************************************)
(* The digital clock outputs CLKA and CLKB of the eRTM14: after a change   *)
(* of divider an output is realigned with the PPS by one pulse to its      *)
(* fanout chip, which squelches for a while the outputs that take part     *)
(* (boards/ertm14/board.c, dev/ltc695x.c).                                 *)
(*                                                                         *)
(*   clkab_sync_state   of ertm14_clkab_sync_task                          *)
(*   out                for each output its clka/clkb_sync_state, whether  *)
(*                      SRQEN is set in its chip, and (history) whether a  *)
(*                      pulse has aligned it since its divider changed     *)
(*   sync               for each chip whether its pulse generator channel  *)
(*                      is armed, and whether the pulse is still to come   *)
(*   changes            how many more times the host changes dividers      *)
(***************************************************************************)
EXTENDS Integers

CONSTANTS Outputs,      \* pairs <<chip, number>>
          MaxRequests

Chips == {"A", "B"}

ASSUME ClkAssumption == Outputs \subseteq Chips \X Nat

VARIABLES clkab_sync_state, out, sync, changes
ClkVars == <<clkab_sync_state, out, sync, changes>>

\* Writing the divider clears SRQEN, which shares a register with the polarity.
clkab_set_output_divider(o) ==
  [o EXCEPT !.state = "RESTART", !.srqen = FALSE, !.aligned = FALSE]

\* ertm14_apply_config, for the outputs whose frequency changes.
ChangeDividers(changed) ==
  /\ changes > 0
  /\ changes' = changes - 1
  /\ out' = [o \in Outputs |-> IF o \in changed THEN clkab_set_output_divider(out[o])
                               ELSE out[o]]
  /\ UNCHANGED <<clkab_sync_state, sync>>

TaskIdle ==
  /\ clkab_sync_state = "IDLE"
  /\ clkab_sync_state' = "WAIT_AFTER_PPS"
  /\ UNCHANGED <<out, sync, changes>>

\* Less than 300 ms after a PPS, the outputs to be aligned are prepared.  The
\* writes end before the next PPS, so the pulse comes after this step.
TaskAfterPps ==
  /\ clkab_sync_state = "WAIT_AFTER_PPS"
  /\ \E o \in Outputs : out[o].state = "RESTART"
  /\ out' = [o \in Outputs |-> IF out[o].state = "RESTART"
                               THEN [out[o] EXCEPT !.srqen = TRUE, !.state = "WAIT_TRIGGER"]
                               ELSE out[o]]
  /\ sync' = [c \in Chips |-> [armed |-> TRUE, waiting |-> TRUE]]
  /\ clkab_sync_state' = "WAIT_TRIGGER"
  /\ UNCHANGED changes

\* fine_pulse_gen_is_triggered asks chip A, then chip B, stops at the one that
\* still waits, and has disarmed the one before it.
TaskNotYet ==
  /\ clkab_sync_state = "WAIT_TRIGGER"
  /\ sync["B"].armed /\ sync["B"].waiting
  /\ sync["A"].armed /\ ~ sync["A"].waiting
  /\ sync' = [sync EXCEPT !["A"].armed = FALSE]
  /\ UNCHANGED <<clkab_sync_state, out, changes>>

Triggered == \A c \in Chips : sync[c].armed => ~ sync[c].waiting

\* A slip of the task: every output is declared aligned.
TaskTriggered_all ==
  /\ clkab_sync_state = "WAIT_TRIGGER" /\ Triggered
  /\ out' = [o \in Outputs |-> [out[o] EXCEPT !.srqen = FALSE, !.state = "READY"]]
  /\ sync' = [c \in Chips |-> [sync[c] EXCEPT !.armed = FALSE]]
  /\ clkab_sync_state' = "WAIT_AFTER_PPS"
  /\ UNCHANGED changes

TaskTriggered ==
  /\ clkab_sync_state = "WAIT_TRIGGER" /\ Triggered
  /\ out' = [o \in Outputs |-> IF out[o].state = "WAIT_TRIGGER"
                               THEN [out[o] EXCEPT !.srqen = FALSE, !.state = "READY"]
                               ELSE out[o]]
  /\ sync' = [c \in Chips |-> [sync[c] EXCEPT !.armed = FALSE]]
  /\ clkab_sync_state' = "WAIT_AFTER_PPS"
  /\ UNCHANGED changes

ertm14_clkab_sync_task ==
  TaskIdle \/ TaskAfterPps \/ TaskNotYet \/ TaskTriggered

\* The PPS pulse reaches a chip; the outputs with SRQEN are aligned (external).
SyncPulse(c) ==
  /\ sync[c].waiting
  /\ sync' = [sync EXCEPT ![c].waiting = FALSE]
  /\ out' = [o \in Outputs |-> IF o[1] = c /\ out[o].srqen
                               THEN [out[o] EXCEPT !.aligned = TRUE] ELSE out[o]]
  /\ UNCHANGED <<clkab_sync_state, changes>>

\* wrc_board_init configures every output.
ClkInit ==
  /\ clkab_sync_state = "IDLE"
  /\ out = [o \in Outputs |-> [state |-> "RESTART", srqen |-> FALSE, aligned |-> FALSE]]
  /\ sync = [c \in Chips |-> [armed |-> FALSE, waiting |-> FALSE]]
  /\ changes = MaxRequests

ClkNext ==
  \/ \E changed \in SUBSET Outputs \ {{}} : ChangeDividers(changed)
  \/ ertm14_clkab_sync_task
  \/ \E c \in Chips : SyncPulse(c)

ClkSpec == ClkInit /\ [][ClkNext]_ClkVars

\* An output that is READY has been aligned since its divider was last written,
\* even if the host changes dividers between the preparation, the pulse and the
\* poll that sees the pulse; and SRQEN is set on no output but the ones waiting
\* for the pulse, so that no output whose configuration has not changed is
\* squelched (ertm14_clkab_sync_task, clkab_set_output_divider).
ReadyIsAligned ==
  \A o \in Outputs : /\ out[o].state = "READY" => out[o].aligned
                     /\ out[o].srqen => out[o].state = "WAIT_TRIGGER"

ClkTypeOK ==
  /\ clkab_sync_state \in {"IDLE", "WAIT_AFTER_PPS", "WAIT_TRIGGER"}
  /\ out \in [Outputs -> [state : {"RESTART", "WAIT_TRIGGER", "READY"},
                          srqen : BOOLEAN, aligned : BOOLEAN]]
  /\ sync \in [Chips -> [armed : BOOLEAN, waiting : BOOLEAN]]

\* Why it holds: an output waits for the pulse only while the task does, keeps
\* SRQEN meanwhile, and is aligned already or its chip is armed and still to be
\* pulsed, so that the task cannot take the chip for triggered.
ClkInv ==
  /\ ClkTypeOK
  /\ ReadyIsAligned
  /\ \A o \in Outputs : out[o].state = "WAIT_TRIGGER" =>
       /\ clkab_sync_state = "WAIT_TRIGGER" /\ out[o].srqen
       /\ out[o].aligned \/ (sync[o[1]].armed /\ sync[o[1]].waiting)
=============================================================================
