------------------------------- MODULE RfPower ------------------------------
(***************************************************************************)
(* The RF outputs of the eRTM15 and the monitor of their power, which      *)
(* measures an output by turning its switch from ON or OFF to MONITOR.     *)
(* The host commits new settings and asks for forced measurements between  *)
(* any two passes of the monitor (boards/ertm14/ertm15_rf_distr.c and the  *)
(* RF monitor of board.c).                                                 *)
(*                                                                         *)
(*   wanted      ref_enabled and lo_enabled: the outputs that are ON       *)
(*   switch      the position of each output's switch                      *)
(*   meas        [state, channel, force]: pwr_meas_state and so on         *)
(*   power       history of pwr_ref_ch, pwr_lo_ch: when each value was     *)
(*               read, "old" if before the last forced request             *)
(*   shown       out_power of the board state the host reads: "invalid"    *)
(*               without its valid flag, else when the value was read      *)
(*   demands     how many more requests the host makes                     *)
(***************************************************************************)
EXTENDS Integers, FiniteSets

CONSTANTS Paths,       \* {"REF", "LO"}
          MaxChannel,  \* channels 1..MaxChannel stand for MIN_ID..MAX_ID
          MaxDemands

ASSUME RfAssumption == MaxChannel \in Nat \ {0}

Channels == 1..MaxChannel
RfOutputs == Paths \X Channels

VARIABLES wanted, switch, meas, power, shown, demands
RfVars == <<wanted, switch, meas, power, shown, demands>>

-----------------------------------------------------------------------------
Idle == meas.state = "DONE"

Position(o, en) == IF o \in en THEN "ON" ELSE "OFF"

ertm15_update_rf_switches(en) == [o \in RfOutputs |-> Position(o, en)]

\* The outputs on the channel being measured that the measurement may touch.
Touched == {o \in RfOutputs : o[2] = meas.channel /\ (meas.force \/ o \notin wanted)}

\* START, without and with force; the latter terminates every output.
MeasStart ==
  /\ Idle
  /\ meas' = [state |-> "PICK_CHANNEL", channel |-> 1, force |-> FALSE]
  /\ UNCHANGED <<switch, power>>

\* A slip of the START state: a forced measurement goes on at the channel that
\* the one it interrupts had reached.
ForcedStart_resumes ==
  /\ meas' = [state |-> "PICK_CHANNEL", channel |-> meas.channel, force |-> TRUE]
  /\ switch' = [o \in RfOutputs |-> "OFF"]

ForcedStart ==
  /\ meas' = [state |-> "PICK_CHANNEL", channel |-> 1, force |-> TRUE]
  /\ switch' = [o \in RfOutputs |-> "OFF"]

MeasPick ==
  /\ meas.state = "PICK_CHANNEL"
  /\ switch' = [o \in RfOutputs |-> IF o \in Touched THEN "MONITOR" ELSE switch[o]]
  /\ meas' = [meas EXCEPT !.state = "READ_ADC"]
  /\ UNCHANGED power

MeasRead ==
  /\ meas.state = "READ_ADC"
  /\ power' = [o \in RfOutputs |-> IF o \in Touched THEN "new" ELSE power[o]]
  /\ switch' = [o \in RfOutputs |-> IF o \in Touched THEN "OFF" ELSE switch[o]]
  /\ meas' = IF meas.channel >= MaxChannel THEN [meas EXCEPT !.state = "FINISH"]
             ELSE [meas EXCEPT !.state = "PICK_CHANNEL", !.channel = @ + 1]

\* A slip of the FINISH state: squelched outputs are not restored.
MeasFinish_squelched ==
  /\ meas.state = "FINISH"
  /\ meas' = [meas EXCEPT !.state = "DONE", !.force = FALSE]
  /\ UNCHANGED <<switch, power>>

MeasFinish ==
  /\ meas.state = "FINISH"
  /\ switch' = IF meas.force THEN [o \in RfOutputs |-> Position(o, wanted)] ELSE switch
  /\ meas' = [meas EXCEPT !.state = "DONE", !.force = FALSE]
  /\ UNCHANGED power

\* A pass of ertm15_update_rf_monitor.  Time-outs and conversions that are not
\* over yet leave everything as it is; the restart of an idle monitor every two
\* seconds and the START state that follows take one pass together.
Publish == shown' = IF Idle THEN power ELSE shown

ertm15_update_rf_monitor ==
  /\ Publish
  /\ \/ MeasStart
     \/ Idle /\ UNCHANGED <<switch, meas, power>>
     \/ MeasPick \/ MeasRead \/ MeasFinish
  /\ UNCHANGED <<wanted, demands>>

\* ertm15_force_rf_power_measurement runs the START state at once.
ertm15_force_rf_power_measurement ==
  /\ demands > 0 /\ demands' = demands - 1
  /\ shown' = [o \in RfOutputs |-> "invalid"]
  /\ power' = [o \in RfOutputs |-> "old"]
  /\ ForcedStart
  /\ UNCHANGED wanted

\* ertm14_apply_config, for the RF outputs.
CommitOutputs(en) ==
  /\ demands > 0 /\ demands' = demands - 1
  /\ wanted' = en
  /\ switch' = ertm15_update_rf_switches(en)
  /\ UNCHANGED <<meas, power, shown>>

RfInit ==
  /\ wanted = {}
  /\ switch = [o \in RfOutputs |-> "OFF"]
  /\ meas = [state |-> "DONE", channel |-> MaxChannel, force |-> FALSE]
  /\ power = [o \in RfOutputs |-> "new"]   \* ertm14_low_level_init measures once
  /\ shown = [o \in RfOutputs |-> "invalid"]
  /\ demands = MaxDemands

RfNext ==
  \/ ertm15_update_rf_monitor
  \/ ertm15_force_rf_power_measurement
  \/ \E en \in SUBSET RfOutputs : CommitOutputs(en)

RfSpec == RfInit /\ [][RfNext]_RfVars

-----------------------------------------------------------------------------
\* Measuring leaves no trace: whenever the monitor is idle every switch is where
\* the committed settings say, and an output that is ON is interrupted by forced
\* measurements only, whatever is committed between picking a channel, reading
\* it and finishing (ertm15_rf_distr_pwrmon_update, ertm15_update_rf_switches).
SwitchesRestored ==
  /\ Idle => switch = [o \in RfOutputs |-> Position(o, wanted)]
  /\ ~ meas.force => \A o \in wanted : switch[o] = "ON"

\* After a forced request the host finds valid powers only once every one of
\* them has been measured again, also when the request interrupts a measurement
\* (ertm15_force_rf_power_measurement, ertm15_update_rf_monitor).
ForcedIsFresh == \A o \in RfOutputs : shown[o] # "old"

RfTypeOK ==
  /\ wanted \subseteq RfOutputs
  /\ switch \in [RfOutputs -> {"ON", "OFF", "MONITOR"}]
  /\ meas \in [state : {"PICK_CHANNEL", "READ_ADC", "FINISH", "DONE"},
               channel : Channels, force : BOOLEAN]
  /\ power \in [RfOutputs -> {"old", "new"}]
  /\ shown \in [RfOutputs -> {"old", "new", "invalid"}]

\* Why the switches are restored: no measurement is forced once it is over, and
\* one that is not forced moves only the switches it is about to read, of
\* outputs that are off.
SwitchInv ==
  /\ Idle => ~ meas.force
  /\ ~ meas.force => \A o \in RfOutputs :
       \/ switch[o] = Position(o, wanted)
       \/ meas.state = "READ_ADC" /\ o \in Touched /\ switch[o] = "MONITOR"

\* Why the powers are fresh: an old one belongs to a forced measurement that has
\* still to come to its channel.
PowerInv ==
  /\ ForcedIsFresh
  /\ \A o \in RfOutputs : power[o] = "old" =>
       /\ meas.force /\ meas.state \in {"PICK_CHANNEL", "READ_ADC"}
       /\ meas.channel <= o[2]

RfInv == RfTypeOK /\ SwitchInv /\ PowerInv
=============================================================================
