----------------------------- MODULE ErtmProofs -----------------------------
(***************************************************************************)
(* Proofs about the parts of an eRTM14 board, for every set of outputs and *)
(* programs, every queue size and every bound of the models: clock outputs *)
(* that are READY are aligned (ClkabSync), RF switches are put back and    *)
(* forced measurements are fresh (RfPower), synthesisers that are          *)
(* synchronised have timing and real triggers (NcoSync), and commits of    *)
(* the configuration are whole (ErtmRpc).                                  *)
(***************************************************************************)
EXTENDS NcoSync, ClkabSync, RfPower, ErtmRpc, SequenceTheorems, TLAPS

-----------------------------------------------------------------------------
(***************************************************************************)
(* Clock outputs (ClkabSync)                                               *)
(***************************************************************************)
\* What the invariant says of one output.
OutRec == [state : {"RESTART", "WAIT_TRIGGER", "READY"}, srqen : BOOLEAN, aligned : BOOLEAN]
OutOK(o) ==
  /\ out[o] \in OutRec
  /\ out[o].state = "READY" => out[o].aligned
  /\ out[o].srqen => out[o].state = "WAIT_TRIGGER"
  /\ out[o].state = "WAIT_TRIGGER" =>
       /\ clkab_sync_state = "WAIT_TRIGGER" /\ out[o].srqen
       /\ out[o].aligned \/ (sync[o[1]].armed /\ sync[o[1]].waiting)

\* The invariant, output by output.
LEMMA ClkByOutput ==
  ClkInv <=> /\ out = [o \in Outputs |-> out[o]]
             /\ clkab_sync_state \in {"IDLE", "WAIT_AFTER_PPS", "WAIT_TRIGGER"}
             /\ sync \in [Chips -> [armed : BOOLEAN, waiting : BOOLEAN]]
             /\ \A o \in Outputs : OutOK(o)
  BY DEF ClkInv, ClkTypeOK, ReadyIsAligned, OutOK, OutRec

\* After reset every output starts over.
LEMMA ClkInitInv == ClkInit => ClkInv
  BY DEF ClkInit, ClkInv, ClkTypeOK, ReadyIsAligned

\* Every step of the synchronisation task, of the hardware and of a request keeps
\* the invariant.
LEMMA ClkStepInv == ClkInv /\ [ClkNext]_ClkVars => ClkInv'
<1> SUFFICES ASSUME ClkInv, [ClkNext]_ClkVars PROVE ClkInv'
  OBVIOUS
<1>0. /\ out = [o \in Outputs |-> out[o]]
      /\ clkab_sync_state \in {"IDLE", "WAIT_AFTER_PPS", "WAIT_TRIGGER"}
      /\ sync \in [Chips -> [armed : BOOLEAN, waiting : BOOLEAN]]
      /\ \A o \in Outputs : OutOK(o)
      /\ \A o \in Outputs : o[1] \in Chips
  BY ClkByOutput, ClkAssumption
<1> SUFFICES /\ out' = [o \in Outputs |-> out'[o]]
             /\ clkab_sync_state' \in {"IDLE", "WAIT_AFTER_PPS", "WAIT_TRIGGER"}
             /\ sync' \in [Chips -> [armed : BOOLEAN, waiting : BOOLEAN]]
             /\ \A o \in Outputs : OutOK(o)'
  BY DEF ClkInv, ClkTypeOK, ReadyIsAligned, OutOK, OutRec
<1>1. ASSUME NEW changed \in SUBSET Outputs \ {{}}, ChangeDividers(changed)
      PROVE  /\ out' = [o \in Outputs |-> out'[o]]
             /\ UNCHANGED <<clkab_sync_state, sync>>
             /\ \A o \in Outputs : OutOK(o)'
  BY Zenon, <1>0, <1>1 DEF ChangeDividers, clkab_set_output_divider, OutOK, OutRec
<1>2. CASE TaskIdle
  BY <1>0, <1>2 DEF TaskIdle, OutOK
<1>3. CASE TaskAfterPps
  BY Zenon, <1>0, <1>3 DEF TaskAfterPps, OutOK, OutRec
<1>4. CASE TaskNotYet
  BY Zenon, <1>0, <1>4 DEF TaskNotYet, Chips, OutOK
<1>5. CASE TaskTriggered
  <2>1. ASSUME NEW o \in Outputs PROVE OutOK(o)'
    <3>1. out[o].state = "WAIT_TRIGGER" => out[o].aligned
      BY Zenon, <1>0, <1>5 DEF TaskTriggered, Triggered, OutOK
    <3> QED BY Zenon, <1>0, <1>5, <3>1 DEF TaskTriggered, OutOK, OutRec
  <2> QED BY Zenon, <1>0, <1>5, <2>1 DEF TaskTriggered
<1>6. ASSUME NEW c \in Chips, SyncPulse(c)
      PROVE  /\ out' = [o \in Outputs |-> out'[o]]
             /\ UNCHANGED clkab_sync_state
             /\ sync' \in [Chips -> [armed : BOOLEAN, waiting : BOOLEAN]]
             /\ \A o \in Outputs : OutOK(o)'
  <2>1. ASSUME NEW o \in Outputs PROVE OutOK(o)'
    <3>1. CASE o[1] = c /\ out[o].srqen
      BY Zenon, <1>0, <1>6, <3>1 DEF SyncPulse, OutOK, OutRec
    <3>2. CASE o[1] # c \/ ~ out[o].srqen
      BY <1>0, <1>6, <3>2 DEF SyncPulse, OutOK, OutRec
    <3> QED BY <3>1, <3>2
  <2> QED BY Zenon, <1>0, <1>6, <2>1 DEF SyncPulse
<1>7. CASE UNCHANGED ClkVars
  BY <1>0, <1>7 DEF ClkVars, OutOK
<1> QED BY Zenon, <1>0, <1>1, <1>2, <1>3, <1>4, <1>5, <1>6, <1>7 DEF ClkNext, ertm14_clkab_sync_task

\* A clock output that is READY is aligned, for any outputs of any chips and any
\* sequence of requests (ertm14_clkab_sync_task).
THEOREM ClocksAreAligned == ClkSpec => []ReadyIsAligned
<1>1. ClkInv => ReadyIsAligned
  BY DEF ClkInv
<1> QED BY <1>1, ClkInitInv, ClkStepInv, PTL DEF ClkSpec

-----------------------------------------------------------------------------
(***************************************************************************)
(* RF power (RfPower)                                                      *)
(***************************************************************************)
\* Nothing is measured at the start.
LEMMA RfInitInv == RfInit => RfInv
  BY RfAssumption DEF RfInit, RfInv, RfTypeOK, SwitchInv, PowerInv, Idle, Position, ForcedIsFresh,
     Channels, RfOutputs

\* Every step of the measurement and every request keeps the invariant.
LEMMA RfStepInv == RfInv /\ [RfNext]_RfVars => RfInv'
<1> SUFFICES ASSUME RfInv, [RfNext]_RfVars PROVE RfInv'
  OBVIOUS
<1> USE RfAssumption DEF RfInv, RfTypeOK, SwitchInv, PowerInv, ForcedIsFresh, Idle
<1>0. \A o \in RfOutputs : o[2] \in Channels
  BY SMTT(30) DEF RfOutputs
<1>1. CASE ertm15_update_rf_monitor
  <2>1. CASE MeasStart
    BY <1>1, <2>1 DEF ertm15_update_rf_monitor, Publish, MeasStart, Channels
  <2>2. CASE Idle /\ UNCHANGED <<switch, meas, power>>
    BY <1>1, <2>2 DEF ertm15_update_rf_monitor, Publish, Touched
  <2>3. CASE MeasPick
    BY <1>1, <2>3 DEF ertm15_update_rf_monitor, Publish, MeasPick, Touched
  <2>4. CASE MeasRead
    <3> DEFINE c == meas.channel
    <3>0. c \in 1..MaxChannel /\ UNCHANGED <<wanted, shown>>
      BY <1>1, <2>4 DEF ertm15_update_rf_monitor, Publish, MeasRead, Channels
    <3>1. /\ meas' = [state |-> IF c >= MaxChannel THEN "FINISH" ELSE "PICK_CHANNEL",
                      channel |-> IF c >= MaxChannel THEN c ELSE c + 1,
                      force |-> meas.force]
          /\ meas.force \in BOOLEAN
      BY Zenon, <2>4 DEF MeasRead
    <3>a. /\ power' \in [RfOutputs -> {"old", "new"}]
          /\ switch' \in [RfOutputs -> {"ON", "OFF", "MONITOR"}]
      BY <2>4 DEF MeasRead
    <3>b. meas' \in [state : {"PICK_CHANNEL", "READ_ADC", "FINISH", "DONE"},
                     channel : Channels, force : BOOLEAN]
      BY <3>0, <3>1 DEF Channels
    <3>2. SwitchInv'
      BY <2>4, <3>0, <3>1 DEF MeasRead, Touched, Position
    <3>3. ASSUME NEW o \in RfOutputs, power'[o] = "old"
          PROVE  power[o] = "old" /\ o[2] # meas.channel
      BY <2>4, <3>3 DEF MeasRead, Touched
    <3>4. ASSUME NEW o \in RfOutputs, power'[o] = "old"
          PROVE  meas'.force /\ meas'.state = "PICK_CHANNEL" /\ meas'.channel <= o[2]
      <4>1. power[o] = "old" /\ o[2] # c /\ o[2] \in 1..MaxChannel /\ c <= o[2] /\ meas.force
        BY <1>0, <3>3, <3>4 DEF Channels
      <4>2. c < MaxChannel /\ c + 1 <= o[2]
        BY <3>0, <4>1
      <4> QED BY <3>0, <3>1, <4>1, <4>2
    <3> QED BY <3>0, <3>2, <3>4, <3>a, <3>b
  <2>5. CASE MeasFinish
    BY Zenon, <1>1, <2>5 DEF ertm15_update_rf_monitor, Publish, MeasFinish, Position
  <2> QED BY <1>1, <2>1, <2>2, <2>3, <2>4, <2>5 DEF ertm15_update_rf_monitor
<1>2. CASE ertm15_force_rf_power_measurement
  BY <1>0, <1>2 DEF ertm15_force_rf_power_measurement, ForcedStart, Channels
<1>3. ASSUME NEW en \in SUBSET RfOutputs, CommitOutputs(en) PROVE RfInv'
  BY <1>3 DEF CommitOutputs, ertm15_update_rf_switches, Position
<1>4. CASE UNCHANGED RfVars
  BY <1>4 DEF RfVars, Touched, Position
<1> QED BY <1>1, <1>2, <1>3, <1>4 DEF RfNext

\* The measurement puts the switches back, for any outputs and any sequence of
\* demands (ertm15_update_rf_monitor).
THEOREM SwitchesAreRestored == RfSpec => []SwitchesRestored
<1>1. RfInv => SwitchesRestored
  <2> SUFFICES ASSUME RfInv PROVE SwitchesRestored
    OBVIOUS
  <2>1. ASSUME Idle PROVE switch = [o \in RfOutputs |-> Position(o, wanted)]
    <3>1. \A o \in RfOutputs : switch[o] = Position(o, wanted)
      BY <2>1 DEF RfInv, SwitchInv, Idle
    <3> QED BY <3>1 DEF RfInv, RfTypeOK
  <2>2. ASSUME ~ meas.force, NEW o \in wanted PROVE switch[o] = "ON"
    BY <2>2 DEF RfInv, RfTypeOK, SwitchInv, Touched, Position
  <2> QED BY <2>1, <2>2 DEF SwitchesRestored
<1> QED BY <1>1, RfInitInv, RfStepInv, PTL DEF RfSpec

\* What a forced measurement shows was measured after it was asked for.
THEOREM ForcedMeasurementsAreFresh == RfSpec => []ForcedIsFresh
<1>1. RfInv => ForcedIsFresh
  BY DEF RfInv, PowerInv
<1> QED BY <1>1, RfInitInv, RfStepInv, PTL DEF RfSpec

-----------------------------------------------------------------------------
(***************************************************************************)
(* Synthesisers (NcoSync): the queue                                       *)
(***************************************************************************)
\* Posting loses none of the events already queued, and each new one is queued
\* or counted as dropped.
LEMMA PostKeepsEvents ==
  ASSUME NcoTypeOK, NEW evs \in Seq(EventNames), NEW silent \in BOOLEAN, PostEvents(evs, silent)
  PROVE  /\ events' \in Seq(EventNames) /\ Len(events') <= NcoCapacity
         /\ lost' \in BOOLEAN /\ unseen' \in BOOLEAN
         /\ (lost => lost') /\ (unseen => unseen') /\ (silent => unseen')
         /\ \A E : Pending(E) => Pending(E)'
         /\ \A i \in 1..Len(evs) : \A E : evs[i] \in E =>
              Pending(E)' \/ evs[i] \in Dropped(evs)
<1> DEFINE k == IF Len(evs) > Room THEN Room ELSE Len(evs)
           sub == SubSeq(evs, 1, k)
<1>1. /\ events \in Seq(EventNames) /\ Len(events) \in Nat /\ Len(evs) \in Nat
      /\ NcoCapacity \in Nat /\ Room \in Nat /\ Len(events) + Room = NcoCapacity
  BY NcoAssumption DEF NcoTypeOK, Room
<1>2. k \in 0..Len(evs) /\ k <= Room
  BY <1>1
<1>3. sub \in Seq(EventNames) /\ Len(sub) = k /\ \A i \in 1..k : sub[i] = evs[i]
  BY <1>2
<1>4. events' = events \o sub
  BY DEF PostEvents
<1> HIDE DEF k, sub
<1>5. /\ events' \in Seq(EventNames) /\ Len(events') = Len(events) + k
      /\ \A i \in 1..Len(events) : events'[i] = events[i]
      /\ \A i \in 1..k : events'[Len(events) + i] = evs[i]
  <2>1. /\ events \o sub \in Seq(EventNames) /\ Len(events \o sub) = Len(events) + Len(sub)
        /\ \A i \in 1..Len(events) + Len(sub) :
             (events \o sub)[i] = IF i <= Len(events) THEN events[i] ELSE sub[i - Len(events)]
    BY <1>1, <1>3, ConcatProperties, Zenon
  <2>2. \A i \in 1..k : Len(events) + i - Len(events) = i /\ Len(events) + i > Len(events)
                        /\ Len(events) + i \in 1..Len(events) + k
    BY <1>1, <1>2
  <2>3. \A i \in 1..k : events'[Len(events) + i] = sub[i]
    BY <1>1, <1>2, <1>3, <1>4, <2>1, <2>2
  <2>4. events' \in Seq(EventNames) /\ Len(events') = Len(events) + k
    BY <1>3, <1>4, <2>1, Zenon
  <2>5. \A i \in 1..Len(events) : i \in 1..Len(events) + Len(sub) /\ i <= Len(events)
    BY <1>1, <1>2, <1>3
  <2>6. \A i \in 1..Len(events) : events'[i] = events[i]
    BY <1>4, <2>1, <2>5, Zenon
  <2>7. QED BY <1>3, <2>3, <2>4, <2>6, Zenon
<1>6. ASSUME NEW E, Pending(E) PROVE Pending(E)'
  <2>1. PICK i \in 1..Len(events) : events[i] \in E
    BY <1>6 DEF Pending
  <2>2. i \in 1..Len(events') /\ events'[i] \in E
    BY <1>1, <1>2, <1>5, <2>1
  <2> QED BY <2>2 DEF Pending
<1>7. ASSUME NEW i \in 1..Len(evs), NEW E, evs[i] \in E
      PROVE  Pending(E)' \/ evs[i] \in Dropped(evs)
  <2>1. CASE i <= k
    <3>1. Len(events) + i \in 1..Len(events') /\ events'[Len(events) + i] \in E
      BY <1>1, <1>2, <1>5, <1>7, <2>1
    <3> QED BY <3>1 DEF Pending
  <2>2. CASE i > k
    <3>1. i > Room
      BY <1>1, <2>2 DEF k
    <3> QED BY <3>1 DEF Dropped
  <2> QED BY <1>2, <2>1, <2>2
<1>8. /\ lost' \in BOOLEAN /\ unseen' \in BOOLEAN
      /\ (lost => lost') /\ (unseen => unseen') /\ (silent => unseen')
  BY Zenon DEF PostEvents
<1>9. Len(events') <= NcoCapacity
  BY <1>1, <1>2, <1>5
<1> QED BY <1>5, <1>6, <1>7, <1>8, <1>9

\* One event, or none, as a sequence.
LEMMA OneEvent ==
  /\ \A e \in EventNames : <<e>> \in Seq(EventNames) /\ Len(<<e>>) = 1 /\ <<e>>[1] = e
  /\ << >> \in Seq(EventNames) /\ Len(<< >>) = 0
  OBVIOUS

\* Taking the oldest event leaves the others queued.
LEMMA TakeKeepsEvents ==
  ASSUME NcoTypeOK, events # << >>, events' = Tail(events)
  PROVE  /\ events' \in Seq(EventNames) /\ Len(events') <= NcoCapacity
         /\ \A E : Pending(E) => Head(events) \in E \/ Pending(E)'
<1>1. /\ events \in Seq(EventNames) /\ Len(events) \in Nat \ {0} /\ NcoCapacity \in Nat
      /\ Len(events) <= NcoCapacity
  BY NcoAssumption DEF NcoTypeOK
<1>2. /\ events' \in Seq(EventNames) /\ Len(events') = Len(events) - 1
      /\ \A i \in 1..Len(events) - 1 : events'[i] = events[i + 1]
      /\ Head(events) = events[1]
  BY <1>1
<1>3. ASSUME NEW E, Pending(E), Head(events) \notin E PROVE Pending(E)'
  <2>1. PICK i \in 1..Len(events) : events[i] \in E
    BY <1>3 DEF Pending
  <2>2. i # 1
    BY <1>2, <1>3, <2>1
  <2>3. i - 1 \in 1..Len(events') /\ events'[i - 1] = events[i]
    BY <1>1, <1>2, <2>1, <2>2
  <2> QED BY <2>1, <2>3 DEF Pending
<1>4. Len(events') <= NcoCapacity
  BY <1>1, <1>2
<1> QED BY <1>2, <1>3, <1>4

-----------------------------------------------------------------------------
(***************************************************************************)
(* Synthesisers: the state machine                                         *)
(***************************************************************************)
\* Synced(d), of a record.
SyncedNco(n) == n.state \in {"WAIT_TRIGGER", "READY"} /\ n.source # "none"

\* Setting a channel up, and arming one that is set up.
LEMMA SetupShape ==
  ASSUME NEW n \in Nco, NEW enable \in BOOLEAN
  PROVE  LET r == fine_pulse_gen_setup_channel(n, enable)
         IN  /\ r \in Nco
             /\ r.enabled = enable /\ r.armed = FALSE /\ r.count = 0 /\ r.pulses = 0
             /\ r.state = n.state /\ r.source = n.source /\ r.waiting = n.waiting
<1> DEFINE h == [n EXCEPT !.enabled = enable, !.armed = FALSE]
           r == [h EXCEPT !.count = 0, !.pulses = 0]
<1>1. 0 \in 0..MaxPulses
  BY NcoAssumption
<1>2. h \in Nco
  BY Zenon DEF Nco
<1>3. h.enabled = enable /\ h.armed = FALSE /\ h.state = n.state /\ h.source = n.source
      /\ h.waiting = n.waiting
  BY Zenon DEF Nco
<1> HIDE DEF h
<1>4. r \in Nco
  BY Zenon, <1>1, <1>2 DEF Nco
<1>5. r.count = 0 /\ r.pulses = 0 /\ r.enabled = h.enabled /\ r.armed = h.armed
      /\ r.state = h.state /\ r.source = h.source /\ r.waiting = h.waiting
  BY <1>2, Zenon DEF Nco
<1>6. fine_pulse_gen_setup_channel(n, enable) = r
  BY DEF fine_pulse_gen_setup_channel, h
<1> HIDE DEF r
<1> QED BY <1>3, <1>4, <1>5, <1>6

\* Arming a channel.
LEMMA ArmShape ==
  ASSUME NEW n \in Nco, n.source # "none", n.enabled
  PROVE  LET r == rf_nco_sync_arm_channel(n)
         IN  /\ r \in Nco /\ r.armed = TRUE /\ r.waiting = TRUE
             /\ r.state = n.state /\ r.source = n.source /\ r.count = n.count
             /\ r.enabled = n.enabled /\ r.pulses = n.pulses
<1> DEFINE r == [n EXCEPT !.armed = TRUE, !.waiting = TRUE]
<1>1. r \in Nco
  BY Zenon DEF Nco
<1>2. /\ r.armed = TRUE /\ r.waiting = TRUE
      /\ r.state = n.state /\ r.source = n.source /\ r.count = n.count
      /\ r.enabled = n.enabled /\ r.pulses = n.pulses
  BY Zenon DEF Nco
<1>3. rf_nco_sync_arm_channel(n) = r
  BY DEF rf_nco_sync_arm_channel, fine_pulse_gen_trigger
<1> HIDE DEF r
<1> QED BY Zenon, <1>1, <1>2, <1>3

\* An event that restarts the state machine leaves it short of synchronised.
LEMMA RestartShape ==
  ASSUME NEW n \in Nco
  PROVE  SyncRestart(n) \in Nco /\ ~ SyncedNco(SyncRestart(n))
<1> DEFINE set == fine_pulse_gen_setup_channel(n, FALSE)
           st  == IF n.source = "none" THEN "READY" ELSE "WAIT_TIMING"
<1>1. SyncRestart(n) = [set EXCEPT !.state = st]
  BY DEF SyncRestart
<1>2. set \in Nco /\ set.source = n.source
  BY Zenon, SetupShape
<1>3. st \in {"RESTART", "WAIT_TIMING", "CONFIGURE", "WAIT_TRIGGER", "READY"}
  OBVIOUS
<1> HIDE DEF set, st
<1>4. SyncRestart(n) \in Nco /\ SyncRestart(n).state = st /\ SyncRestart(n).source = n.source
  BY <1>1, <1>2, <1>3 DEF Nco
<1> QED BY <1>4 DEF SyncedNco, st

\* The same of the whole state machine.
LEMMA RestartEvent ==
  ASSUME NcoTypeOK, NEW d \in Dds, NEW event \in Restarts(d)
  PROVE  /\ rf_nco_sync_fsm(d, event) \in Nco
         /\ ~ SyncedNco(rf_nco_sync_fsm(d, event))
<1> DEFINE n == [nco[d] EXCEPT !.state = "RESTART", !.count = 0]
<1>1. nco[d] \in Nco /\ 0 \in 0..MaxPulses
  BY NcoAssumption DEF NcoTypeOK
<1>2. n \in Nco /\ n.state = "RESTART"
  BY Zenon, <1>1 DEF Nco
<1>3. rf_nco_sync_fsm(d, event) = SyncRestart(n)
  BY SMTT(30), <1>2 DEF rf_nco_sync_fsm
<1> HIDE DEF n
<1> QED BY <1>2, <1>3, RestartShape

\* Without one, a synthesiser is synchronised afterwards only if timing is up
\* and its channel has just been armed, or if it was before; its counts stay
\* true.
LEMMA GoOnShape ==
  ASSUME NcoTypeOK, NEW d \in Dds, NEW event, event \notin Restarts(d)
  PROVE  LET r == rf_nco_sync_fsm(d, event)
         IN  /\ r \in Nco
             /\ SyncedNco(r) => watch.ok \/ SyncedNco(nco[d])
             /\ SyncedNco(r) /\ (SyncedNco(nco[d]) => ArmedAndCounted(nco[d]))
                  => ArmedAndCounted(r)
<1> DEFINE n == nco[d]
           r == rf_nco_sync_fsm(d, event)
<1>1. n \in Nco
  BY DEF NcoTypeOK
<1>2. r = CASE n.state = "RESTART" -> SyncRestart(n)
            [] n.state = "WAIT_TIMING" -> SyncWaitTiming(n)
            [] n.state = "CONFIGURE" -> SyncConfigure(n)
            [] OTHER -> SyncWaitTrigger(n)
  BY DEF rf_nco_sync_fsm
<1> HIDE DEF n, r
<1>p. MaxPulses \in Nat \ {0}
  BY NcoAssumption
<1>3. CASE n.state = "RESTART"
  <2>1. r = SyncRestart(n)
    BY <1>2, <1>3
  <2> QED BY <1>1, <2>1, RestartShape DEF n, r
<1>4. CASE n.state = "WAIT_TIMING"
  <2>1. r = SyncWaitTiming(n)
    BY <1>2, <1>4
  <2>2. r \in Nco /\ r.state \in {"CONFIGURE", "WAIT_TIMING"}
    BY <1>1, <1>4, <2>1 DEF SyncWaitTiming, Nco
  <2> QED BY <2>2 DEF SyncedNco, n, r
<1>5. CASE n.state = "CONFIGURE"
  <2>1. r = SyncConfigure(n)
    BY <1>2, <1>5
  <2>2. CASE ~ watch.ok
    <3>1. r \in Nco /\ r.state = "WAIT_TIMING"
      BY <1>1, <2>1, <2>2 DEF SyncConfigure, Nco
    <3> QED BY <3>1 DEF SyncedNco, n, r
  <2>3. CASE watch.ok
    <3> DEFINE set == fine_pulse_gen_setup_channel(n, TRUE)
               arm == rf_nco_sync_arm_channel(set)
    <3>1. /\ set \in Nco /\ set.source = n.source /\ set.enabled = TRUE
          /\ set.count = 0 /\ set.pulses = 0
      BY Zenon, <1>1, SetupShape
    <3>2. r = [arm EXCEPT !.state = "WAIT_TRIGGER"]
      BY <2>1, <2>3 DEF SyncConfigure
    <3>a. n.source = "none" => arm = set
      BY <3>1 DEF rf_nco_sync_arm_channel
    <3> HIDE DEF set
    <3>3. CASE n.source = "none"
      <4>1. r \in Nco /\ r.source = "none"
        BY SMTT(30), <3>1, <3>2, <3>3, <3>a DEF Nco
      <4> QED BY <4>1 DEF SyncedNco, n, r
    <3>4. CASE n.source # "none"
      <4>1. arm \in Nco /\ arm.enabled /\ arm.armed /\ arm.waiting /\ arm.count = 0
            /\ arm.pulses = 0
        BY Zenon, <3>1, <3>4, ArmShape
      <4> HIDE DEF arm
      <4>2. r \in Nco /\ r.enabled /\ r.armed /\ r.waiting /\ r.count = 0 /\ r.pulses = 0
            /\ r.state = "WAIT_TRIGGER"
        BY <3>2, <4>1 DEF Nco
      <4>3. ArmedAndCounted(r)
        BY <4>2 DEF ArmedAndCounted
      <4> QED BY <2>3, <4>2, <4>3 DEF n, r
    <3> QED BY <3>3, <3>4
  <2> QED BY <2>2, <2>3
<1>6. CASE n.state \in {"WAIT_TRIGGER", "READY"}
  <2>1. r = SyncWaitTrigger(n)
    BY <1>2, <1>6
  <2>2. CASE n.source = "none"
    <3>1. r \in Nco /\ r.source = "none"
      BY <1>1, <2>1, <2>2 DEF SyncWaitTrigger, Nco
    <3> QED BY <3>1 DEF SyncedNco, n, r
  <2>3. CASE n.source # "none" /\ ~ fine_pulse_gen_is_triggered(n)
    <3>1. r = n
      BY <2>1, <2>3 DEF SyncWaitTrigger
    <3> QED BY <1>1, <3>1 DEF n, r
  <2>4. CASE n.source # "none" /\ fine_pulse_gen_is_triggered(n)
    <3> DEFINE counted == [n EXCEPT !.count = Capped(n.count + 1), !.armed = FALSE]
    <3>1. r = [rf_nco_sync_arm_channel(counted) EXCEPT !.state = "READY"]
      BY <2>1, <2>4 DEF SyncWaitTrigger
    <3>2. Capped(n.count + 1) \in 1..MaxPulses
      BY <1>1, <1>p DEF Capped, Nco
    <3>3. counted \in Nco /\ counted.count = Capped(n.count + 1) /\ counted.source = n.source
          /\ counted.enabled = n.enabled /\ counted.pulses = n.pulses
      <4>1. Capped(n.count + 1) \in 0..MaxPulses
        BY <1>p, <3>2
      <4>2. counted \in Nco
        BY Zenon, <1>1, <4>1 DEF Nco
      <4> QED BY <1>1, <4>2, Zenon DEF Nco
    <3>4. rf_nco_sync_arm_channel(counted) = fine_pulse_gen_trigger(counted)
      BY <2>4, <3>3 DEF rf_nco_sync_arm_channel
    <3> HIDE DEF counted
    <3>5. r \in Nco /\ SyncedNco(n)
      BY ZenonT(60), <1>6, <2>4, <3>1, <3>3, <3>4 DEF fine_pulse_gen_trigger, Nco, SyncedNco
    <3>6. ASSUME ArmedAndCounted(n) PROVE ArmedAndCounted(r)
      <4>1. ~ n.waiting /\ n.enabled
        BY <2>4, <3>6 DEF ArmedAndCounted, fine_pulse_gen_is_triggered
      <4>2. r = [counted EXCEPT !.armed = TRUE, !.waiting = TRUE, !.state = "READY"]
        BY <3>1, <3>3, <3>4, <4>1 DEF fine_pulse_gen_trigger
      <4>3. /\ r.enabled /\ r.armed /\ r.waiting /\ r.pulses = n.pulses
            /\ r.count = Capped(n.count + 1)
        BY Zenon, <3>3, <4>1, <4>2 DEF Nco
      <4>4. Capped(n.count + 1) <= n.pulses
        BY <1>1, <1>p, <3>6, <4>1 DEF ArmedAndCounted, Capped, Nco
      <4> QED BY <3>2, <4>3, <4>4 DEF ArmedAndCounted
    <3> QED BY <3>5, <3>6 DEF n, r
  <2> QED BY <2>2, <2>3, <2>4
<1> QED BY <1>1, <1>3, <1>4, <1>5, <1>6 DEF Nco
-----------------------------------------------------------------------------
(***************************************************************************)
(* Synthesisers: the invariant                                             *)
(***************************************************************************)
\* What the invariant says of one synthesiser.
Counted(d) == Synced(d) /\ ~ Pending({d}) /\ ~ lost => ArmedAndCounted(nco[d])
Timed(d) ==
  Synced(d) /\ ~ lost /\ ~ unseen => (watch.ok /\ PortTimed) \/ Pending(Restarts(d))

\* At the start no synthesiser is synchronised.
LEMMA NcoInitInv == NcoInit => NcoInv
<1> SUFFICES ASSUME NcoInit PROVE NcoInv
  OBVIOUS
<1>1. NcoTypeOK
  <2>1. events \in Seq(EventNames) /\ Len(events) = 2
    BY DEF NcoInit, EventNames
  <2>2. nco \in [Dds -> Nco]
    BY NcoAssumption DEF NcoInit, Nco, Sources
  <2>3. Len(events) <= NcoCapacity
    BY <2>1, NcoAssumption
  <2>4. task \in 1..Len(Tasks)
    BY DEF NcoInit, Tasks
  <2>5. ptp \in [mode : Modes, state : PortStates, servo : ServoStates]
    BY DEF NcoInit, Modes, PortStates, ServoStates
  <2>6. watch \in [mode : Modes \cup {"unknown"}, state : PortStates \cup {"unknown"},
                   servo : ServoStates \cup {"unknown"}, ok : BOOLEAN]
    BY DEF NcoInit
  <2>7. link \in BOOLEAN /\ lost \in BOOLEAN /\ unseen \in BOOLEAN
    BY Zenon DEF NcoInit
  <2> QED BY SMTT(30), <2>1, <2>2, <2>3, <2>4, <2>5, <2>6, <2>7 DEF NcoTypeOK
<1>2. \A d \in Dds : ~ Synced(d)
  BY Zenon DEF NcoInit, Synced
<1>3. ~ watch.ok
  BY SMTT(30) DEF NcoInit
<1> QED BY <1>1, <1>2, <1>3 DEF NcoInv, SyncedHasTiming

\* A step that posts events and touches no synthesiser keeps what is counted.
LEMMA PostKeepsCounted ==
  ASSUME NcoInv, NEW evs \in Seq(EventNames), NEW silent \in BOOLEAN, PostEvents(evs, silent),
         nco' = nco, NEW d \in Dds
  PROVE  Counted(d)'
<1>1. /\ lost => lost'
      /\ Pending({d}) => Pending({d})'
  BY SMTT(30), PostKeepsEvents DEF NcoInv
<1> QED BY SMTT(30), <1>1 DEF NcoInv, Counted, Synced, ArmedAndCounted

\* The link check: a link that goes down clears prev_timing_ok and posts the event
\* that restarts every synthesiser.
LEMMA LinkStep ==
  ASSUME NcoInv, NEW state \in BOOLEAN, wrc_check_link(state), task' \in 1..Len(Tasks)
  PROVE  NcoInv'
<1> DEFINE evs == IF ~ link /\ state THEN <<"link_up">>
                  ELSE IF link /\ ~ state THEN <<"link_down">> ELSE << >>
<1>1. evs \in Seq(EventNames) /\ PostEvents(evs, FALSE)
  <2>1. "link_up" \in EventNames /\ "link_down" \in EventNames
    BY DEF EventNames
  <2>2. evs = <<"link_up">> \/ evs = <<"link_down">> \/ evs = << >>
    OBVIOUS
  <2>3. PostEvents(evs, FALSE)
    BY Zenon DEF wrc_check_link
  <2> QED BY Zenon, <2>1, <2>2, <2>3, OneEvent
<1>2. link /\ ~ state => evs = <<"link_down">>
  OBVIOUS
<1> HIDE DEF evs
<1>3. NcoTypeOK
  BY DEF NcoInv
<1>4. NcoTypeOK'
  BY Zenon, <1>1, <1>3, PostKeepsEvents DEF NcoTypeOK, wrc_check_link
<1>5. ASSUME NEW d \in Dds PROVE Counted(d)'
  BY Zenon, <1>1, PostKeepsCounted DEF wrc_check_link
<1>6. /\ watch'.mode = watch.mode /\ watch'.state = watch.state /\ watch'.servo = watch.servo
      /\ watch'.ok <=> (watch.ok /\ ~ (link /\ ~ state))
  BY <1>3 DEF wrc_check_link, NcoTypeOK
<1>7. watch'.ok => PortTimed'
  BY <1>6 DEF NcoInv, PortTimed
<1>8. ASSUME NEW d \in Dds PROVE Timed(d)'
  <2>1. /\ Pending(Restarts(d)) => Pending(Restarts(d))'
        /\ lost => lost'
        /\ unseen => unseen'
    BY Zenon, <1>1, <1>3, PostKeepsEvents
  <2>2. CASE link /\ ~ state
    <3>1. Pending(Restarts(d))' \/ "link_down" \in Dropped(evs)
      <4>1. 1 \in 1..Len(evs) /\ evs[1] = "link_down" /\ evs[1] \in Restarts(d)
        BY <1>2, <2>2 DEF Restarts
      <4> QED BY Zenon, <1>1, <1>3, <4>1, PostKeepsEvents
    <3>2. "link_down" \in Dropped(evs) => unseen'
      BY Zenon, <1>1 DEF PostEvents
    <3> QED BY <3>1, <3>2 DEF Timed, Restarts
  <2>3. CASE ~ (link /\ ~ state)
    <3>1. (watch.ok /\ PortTimed) => (watch.ok /\ PortTimed)'
      BY <1>6, <2>3 DEF PortTimed
    <3>2. Timed(d) /\ (Synced(d)' <=> Synced(d))
      BY SMTT(30) DEF NcoInv, SyncedHasTiming, Timed, wrc_check_link, Synced
    <3> QED BY <2>1, <3>1, <3>2 DEF Timed, Restarts
  <2> QED BY <2>2, <2>3
<1> QED BY <1>4, <1>5, <1>7, <1>8 DEF NcoInv, SyncedHasTiming, Counted, Timed

\* Steps that change nothing but what the PTP stack shows.
LEMMA PtpStep ==
  ASSUME NcoInv, UNCHANGED <<link, watch, events, nco, lost, unseen>>, task' \in 1..Len(Tasks),
         ptp' \in [mode : Modes, state : PortStates, servo : ServoStates]
  PROVE  NcoInv'
  BY SMTT(30) DEF NcoInv, NcoTypeOK, Synced, Pending, ArmedAndCounted, PortTimed, SyncedHasTiming, Restarts

\* The watcher: timing that is lost is lost with an event, or with a change of mode.
LEMMA WatchStep ==
  ASSUME NcoInv, wrc_events_ptp_poll, task' \in 1..Len(Tasks)
  PROVE  NcoInv'
<1> DEFINE changed == ptp.mode # watch.mode
           first == IF changed THEN <<"mode_changed">> ELSE << >>
           second == IF TimingCameUp THEN <<"timing_up">>
                     ELSE IF TimingWentDown THEN <<"timing_down">> ELSE << >>
           evs == first \o second
<1>0. first \in Seq(EventNames) /\ second \in Seq(EventNames)
  <2>1. "mode_changed" \in EventNames /\ "timing_up" \in EventNames
        /\ "timing_down" \in EventNames
    BY DEF EventNames
  <2>2. first = <<"mode_changed">> \/ first = << >>
    OBVIOUS
  <2>3. second = <<"timing_up">> \/ second = <<"timing_down">> \/ second = << >>
    BY SMTT(30)
  <2> HIDE DEF first, second
  <2> QED BY Zenon, <2>1, <2>2, <2>3, OneEvent
<1>1. evs \in Seq(EventNames) /\ PostEvents(evs, watch.ok /\ changed)
      /\ (watch.ok /\ changed) \in BOOLEAN
  <2>1. PostEvents(evs, watch.ok /\ changed)
    BY DEF wrc_events_ptp_poll
  <2> HIDE DEF first, second
  <2> QED BY <1>0, <2>1
<1>2. ~ TimingCameUp /\ TimingWentDown => \E i \in 1..Len(evs) : evs[i] = "timing_down"
  <2> SUFFICES ASSUME ~ TimingCameUp, TimingWentDown
               PROVE  \E i \in 1..Len(evs) : evs[i] = "timing_down"
    OBVIOUS
  <2>1. second = <<"timing_down">>
    OBVIOUS
  <2> HIDE DEF first, second
  <2>2. Len(evs) = Len(first) + 1 /\ evs[Len(first) + 1] = "timing_down" /\ Len(first) \in Nat
    BY <1>0, <2>1
  <2>3. Len(first) + 1 \in 1..Len(evs)
    BY <2>2
  <2> QED BY <2>2, <2>3
<1>3. NcoTypeOK
  BY DEF NcoInv
<1>4. /\ watch'.mode = ptp.mode /\ watch'.state = ptp.state /\ watch'.servo = ptp.servo
      /\ watch'.ok <=> (TimingCameUp \/ (watch.ok /\ ~ changed /\ ~ TimingWentDown))
  BY Zenon DEF wrc_events_ptp_poll
<1> HIDE DEF evs
<1>5. NcoTypeOK'
  <2>1. watch' \in [mode : Modes \cup {"unknown"}, state : PortStates \cup {"unknown"},
                    servo : ServoStates \cup {"unknown"}, ok : BOOLEAN]
    BY <1>3 DEF wrc_events_ptp_poll, NcoTypeOK
  <2> QED BY Zenon, <1>1, <1>3, <2>1, PostKeepsEvents DEF NcoTypeOK, wrc_events_ptp_poll
<1>6. ASSUME NEW d \in Dds PROVE Counted(d)'
  BY Zenon, <1>1, PostKeepsCounted DEF wrc_events_ptp_poll
<1>7. watch'.ok => PortTimed'
  <2> SUFFICES ASSUME watch'.ok PROVE PortTimed'
    OBVIOUS
  <2>1. CASE TimingCameUp
    BY <1>4, <2>1 DEF TimingCameUp, PortTimed
  <2>2. CASE watch.ok /\ ~ changed /\ ~ TimingWentDown
    <3>1. PortTimed
      BY <2>2 DEF NcoInv
    <3> QED BY <1>4, <2>2, <3>1 DEF TimingWentDown, PortTimed
  <2> QED BY <1>4, <2>1, <2>2
<1>8. ASSUME NEW d \in Dds PROVE Timed(d)'
  <2>1. /\ Pending(Restarts(d)) => Pending(Restarts(d))'
        /\ lost => lost'
        /\ unseen => unseen'
        /\ watch.ok /\ changed => unseen'
    BY ZenonT(60), <1>1, <1>3, PostKeepsEvents
  <2>2. Timed(d) /\ (Synced(d)' <=> Synced(d))
    BY DEF NcoInv, SyncedHasTiming, Timed, wrc_events_ptp_poll, Synced
  <2>3. CASE watch'.ok
    BY <1>7, <2>3 DEF Timed
  <2>4. CASE ~ watch.ok
    BY <2>1, <2>2, <2>4 DEF Timed, Restarts
  <2>5. CASE watch.ok /\ changed
    BY <2>1, <2>5 DEF Timed
  <2>6. CASE ~ TimingCameUp /\ TimingWentDown
    <3>1. PICK i \in 1..Len(evs) : evs[i] = "timing_down"
      BY <1>2, <2>6
    <3>2. Pending(Restarts(d))' \/ "timing_down" \in Dropped(evs)
      <4>1. evs[i] \in Restarts(d)
        BY <3>1 DEF Restarts
      <4> QED BY Zenon, <1>1, <1>3, <3>1, <4>1, PostKeepsEvents
    <3>3. "timing_down" \in Dropped(evs) => unseen'
      BY Zenon, <1>1 DEF PostEvents
    <3> QED BY <3>2, <3>3 DEF Timed, Restarts
  <2> QED BY <1>4, <2>3, <2>4, <2>5, <2>6
<1> QED BY <1>5, <1>6, <1>7, <1>8 DEF NcoInv, SyncedHasTiming, Counted, Timed
\* A synthesiser that a request leaves alone keeps what is known of it.
LEMMA RequestElsewhere ==
  ASSUME NcoInv, NEW evs \in Seq(EventNames), PostEvents(evs, FALSE), watch' = watch,
         NEW d \in Dds, nco'[d] = nco[d]
  PROVE  Counted(d)' /\ Timed(d)'
<1>1. /\ (lost => lost') /\ (unseen => unseen')
      /\ Pending({d}) => Pending({d})'
      /\ Pending(Restarts(d)) => Pending(Restarts(d))'
  BY Zenon, PostKeepsEvents DEF NcoInv
<1>2. Counted(d) /\ Timed(d)
  BY DEF NcoInv, SyncedHasTiming, Counted, Timed
<1>3. Synced(d)' <=> Synced(d)
  BY SMTT(30) DEF Synced
<1>4. Counted(d)'
  BY <1>1, <1>2, <1>3 DEF Counted, ArmedAndCounted
<1>5. PortTimed' <=> PortTimed
  BY SMTT(30) DEF PortTimed
<1>6. Timed(d)'
  BY <1>1, <1>2, <1>3, <1>5 DEF Timed, Restarts
<1> QED BY <1>4, <1>6

\* A synthesiser told by an event is excused until it has seen the event.
LEMMA RequestHere ==
  ASSUME NcoInv, NEW evs \in Seq(EventNames), PostEvents(evs, FALSE),
         NEW d \in Dds, NEW i \in 1..Len(evs), evs[i] = d
  PROVE  Counted(d)' /\ Timed(d)'
<1>1. /\ Pending({d})' \/ d \in Dropped(evs)
      /\ Pending(Restarts(d))' \/ d \in Dropped(evs)
  <2>1. evs[i] \in {d} /\ evs[i] \in Restarts(d) /\ NcoTypeOK
    BY DEF Restarts, NcoInv
  <2> QED BY Zenon, <2>1, PostKeepsEvents
<1>2. d \in Dropped(evs) => lost'
  BY Zenon DEF PostEvents
<1> QED BY <1>1, <1>2 DEF Counted, Timed, Restarts

\* A new configuration for some of the synthesisers.
LEMMA CommitStep ==
  ASSUME NcoInv, NEW changed \in SUBSET Dds, CommitDds(changed), task' \in 1..Len(Tasks)
  PROVE  NcoInv'
<1> DEFINE first == IF "lo" \in changed THEN <<"lo">> ELSE << >>
           second == IF "ref" \in changed THEN <<"ref">> ELSE << >>
           evs == first \o second
<1>1. first \in Seq(EventNames) /\ second \in Seq(EventNames)
  <2>1. "lo" \in EventNames /\ "ref" \in EventNames
    BY DEF EventNames
  <2>2. first = <<"lo">> \/ first = << >>
    OBVIOUS
  <2>3. second = <<"ref">> \/ second = << >>
    OBVIOUS
  <2> HIDE DEF first, second
  <2> QED BY Zenon, <2>1, <2>2, <2>3, OneEvent
<1>2. PostEvents(evs, FALSE)
  BY Zenon DEF CommitDds
<1>3. /\ "lo" \in changed => first = <<"lo">>
      /\ "ref" \in changed => second = <<"ref">>
  OBVIOUS
<1> HIDE DEF first, second
<1>4. evs \in Seq(EventNames)
  BY <1>1
<1>c. /\ Len(first) \in Nat /\ Len(second) \in Nat
      /\ Len(evs) = Len(first) + Len(second)
      /\ \A i \in 1..Len(first) + Len(second) :
           evs[i] = IF i <= Len(first) THEN first[i] ELSE second[i - Len(first)]
  BY <1>1, ConcatProperties
<1> HIDE DEF evs
<1>5. ASSUME NEW d \in changed PROVE \E i \in 1..Len(evs) : evs[i] = d
  <2>1. d = "lo" \/ d = "ref"
    BY NcoAssumption
  <2>2. CASE d = "lo"
    <3>1. Len(first) = 1 /\ first[1] = d
      <4>1. "lo" \in EventNames /\ first = <<"lo">>
        BY <1>3, <2>2 DEF EventNames
      <4> QED BY <2>2, <4>1, OneEvent
    <3>2. 1 \in 1..Len(evs) /\ evs[1] = d
      BY <1>c, <3>1
    <3> QED BY <3>2
  <2>3. CASE d = "ref"
    <3>2. Len(second) = 1 /\ second[1] = d
      <4>1. "ref" \in EventNames /\ second = <<"ref">>
        BY <1>3, <2>3 DEF EventNames
      <4> QED BY <2>3, <4>1, OneEvent
    <3>1. Len(first) + 1 \in 1..Len(evs) /\ evs[Len(first) + 1] = d
      BY <1>c, <3>2
    <3> QED BY <3>1
  <2> QED BY <2>1, <2>2, <2>3
<1> HIDE DEF evs
<1>6. NcoTypeOK
  BY DEF NcoInv
<1>7. NcoTypeOK'
  <2>1. \A n \in Nco : ForcePulse(n) \in Nco
    BY Zenon DEF ForcePulse, Nco
  <2>2. nco' \in [Dds -> Nco]
    BY <1>6, <2>1 DEF CommitDds, NcoTypeOK
  <2> QED BY Zenon, <1>2, <1>4, <1>6, <2>2, PostKeepsEvents DEF NcoTypeOK, CommitDds
<1>8. ASSUME NEW d \in Dds PROVE Counted(d)' /\ Timed(d)'
  <2>1. CASE d \in changed
    <3>1. PICK i \in 1..Len(evs) : evs[i] = d
      BY <1>5, <2>1
    <3> QED BY Zenon, <1>2, <1>4, <3>1, RequestHere
  <2>2. CASE d \notin changed
    <3>1. nco'[d] = nco[d] /\ watch' = watch
      BY <2>2 DEF CommitDds
    <3> QED BY Zenon, <1>2, <1>4, <3>1, RequestElsewhere
  <2> QED BY <2>1, <2>2
<1>9. watch'.ok => PortTimed'
  BY DEF NcoInv, CommitDds, PortTimed
<1> QED BY Zenon, <1>7, <1>8, <1>9 DEF NcoInv, SyncedHasTiming, Counted, Timed

\* A new trigger source for one synthesiser.
LEMMA SubscribeStep ==
  ASSUME NcoInv, NEW e \in Dds, NEW source \in Sources, subscribe_nco(e, source),
         task' \in 1..Len(Tasks)
  PROVE  NcoInv'
<1>1. <<e>> \in Seq(EventNames) /\ PostEvents(<<e>>, FALSE) /\ 1 \in 1..Len(<<e>>) /\ <<e>>[1] = e
  <2>1. e \in EventNames
    BY DEF EventNames
  <2>2. PostEvents(<<e>>, FALSE)
    BY Zenon DEF subscribe_nco
  <2>3. <<e>> \in Seq(EventNames) /\ Len(<<e>>) = 1 /\ <<e>>[1] = e
    BY <2>1, OneEvent
  <2>4. 1 \in 1..1
    OBVIOUS
  <2> QED BY <2>2, <2>3, <2>4, Zenon
<1>2. NcoTypeOK
  BY DEF NcoInv
<1>3. NcoTypeOK'
  <2>1. nco' \in [Dds -> Nco]
    <3>1. nco \in [Dds -> Nco]
      BY <1>2 DEF NcoTypeOK
    <3>2. [nco[e] EXCEPT !.source = source] \in Nco
      BY <3>1 DEF Nco
    <3>3. nco' = [nco EXCEPT ![e] = [nco[e] EXCEPT !.source = source]]
      BY DEF subscribe_nco
    <3> QED BY <3>1, <3>2, <3>3
  <2> QED BY Zenon, <1>1, <1>2, <2>1, PostKeepsEvents DEF NcoTypeOK, subscribe_nco
<1>4. ASSUME NEW d \in Dds PROVE Counted(d)' /\ Timed(d)'
  <2>1. CASE d = e
    BY Zenon, <1>1, <2>1, RequestHere
  <2>2. CASE d # e
    <3>1. nco'[d] = nco[d] /\ watch' = watch
      BY <1>2, <2>2 DEF subscribe_nco, NcoTypeOK
    <3> QED BY Zenon, <1>1, <3>1, RequestElsewhere
  <2> QED BY <2>1, <2>2
<1>5. watch'.ok => PortTimed'
  BY DEF NcoInv, subscribe_nco, PortTimed
<1> QED BY Zenon, <1>3, <1>4, <1>5 DEF NcoInv, SyncedHasTiming, Counted, Timed

\* One turn of the synchronisation task, for all synthesisers at once.
LEMMA SyncStep ==
  ASSUME NcoInv, ertm14_dds_nco_sync_task, task' \in 1..Len(Tasks)
  PROVE  NcoInv'
<1> DEFINE evt == IF events = << >> THEN "none" ELSE Head(events)
<1>1. NcoTypeOK
  BY DEF NcoInv
<1>2. /\ nco' = [d \in Dds |-> rf_nco_sync_fsm(d, evt)]
      /\ UNCHANGED <<link, ptp, watch, lost, unseen>>
  BY DEF ertm14_dds_nco_sync_task
<1>3. /\ events' \in Seq(EventNames) /\ Len(events') <= NcoCapacity
      /\ \A E : Pending(E) => evt \in E \/ Pending(E)'
  <2>1. CASE events = << >>
    BY <1>1, <2>1 DEF ertm14_dds_nco_sync_task, NcoTypeOK, Pending
  <2>2. CASE events # << >>
    <3>1. events' = Tail(events) /\ evt = Head(events)
      BY <2>2 DEF ertm14_dds_nco_sync_task
    <3> HIDE DEF evt
    <3> QED BY <1>1, <2>2, <3>1, TakeKeepsEvents
  <2> QED BY <2>1, <2>2
<1> HIDE DEF evt
<1>4. ASSUME NEW d \in Dds PROVE rf_nco_sync_fsm(d, evt) \in Nco /\ Counted(d)' /\ Timed(d)'
  <2> DEFINE r == rf_nco_sync_fsm(d, evt)
  <2>1. nco'[d] = r
    BY <1>2
  <2>2. Synced(d)' <=> SyncedNco(r)
    BY <2>1 DEF Synced, SyncedNco
  <2>a. Synced(d) <=> SyncedNco(nco[d])
    BY DEF Synced, SyncedNco
  <2>3. CASE evt \in Restarts(d)
    <3>1. r \in Nco /\ ~ SyncedNco(r)
      BY <1>1, <2>3, RestartEvent
    <3> QED BY <2>2, <3>1 DEF Counted, Timed
  <2>4. CASE evt \notin Restarts(d)
    <3>1. /\ r \in Nco
          /\ SyncedNco(r) => watch.ok \/ SyncedNco(nco[d])
          /\ SyncedNco(r) /\ (SyncedNco(nco[d]) => ArmedAndCounted(nco[d]))
               => ArmedAndCounted(r)
      BY <1>1, <2>4, GoOnShape
    <3> HIDE DEF r
    <3>2. evt \notin {d}
      BY <2>4 DEF Restarts
    <3>3. /\ Pending({d}) => Pending({d})'
          /\ Pending(Restarts(d)) => Pending(Restarts(d))'
      BY <1>3, <2>4, <3>2
    <3>4. Counted(d) /\ Timed(d) /\ (watch.ok => PortTimed)
      BY DEF NcoInv, SyncedHasTiming, Counted, Timed
    <3>5. ArmedAndCounted(r) => ArmedAndCounted(nco[d])'
      BY <2>1 DEF ArmedAndCounted
    <3>6. Counted(d)'
      BY <1>2, <2>2, <2>a, <3>1, <3>3, <3>4, <3>5 DEF Counted
    <3>7. PortTimed' <=> PortTimed
      BY <1>2 DEF PortTimed
    <3>8. Timed(d)'
      BY <1>2, <2>2, <2>a, <3>1, <3>3, <3>4, <3>7 DEF Timed, Restarts
    <3> QED BY SMTT(30), <3>1, <3>6, <3>8 DEF r
  <2> QED BY <2>3, <2>4
<1>5. nco' \in [Dds -> Nco]
  BY <1>2, <1>4
<1>6. NcoTypeOK'
  BY <1>1, <1>2, <1>3, <1>5 DEF NcoTypeOK
<1>7. watch'.ok => PortTimed'
  BY <1>2 DEF NcoInv, PortTimed
<1> QED BY Zenon, <1>4, <1>6, <1>7 DEF NcoInv, SyncedHasTiming, Counted, Timed

\* A trigger reaches a waiting channel.
LEMMA PulseStep ==
  ASSUME NcoInv, NEW e \in Dds, Pulse(e)
  PROVE  NcoInv'
<1>1. NcoTypeOK /\ nco[e] \in Nco /\ MaxPulses \in Nat \ {0}
  BY NcoAssumption DEF NcoInv, NcoTypeOK
<1> DEFINE p == Capped(nco[e].pulses + 1)
           r == [nco[e] EXCEPT !.waiting = FALSE, !.pulses = p]
<1>2. /\ nco[e].pulses \in 0..MaxPulses /\ nco[e].count \in 0..MaxPulses
      /\ nco[e].waiting /\ p \in 0..MaxPulses /\ nco[e].pulses <= p
      /\ nco[e].pulses < p \/ p = MaxPulses
  BY <1>1 DEF Capped, Nco, Pulse
<1>3. /\ nco' = [nco EXCEPT ![e] = r]
      /\ UNCHANGED <<task, link, ptp, watch, events, lost, unseen>>
  BY Zenon DEF Pulse
<1> HIDE DEF p
<1>4. /\ r \in Nco /\ r.waiting = FALSE /\ r.pulses = p /\ r.state = nco[e].state
      /\ r.source = nco[e].source /\ r.count = nco[e].count
      /\ r.enabled = nco[e].enabled /\ r.armed = nco[e].armed
  BY Zenon, <1>1, <1>2 DEF Nco
<1> HIDE DEF r
<1>5. nco' \in [Dds -> Nco] /\ nco'[e] = r /\ \A d \in Dds \ {e} : nco'[d] = nco[d]
  BY SMTT(30), <1>1, <1>3, <1>4 DEF NcoTypeOK
<1>6. NcoTypeOK'
  BY <1>1, <1>3, <1>5 DEF NcoTypeOK
<1>7. ASSUME NEW d \in Dds PROVE Counted(d)' /\ Timed(d)'
  <2>1. Synced(d)' <=> Synced(d)
    BY <1>4, <1>5 DEF Synced
  <2>2. (Pending({d})' <=> Pending({d})) /\ (Pending(Restarts(d))' <=> Pending(Restarts(d)))
    BY <1>3 DEF Pending, Restarts
  <2>3. Counted(d) /\ Timed(d)
    BY SMTT(30) DEF NcoInv, SyncedHasTiming, Counted, Timed
  <2>4. ArmedAndCounted(nco[d]) => ArmedAndCounted(nco[d])'
    BY <1>2, <1>4, <1>5 DEF ArmedAndCounted
  <2>5. (PortTimed' <=> PortTimed) /\ watch' = watch /\ lost' = lost /\ unseen' = unseen
    BY SMTT(30), <1>3 DEF PortTimed
  <2>6. Counted(d)'
    BY SMTT(30), <2>1, <2>2, <2>3, <2>4, <2>5 DEF Counted
  <2>7. Timed(d)'
    BY SMTT(30), <2>1, <2>2, <2>3, <2>5 DEF Timed, Restarts
  <2> QED BY SMTT(30), <2>6, <2>7
<1>8. watch'.ok => PortTimed'
  BY <1>3 DEF NcoInv, PortTimed
<1> QED BY Zenon, <1>6, <1>7, <1>8 DEF NcoInv, SyncedHasTiming, Counted, Timed

\* Every task of the main loop and every trigger keeps the invariant.
LEMMA NcoStepInv == NcoInv /\ [NcoNext]_NcoVars => NcoInv'
<1> SUFFICES ASSUME NcoInv, [NcoNext]_NcoVars PROVE NcoInv'
  OBVIOUS
<1>1. CASE NcoTurn
  <2>1. task \in 1..5 /\ Len(Tasks) = 5
    BY DEF NcoInv, NcoTypeOK, Tasks
  <2>2. task' \in 1..Len(Tasks)
    BY <1>1, <2>1 DEF NcoTurn
  <2>3. CASE task = 1
    <3>1. PICK state \in BOOLEAN : wrc_check_link(state)
      BY <1>1, <2>3 DEF NcoTurn, Tasks
    <3> QED BY <2>2, <3>1, LinkStep
  <2>4. CASE task = 2
    <3>1. PICK s \in PortStates, v \in ServoStates : PtpRuns(s, v)
      BY <1>1, <2>4 DEF NcoTurn, Tasks
    <3>2. ptp' \in [mode : Modes, state : PortStates, servo : ServoStates]
      BY Zenon, <3>1 DEF PtpRuns, NcoInv, NcoTypeOK
    <3>3. UNCHANGED <<link, watch, events, nco, lost, unseen>>
      BY <3>1 DEF PtpRuns
    <3> QED BY <2>2, <3>2, <3>3, PtpStep
  <2>5. CASE task = 3
    <3>1. wrc_events_ptp_poll
      BY <1>1, <2>5 DEF NcoTurn, Tasks
    <3> QED BY <2>2, <3>1, WatchStep
  <2>6. CASE task = 4
    <3>1. Control
      BY <1>1, <2>6 DEF NcoTurn, Tasks
    <3>2. ASSUME NEW changed \in SUBSET Dds \ {{}}, CommitDds(changed) PROVE NcoInv'
      BY <2>2, <3>2, CommitStep
    <3>3. ASSUME NEW d \in Dds, NEW source \in Sources, subscribe_nco(d, source) PROVE NcoInv'
      BY <2>2, <3>3, SubscribeStep
    <3>4. ASSUME NEW mode \in Modes, PtpEnable(mode) PROVE NcoInv'
      <4>1. ptp' \in [mode : Modes, state : PortStates, servo : ServoStates]
        BY <3>4 DEF PtpEnable, NcoInv, NcoTypeOK, PortStates
      <4>2. UNCHANGED <<link, watch, events, nco, lost, unseen>>
        BY <3>4 DEF PtpEnable
      <4> QED BY SMTT(30), <2>2, <4>1, <4>2, PtpStep
    <3>5. CASE NoRequest
      <4>1. ptp' \in [mode : Modes, state : PortStates, servo : ServoStates]
        BY <3>5 DEF NoRequest, NcoInv, NcoTypeOK
      <4>2. UNCHANGED <<link, watch, events, nco, lost, unseen>>
        BY <3>5 DEF NoRequest
      <4> QED BY <2>2, <4>1, <4>2, PtpStep
    <3> QED BY <3>1, <3>2, <3>3, <3>4, <3>5 DEF Control
  <2>7. CASE task = 5
    <3>1. ertm14_dds_nco_sync_task
      BY <1>1, <2>7 DEF NcoTurn, Tasks
    <3> QED BY <2>2, <3>1, SyncStep
  <2> QED BY <2>1, <2>3, <2>4, <2>5, <2>6, <2>7
<1>2. ASSUME NEW d \in Dds, Pulse(d) PROVE NcoInv'
  BY <1>2, PulseStep
<1>3. CASE UNCHANGED NcoVars
  <2>1. UNCHANGED <<link, watch, events, nco, lost, unseen>> /\ task' = task /\ ptp' = ptp
    BY <1>3 DEF NcoVars
  <2>2. task' \in 1..Len(Tasks)
        /\ ptp' \in [mode : Modes, state : PortStates, servo : ServoStates]
    BY <2>1 DEF NcoInv, NcoTypeOK
  <2> QED BY <2>1, <2>2, PtpStep
<1> QED BY <1>1, <1>2, <1>3 DEF NcoNext

\* The synthesisers, for any number of them, any size of the queue and any
\* sequence of link, PTP and host events.
THEOREM SynthesisersAreSynced == NcoSpec => []NcoInv
  BY NcoInitInv, NcoStepInv, PTL DEF NcoSpec

\* A synthesiser that the host reads as READY has had its trigger, and its count
\* never runs ahead of the pulses given (rf_nco_sync_fsm).
THEOREM ReadyWasTriggered == NcoSpec => []ReadyIsTriggered
<1>1. NcoInv => ReadyIsTriggered
  BY DEF NcoInv, ReadyIsTriggered, ArmedAndCounted
<1> QED BY <1>1, SynthesisersAreSynced, PTL

\* No synthesiser goes on as synchronised after timing was lost (rf_nco_sync_fsm,
\* wrc_events_ptp_poll, wrc_check_link).
THEOREM SyncNeedsTiming == NcoSpec => []SyncedHasTiming
<1>1. NcoInv => SyncedHasTiming
  BY SMTT(30) DEF NcoInv
<1> QED BY <1>1, SynthesisersAreSynced, PTL
-----------------------------------------------------------------------------
(***************************************************************************)
(* Configuring the board from several host programs                        *)
(***************************************************************************)
\* A request that is sent leaves the requests before it prepared as they were.
LEMMA SendKeepsPrepared ==
  ASSUME RpcInv, NEW pkt \in RpcPackets, SendRequest(pkt), next_state' = next_state
  PROVE  /\ requests' \in Seq(RpcPackets) /\ Len(requests) \in Nat
         /\ Len(requests') = Len(requests) + 1 /\ requests'[Len(requests')] = pkt
         /\ \A i \in 1..Len(requests) : requests'[i] = requests[i]
         /\ \A cfg : \A j \in 1..Len(requests) + 1 : Prepared(j, cfg) => Prepared(j, cfg)'
<1>1. requests \in Seq(RpcPackets) /\ requests' = Append(requests, pkt)
  BY DEF RpcInv, SendRequest
<1>2. /\ requests' \in Seq(RpcPackets) /\ Len(requests) \in Nat
      /\ Len(requests') = Len(requests) + 1 /\ requests'[Len(requests')] = pkt
      /\ \A i \in 1..Len(requests) : requests'[i] = requests[i]
  BY <1>1, AppendProperties
<1>3. ASSUME NEW j \in 1..Len(requests) + 1, NEW cfg, Prepared(j, cfg) PROVE Prepared(j, cfg)'
  <2>1. CASE j = 1
    BY <1>3, <2>1 DEF Prepared
  <2>2. CASE j # 1
    <3>1. j - 1 \in 1..Len(requests)
      BY SMTT(30), <1>2, <2>2
    <3> QED BY <1>2, <1>3, <2>2, <3>1 DEF Prepared
  <2> QED BY <2>1, <2>2
<1> QED BY <1>2, <1>3

\* When the board takes a request, what was prepared is still prepared one place
\* further on: a set that is taken becomes the next state.
LEMMA PollKeepsPrepared ==
  ASSUME RpcInv, control_uart_poll
  PROVE  /\ requests' \in Seq(RpcPackets) /\ Len(requests) \in Nat \ {0}
         /\ Len(requests') = Len(requests) - 1
         /\ \A i \in 1..Len(requests') : requests'[i] = requests[i + 1]
         /\ \A cfg : \A j \in 1..Len(requests) : Prepared(j + 1, cfg) => Prepared(j, cfg)'
<1>1. requests \in Seq(RpcPackets) /\ requests # << >> /\ requests' = Tail(requests)
  BY DEF RpcInv, control_uart_poll
<1>2. /\ requests' \in Seq(RpcPackets) /\ Len(requests) \in Nat \ {0}
      /\ Len(requests') = Len(requests) - 1 /\ Head(requests) = requests[1]
      /\ \A i \in 1..Len(requests') : requests'[i] = requests[i + 1]
  BY <1>1, HeadTailProperties
<1>3. ASSUME NEW j \in 1..Len(requests), NEW cfg, Prepared(j + 1, cfg)
      PROVE  Prepared(j, cfg)'
  <2>0. requests[j].op = "set" /\ requests[j].cfg = cfg
    <3>1. j + 1 # 1 /\ (j + 1) - 1 = j
      BY <1>2
    <3> QED BY <1>3, <3>1 DEF Prepared
  <2>1. CASE j = 1
    <3>1. Head(requests).op = "set" /\ Head(requests).cfg = cfg
      BY SMTT(30), <1>2, <2>0, <2>1
    <3>2. next_state' = cfg
      BY <3>1 DEF control_uart_poll, set_board_config
    <3> QED BY <2>1, <3>2 DEF Prepared
  <2>2. CASE j # 1
    <3>1. j - 1 \in 1..Len(requests') /\ (j - 1) + 1 = j
      BY <1>2, <2>2
    <3>2. requests'[j - 1] = requests[j]
      BY SMTT(30), <1>2, <3>1
    <3> QED BY <2>0, <2>2, <3>2 DEF Prepared
  <2> QED BY <2>1, <2>2
<1> QED BY <1>2, <1>3

\* What a program waits for after its step, and what every other one does.
LEMMA PcShape ==
  ASSUME RpcInv, NEW p \in Programs,
         NEW w \in {<<"idle">>, <<"dead">>, <<"get">>, <<"commit">>} \cup ({"set"} \X Changes),
         pc' = [pc EXCEPT ![p] = w]
  PROVE  /\ pc' \in [Programs -> {<<"idle">>, <<"dead">>, <<"get">>, <<"commit">>}
                                   \cup ({"set"} \X Changes)]
         /\ pc'[p] = w /\ \A q \in Programs \ {p} : pc'[q] = pc[q]
  BY DEF RpcInv

\* Nobody else is between its requests while p holds the lock, or while nobody does.
LEMMA OthersWait ==
  ASSUME RpcInv, NEW p \in Programs, lock \in {p, NoOne}, NEW q \in Programs \ {p}
  PROVE  pc[q][1] \in {"idle", "dead"}
  BY Zenon, RpcAssumption DEF RpcInv, NoOne

\* A step of one program that sends pkt.
LEMMA SendStep ==
  ASSUME RpcInv, NEW p \in Programs, lock \in {p, NoOne},
         NEW w \in {<<"idle">>, <<"dead">>, <<"get">>, <<"commit">>} \cup ({"set"} \X Changes),
         pc' = [pc EXCEPT ![p] = w], lock' = p,
         NEW pkt \in RpcPackets, SendRequest(pkt),
         pkt.op = "commit" => Prepared(Len(requests) + 1, pkt.want),
         w[1] = "set" => pkt.op = "set" /\ pkt.cfg = Next1(w[2]),
         UNCHANGED <<current, next_state, hardware>>
  PROVE  RpcInv'
<1>1. /\ requests' \in Seq(RpcPackets) /\ Len(requests) \in Nat
      /\ Len(requests') = Len(requests) + 1 /\ requests'[Len(requests')] = pkt
      /\ \A i \in 1..Len(requests) : requests'[i] = requests[i]
      /\ \A cfg : \A j \in 1..Len(requests) + 1 : Prepared(j, cfg) => Prepared(j, cfg)'
  BY Zenon, SendKeepsPrepared
<1>2. /\ pc' \in [Programs -> {<<"idle">>, <<"dead">>, <<"get">>, <<"commit">>}
                                \cup ({"set"} \X Changes)]
      /\ pc'[p] = w /\ \A q \in Programs \ {p} : pc'[q] = pc[q]
  BY Zenon, PcShape
<1>3. \A q \in Programs \ {p} : pc'[q][1] \in {"idle", "dead"}
  BY <1>2, OthersWait
<1>4. ASSUME NEW q \in Programs, Setting(q)'
      PROVE  Prepared(Len(requests) + 1, Next1(pc[q][2]))'
  <2>1. q = p /\ w[1] = "set"
    BY SMTT(30), <1>2, <1>3, <1>4 DEF Setting
  <2>2. Len(requests') + 1 # 1 /\ (Len(requests') + 1) - 1 = Len(requests')
    BY SMTT(30), <1>1
  <2>3. pkt.op = "set" /\ pkt.cfg = Next1(pc'[q][2])
    BY SMTT(30), <1>2, <2>1
  <2> QED BY Zenon, <1>1, <2>2, <2>3 DEF Prepared, Next1, Clean
<1>5. ASSUME NEW i \in 1..Len(requests'), requests'[i].op = "commit"
      PROVE  Prepared(i, requests[i].want)'
  <2>1. Prepared(i, requests'[i].want)
    <3>1. CASE i = Len(requests')
      BY SMTT(30), <1>1, <1>5, <3>1
    <3>2. CASE i # Len(requests')
      <4>1. i \in 1..Len(requests) /\ requests'[i] = requests[i]
        BY <1>1, <3>2
      <4> QED BY SMTT(30), <1>5, <4>1 DEF RpcInv
    <3> QED BY SMTT(30), <3>1, <3>2
  <2> QED BY SMTT(30), <1>1, <2>1 DEF Prepared
<1>6. hardware' = current'
  BY Zenon DEF RpcInv
<1>7. \A q \in Programs : pc'[q][1] \notin {"idle", "dead"} => lock' = q
  BY <1>3
<1> QED BY Zenon, <1>1, <1>2, <1>4, <1>5, <1>6, <1>7 DEF RpcInv

\* A step of one program that leaves its critical section.
LEMMA LeaveStep ==
  ASSUME RpcInv, NEW p \in Programs, lock \in {p, NoOne},
         NEW w \in {<<"idle">>, <<"dead">>}, pc' = [pc EXCEPT ![p] = w],
         UNCHANGED <<requests, current, next_state, hardware>>
  PROVE  RpcInv'
<1>1. /\ pc' \in [Programs -> {<<"idle">>, <<"dead">>, <<"get">>, <<"commit">>}
                                \cup ({"set"} \X Changes)]
      /\ pc'[p] = w /\ \A q \in Programs \ {p} : pc'[q] = pc[q]
  BY Zenon, PcShape
<1>2. \A q \in Programs : pc'[q][1] \in {"idle", "dead"}
  BY <1>1, OthersWait
<1>3. \A q \in Programs : ~ Setting(q)'
  BY SMTT(30), <1>2 DEF Setting
<1>4. \A i \in 1..Len(requests') :
        requests'[i].op = "commit" => Prepared(i, requests[i].want)'
  BY DEF RpcInv, Prepared
<1> QED BY Zenon, <1>1, <1>2, <1>3, <1>4 DEF RpcInv

\* A program goes on after an answer or without one.
LEMMA AnswerStep ==
  ASSUME RpcInv, NEW p \in Programs, GoOnToCommit(p) \/ Finish(p),
         UNCHANGED <<current, next_state, hardware>>
  PROVE  RpcInv'
<1>1. lock = p
  BY DEF RpcInv, GoOnToCommit, Finish, Setting
<1>2. CASE GoOnToCommit(p)
  <2> DEFINE ch == pc[p][2]
             pkt == [op |-> "commit", mask |-> {ch.field}, want |-> Next1(ch)]
  <2>1. ch \in Changes
    <3>1. pc[p] \in {<<"idle">>, <<"dead">>, <<"get">>, <<"commit">>} \cup ({"set"} \X Changes)
      BY Zenon DEF RpcInv
    <3>2. pc[p][1] = "set"
      BY Zenon, <1>2 DEF GoOnToCommit, Setting
    <3>3. QED BY <3>1, <3>2 DEF ch
  <2> HIDE DEF ch
  <2>2. Next1(ch) \in Configs /\ ch.field \in Fields
    BY SMTT(30), <2>1 DEF Changes, Next1, Clean, Configs
  <2>3. pkt \in RpcPackets /\ pkt.op = "commit" /\ pkt.want = Next1(ch)
    BY SMTT(30), <2>2 DEF RpcPackets
  <2>4. SendRequest(pkt) /\ lock' = lock /\ pc' = [pc EXCEPT ![p] = <<"commit">>]
    BY <1>2 DEF GoOnToCommit, ch
  <2>5. Prepared(Len(requests) + 1, pkt.want)
    BY Zenon, <1>2, <2>3 DEF RpcInv, GoOnToCommit, ch
  <2> HIDE DEF pkt
  <2>6. <<"commit">>[1] # "set"
    OBVIOUS
  <2> QED BY Zenon, <1>1, <2>3, <2>4, <2>5, <2>6, SendStep
<1>3. CASE Finish(p)
  BY ZenonT(60), <1>1, <1>3, LeaveStep DEF Finish
<1> QED BY SMTT(30), <1>2, <1>3

\* The board takes a request and answers it.
LEMMA PollStep ==
  ASSUME RpcInv, control_uart_poll
  PROVE  RpcInv'
<1>1. /\ requests' \in Seq(RpcPackets) /\ Len(requests) \in Nat \ {0}
      /\ Len(requests') = Len(requests) - 1
      /\ \A i \in 1..Len(requests') : requests'[i] = requests[i + 1]
      /\ \A cfg : \A j \in 1..Len(requests) : Prepared(j + 1, cfg) => Prepared(j, cfg)'
  BY Zenon, PollKeepsPrepared
<1>2. pc' = pc /\ lock' = lock
  BY SMTT(30) DEF control_uart_poll
<1>3. ASSUME NEW q \in Programs, Setting(q)'
      PROVE  Prepared(Len(requests) + 1, Next1(pc[q][2]))'
  <2>1. Prepared(Len(requests) + 1, Next1(pc[q][2]))
    BY ZenonT(60), <1>2, <1>3 DEF RpcInv, Setting
  <2>2. Len(requests) \in 1..Len(requests) /\ Len(requests) = Len(requests') + 1
    BY SMTT(30), <1>1
  <2>3. PICK cfg : cfg = Next1(pc[q][2])
    OBVIOUS
  <2>4. PICK j \in 1..Len(requests) : j = Len(requests)
    BY <2>2
  <2>5. Prepared(j, cfg)'
    BY Zenon, <1>1, <2>1, <2>3, <2>4
  <2> QED BY <1>2, <2>2, <2>3, <2>4, <2>5 DEF Prepared, Next1, Clean
<1>4. ASSUME NEW i \in 1..Len(requests'), requests'[i].op = "commit"
      PROVE  Prepared(i, requests[i].want)'
  <2>1. i + 1 \in 1..Len(requests) /\ i \in 1..Len(requests)
    BY <1>1
  <2>2. requests'[i] = requests[i + 1]
    BY SMTT(30), <1>1
  <2>3. Prepared(i + 1, requests[i + 1].want)
    BY <1>4, <2>1, <2>2 DEF RpcInv
  <2>4. PICK cfg : cfg = requests[i + 1].want
    BY SMTT(30)
  <2>5. Prepared(i, cfg)'
    BY SMTT(30), <1>1, <2>1, <2>3, <2>4
  <2> QED BY ZenonT(60), <2>2, <2>4, <2>5 DEF Prepared
<1>5. hardware' = current'
  <2>1. CASE UNCHANGED <<current, hardware>>
    BY SMTT(30), <2>1 DEF RpcInv
  <2>2. CASE commit_board_config(Head(requests).mask)
    BY SMTT(30), <2>2 DEF RpcInv, commit_board_config, ertm14_apply_config, update_config
  <2> QED BY SMTT(30), <2>1, <2>2 DEF control_uart_poll, set_board_config
<1> QED BY <1>1, <1>2, <1>3, <1>4, <1>5 DEF RpcInv

\* Every step of a program, of the board and of its shell keeps the invariant.
LEMMA RpcStepInv == RpcInv /\ [RpcNext]_RpcVars => RpcInv'
<1> SUFFICES ASSUME RpcInv, [RpcNext]_RpcVars PROVE RpcInv'
  OBVIOUS
<1>1. ASSUME NEW p \in Programs, ertm_get_board_config(p) PROVE RpcInv'
  <2>1. /\ lock = NoOne /\ lock' = p /\ SendRequest([op |-> "get"])
        /\ pc' = [pc EXCEPT ![p] = <<"get">>] /\ UNCHANGED <<current, next_state, hardware>>
    BY <1>1 DEF ertm_get_board_config, ertm_mutex_acquire
  <2>2. [op |-> "get"] \in RpcPackets /\ [op |-> "get"].op # "commit" /\ <<"get">>[1] # "set"
    BY DEF RpcPackets
  <2> QED BY Zenon, <2>1, <2>2, SendStep
<1>2. ASSUME NEW p \in Programs, Receive(p) PROVE RpcInv'
  BY <1>2, AnswerStep DEF Receive
<1>3. ASSUME NEW p \in Programs, TimeOut(p) PROVE RpcInv'
  BY <1>3, AnswerStep DEF TimeOut
<1>4. ASSUME NEW p \in Programs, Killed(p) PROVE RpcInv'
  <2>1. lock = p
    BY <1>4 DEF RpcInv, Killed
  <2> QED BY ZenonT(60), <1>4, <2>1, LeaveStep DEF Killed
<1>5. ASSUME NEW p \in Programs, NEW ch \in Changes, commit_config(p, ch) PROVE RpcInv'
  <2> DEFINE pkt == [op |-> "set", cfg |-> Next1(ch)]
             w == <<"set", ch>>
  <2>1. /\ lock = NoOne /\ lock' = p /\ SendRequest(pkt)
        /\ pc' = [pc EXCEPT ![p] = w] /\ UNCHANGED <<current, next_state, hardware>>
    BY <1>5 DEF commit_config, ertm_mutex_acquire
  <2>2. Next1(ch) \in Configs
    BY SMTT(30) DEF Changes, Next1, Clean, Configs
  <2>3. pkt \in RpcPackets /\ pkt.op = "set" /\ pkt.cfg = Next1(ch)
    BY <2>2 DEF RpcPackets
  <2>4. w \in {"set"} \X Changes /\ w[1] = "set" /\ w[2] = ch
    OBVIOUS
  <2> HIDE DEF pkt, w
  <2> QED BY Zenon, <2>1, <2>3, <2>4, SendStep
<1>6. CASE control_uart_poll
  BY <1>6, PollStep
<1>7. ASSUME NEW ch \in Changes, cmd_ertm(ch) PROVE RpcInv'
  <2>1. hardware' = current'
    BY <1>7 DEF RpcInv, cmd_ertm, ertm14_apply_config, update_config
  <2>2. UNCHANGED <<pc, lock, requests, next_state>>
    BY <1>7 DEF cmd_ertm
  <2> QED BY Zenon, <2>1, <2>2 DEF RpcInv, Prepared, Setting, Next1, Clean
<1>8. CASE UNCHANGED RpcVars
  BY Zenon, <1>8 DEF RpcInv, RpcVars, Prepared, Setting, Next1, Clean
<1> QED BY <1>1, <1>2, <1>3, <1>4, <1>5, <1>6, <1>7, <1>8 DEF RpcNext

\* At the start nobody is between its requests.
LEMMA RpcInitInv == RpcInit => RpcInv
<1> SUFFICES ASSUME RpcInit PROVE RpcInv
  OBVIOUS
<1>1. pc \in [Programs -> {<<"idle">>}] /\ requests = << >> /\ hardware = current
  BY DEF RpcInit
<1>2. \A p \in Programs : pc[p][1] = "idle"
  BY <1>1
<1> QED BY <1>1, <1>2 DEF RpcInv, Setting

\* Every commit is whole, for any number of programs, fields and values and any
\* number of timeouts, deaths and shell commands: the board applies what the
\* program that commits has set.
THEOREM CommitsAreWhole == RpcSpec => CommitsWhole
<1>1. ASSUME RpcInv, [RpcNext]_RpcVars, requests # << >>, requests' = Tail(requests),
             Head(requests).op = "commit"
      PROVE  /\ current' = update_config(current, Head(requests).want, Head(requests).mask)
             /\ hardware' = current'
  <2>1. /\ requests \in Seq(RpcPackets) /\ Len(requests) \in Nat \ {0}
        /\ Len(Tail(requests)) = Len(requests) - 1 /\ Head(requests) = requests[1]
    BY <1>1, HeadTailProperties DEF RpcInv
  <2>2. \A pkt : Len(Append(requests, pkt)) = Len(requests) + 1
    BY <2>1
  <2>3. requests' # requests /\ \A pkt : ~ SendRequest(pkt)
    <3>1. Len(requests') = Len(requests) - 1
      BY <1>1, <2>1
    <3>2. Len(requests') # Len(requests) /\ Len(requests') # Len(requests) + 1
      <4>1. \A n \in Nat : n - 1 # n /\ n - 1 # n + 1
        OBVIOUS
      <4>2. Len(requests) \in Nat
        BY <2>1
      <4> QED BY <3>1, <4>1, <4>2, Zenon
    <3>3. requests' # requests
      BY <3>2
    <3>4. ASSUME NEW pkt, requests' = Append(requests, pkt) PROVE FALSE
      BY <2>2, <3>2, <3>4
    <3> QED BY <3>3, <3>4 DEF SendRequest
  <2>4. control_uart_poll
    BY Zenon, <1>1, <2>3 DEF RpcNext, RpcVars, ertm_get_board_config, Receive, TimeOut, Killed,
                      commit_config, GoOnToCommit, Finish, cmd_ertm
  <2>5. next_state = Head(requests).want
    BY SMTT(30), <1>1, <2>1 DEF RpcInv, Prepared
  <2>6. commit_board_config(Head(requests).mask)
    BY <1>1, <2>4 DEF control_uart_poll
  <2>7. hardware = current
    BY <1>1 DEF RpcInv
  <2> QED BY <2>5, <2>6, <2>7 DEF commit_board_config, ertm14_apply_config, update_config
<1> QED BY <1>1, RpcInitInv, RpcStepInv, PTL DEF RpcSpec, CommitsWhole
=============================================================================
