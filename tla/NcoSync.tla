------------------------------- MODULE NcoSync ------------------------------
(***************************************************************************)
(* How the eRTM14 keeps the oscillators of its two synthesisers (ref, lo)  *)
(* synchronous with White Rabbit time: one turn of the main loop runs the  *)
(* link check, PTP, the watcher of PTP, the control link of the host and   *)
(* the synchronisation task, which learn of each other through events      *)
(* (wrc_main.c, lib/events-ptp.c, boards/ertm14/board.c,                   *)
(* dev/fine_pulse_generator.c).  The queue of the task is the first-in     *)
(* first-out queue that EventQueue implements.                             *)
(*                                                                         *)
(*   task     the task that runs next                                      *)
(*   link     prev_state of wrc_check_link                                 *)
(*   ptp      [mode, state, servo]: what the PTP stack shows (external)    *)
(*   watch    [mode, state, servo, ok]: prev_ptp_mode, prev_ptp_state,     *)
(*            prev_servo_state, prev_timing_ok                             *)
(*   events   the queue of listener evth_dds_nco_sync                      *)
(*   nco      for each synthesiser its sync_state, sync_source, sync_count,*)
(*            the flags of its pulse generator channel, whether the        *)
(*            hardware still waits for a trigger, and (history) the pulses *)
(*            it has given since the channel was set up                    *)
(*   budget   how many more times the environment changes something        *)
(*   lost     history: a RECONFIGURED event of a synthesiser was dropped   *)
(*   unseen   history: a link-down or timing-down event was dropped, or    *)
(*            timing was lost by a change of mode, which posts no such     *)
(*            event                                                        *)
(***************************************************************************)
EXTENDS Integers, Sequences

CONSTANTS Dds,          \* the synthesisers, each also naming its RECONFIGURED event
          NcoCapacity,  \* MAX_EVENTS_PER_QUEUE
          MaxChanges,   \* bound on budget
          MaxPulses     \* counters stop here

ASSUME NcoAssumption == /\ Dds \subseteq {"ref", "lo"}
                        /\ NcoCapacity \in Nat \ {0, 1}
                        /\ MaxChanges \in Nat /\ MaxPulses \in Nat \ {0}

VARIABLES task, link, ptp, watch, events, nco, budget, lost, unseen
NcoVars == <<task, link, ptp, watch, events, nco, budget, lost, unseen>>

Modes == {"master", "slave"}
PortStates == {"master", "slave", "other"}
ServoStates == {"track", "sync"}
Sources == {"none", "trigger"}   \* PPS and RF trigger differ in the hardware only
Tasks == <<"link", "ptp", "watch", "control", "sync">>
Capped(n) == IF n > MaxPulses THEN MaxPulses ELSE n

-----------------------------------------------------------------------------
(***************************************************************************)
(* Pulse generator channels and the synchronisation state machine          *)
(***************************************************************************)
\* Setting a channel up overwrites all its flags, armed ones included.
fine_pulse_gen_setup_channel(n, enable) ==
  [n EXCEPT !.enabled = enable, !.armed = FALSE, !.count = 0, !.pulses = 0]

\* Only enabled channels are armed.
fine_pulse_gen_trigger(n) ==
  IF n.enabled THEN [n EXCEPT !.armed = TRUE, !.waiting = TRUE] ELSE n

\* A slip of fine_pulse_gen_is_triggered: the hardware is not asked.
fine_pulse_gen_is_triggered_now(n) == TRUE

\* A channel that is not armed counts as triggered.
fine_pulse_gen_is_triggered(n) == ~ n.armed \/ ~ n.waiting

\* A pulse forced by programming the synthesiser, and the wait for it.
ForcePulse(n) == [n EXCEPT !.armed = FALSE, !.waiting = FALSE]

rf_nco_sync_arm_channel(n) == IF n.source = "none" THEN n ELSE fine_pulse_gen_trigger(n)

SyncRestart(n) ==
  [fine_pulse_gen_setup_channel(n, FALSE) EXCEPT
     !.state = IF n.source = "none" THEN "READY" ELSE "WAIT_TIMING"]

SyncWaitTiming(n) == IF watch.ok THEN [n EXCEPT !.state = "CONFIGURE"] ELSE n

SyncConfigure(n) ==
  IF ~ watch.ok THEN [n EXCEPT !.state = "WAIT_TIMING"]
  ELSE [rf_nco_sync_arm_channel(fine_pulse_gen_setup_channel(n, TRUE))
          EXCEPT !.state = "WAIT_TRIGGER"]

\* WAIT_TRIGGER and READY do the same.
SyncWaitTrigger(n) ==
  LET counted == [n EXCEPT !.count = Capped(n.count + 1), !.armed = FALSE]
  IN  IF n.source = "none" THEN [n EXCEPT !.state = "READY"]
      ELSE IF ~ fine_pulse_gen_is_triggered(n) THEN n
      ELSE [rf_nco_sync_arm_channel(counted) EXCEPT !.state = "READY"]

\* The events that send the state machine of d back to its start.
Restarts(d) == {d, "link_down", "timing_down"}

\* A slip of rf_nco_sync_fsm: losing the timing does not restart it.
rf_nco_sync_fsm_deaf(d, event) ==
  LET n == IF event \in {d, "link_down"} THEN [nco[d] EXCEPT !.state = "RESTART", !.count = 0]
           ELSE nco[d]
  IN  CASE n.state = "RESTART" -> SyncRestart(n)
        [] n.state = "WAIT_TIMING" -> SyncWaitTiming(n)
        [] n.state = "CONFIGURE" -> SyncConfigure(n)
        [] OTHER -> SyncWaitTrigger(n)

\* Another: it waits for the event TIMING_UP instead of asking for the state.
rf_nco_sync_fsm_edge(d, event) ==
  LET n == IF event \in Restarts(d) THEN [nco[d] EXCEPT !.state = "RESTART", !.count = 0]
           ELSE nco[d]
  IN  CASE n.state = "RESTART" -> SyncRestart(n)
        [] n.state = "WAIT_TIMING" -> IF event = "timing_up" THEN SyncWaitTiming(n) ELSE n
        [] n.state = "CONFIGURE" -> SyncConfigure(n)
        [] OTHER -> SyncWaitTrigger(n)

rf_nco_sync_fsm(d, event) ==
  LET n == IF event \in Restarts(d) THEN [nco[d] EXCEPT !.state = "RESTART", !.count = 0]
           ELSE nco[d]
  IN  CASE n.state = "RESTART" -> SyncRestart(n)
        [] n.state = "WAIT_TIMING" -> SyncWaitTiming(n)
        [] n.state = "CONFIGURE" -> SyncConfigure(n)
        [] OTHER -> SyncWaitTrigger(n)

ertm14_dds_nco_sync_task ==
  LET evt == IF events = << >> THEN "none" ELSE Head(events)
  IN  /\ nco' = [d \in Dds |-> rf_nco_sync_fsm(d, evt)]
      /\ events' = IF events = << >> THEN events ELSE Tail(events)
      /\ UNCHANGED <<link, ptp, watch, budget, lost, unseen>>

-----------------------------------------------------------------------------
(***************************************************************************)
(* Posting events                                                          *)
(***************************************************************************)
Room == NcoCapacity - Len(events)
Dropped(evs) == {evs[i] : i \in {j \in 1..Len(evs) : j > Room}}

\* Post the events evs one after the other; silent: timing was lost by other
\* means than an event that restarts the state machines.
PostEvents(evs, silent) ==
  /\ events' = events \o SubSeq(evs, 1, IF Len(evs) > Room THEN Room ELSE Len(evs))
  /\ lost' = (lost \/ Dropped(evs) \cap Dds # {})
  /\ unseen' = (unseen \/ silent \/ Dropped(evs) \cap {"link_down", "timing_down"} # {})

-----------------------------------------------------------------------------
(***************************************************************************)
(* Link, PTP and its watcher                                               *)
(***************************************************************************)
Spend(changed) == IF changed THEN budget > 0 /\ budget' = budget - 1
                  ELSE UNCHANGED budget

wrc_check_link(state) ==
  /\ Spend(state # link)
  /\ link' = state
  /\ watch' = [watch EXCEPT !.ok = @ /\ ~ (link /\ ~ state)]
  /\ PostEvents(IF ~ link /\ state THEN <<"link_up">>
                ELSE IF link /\ ~ state THEN <<"link_down">> ELSE << >>, FALSE)
  /\ UNCHANGED <<ptp, nco>>

\* The PTP stack moves between its states by itself.
PtpRuns(state, servo) ==
  /\ Spend(state # ptp.state \/ servo # ptp.servo)
  /\ ptp' = [ptp EXCEPT !.state = state, !.servo = servo]
  /\ UNCHANGED <<link, watch, events, nco, lost, unseen>>

\* The port and the servo have just come up, or gone down, for the mode.
TimingCameUp ==
  \/ ptp.mode = "master" /\ ptp.state = "master" /\ watch.state # "master"
  \/ /\ ptp.mode = "slave" /\ ptp.state = "slave"
     /\ ptp.servo = "track" /\ watch.servo # "track"
TimingWentDown ==
  \/ ptp.mode = "master" /\ ptp.state # "master" /\ watch.state = "master"
  \/ /\ ptp.mode = "slave" /\ ptp.state = "slave"
     /\ ptp.servo # "track" /\ watch.servo = "track"
  \/ ptp.mode = "slave" /\ ptp.state # "slave" /\ watch.state = "slave"

wrc_events_ptp_poll ==
  LET changed == ptp.mode # watch.mode
  IN  /\ watch' = [mode |-> ptp.mode, state |-> ptp.state, servo |-> ptp.servo,
                   ok |-> TimingCameUp \/ (watch.ok /\ ~ changed /\ ~ TimingWentDown)]
      /\ PostEvents((IF changed THEN <<"mode_changed">> ELSE << >>)
                    \o (IF TimingCameUp THEN <<"timing_up">>
                        ELSE IF TimingWentDown THEN <<"timing_down">> ELSE << >>),
                    watch.ok /\ changed)
      /\ UNCHANGED <<link, ptp, nco, budget>>

-----------------------------------------------------------------------------
(***************************************************************************)
(* Requests of the host                                                    *)
(***************************************************************************)
\* ertm14_apply_config reprograms the synthesisers whose settings change.
CommitDds(changed) ==
  /\ Spend(TRUE)
  /\ nco' = [d \in Dds |-> IF d \in changed THEN ForcePulse(nco[d]) ELSE nco[d]]
  /\ PostEvents((IF "lo" \in changed THEN <<"lo">> ELSE << >>)
                \o (IF "ref" \in changed THEN <<"ref">> ELSE << >>), FALSE)
  /\ UNCHANGED <<link, ptp, watch>>

subscribe_nco(d, source) ==
  /\ Spend(TRUE)
  /\ nco' = [nco EXCEPT ![d].source = source]
  /\ PostEvents(<<d>>, FALSE)
  /\ UNCHANGED <<link, ptp, watch>>

\* ertm14_ptp_enable sets the mode and restarts PTP.
PtpEnable(mode) ==
  /\ Spend(TRUE)
  /\ ptp' = [mode |-> mode, state |-> "other", servo |-> ptp.servo]
  /\ UNCHANGED <<link, watch, events, nco, lost, unseen>>

NoRequest == UNCHANGED <<link, ptp, watch, events, nco, budget, lost, unseen>>

Control ==
  \/ \E changed \in SUBSET Dds \ {{}} : CommitDds(changed)
  \/ \E d \in Dds, source \in Sources : subscribe_nco(d, source)
  \/ \E mode \in Modes : PtpEnable(mode)
  \/ NoRequest

-----------------------------------------------------------------------------
(***************************************************************************)
(* The main loop, and the hardware beside it                               *)
(***************************************************************************)
NcoInit ==
  /\ task = 1
  /\ link = FALSE
  /\ ptp = [mode |-> "slave", state |-> "other", servo |-> "sync"]
  /\ watch = [mode |-> "unknown", state |-> "unknown", servo |-> "unknown", ok |-> FALSE]
  /\ events = <<"lo", "ref">>   \* wrc_board_init applies the whole configuration
  /\ nco = [d \in Dds |-> [state |-> "RESTART", source |-> "trigger", count |-> 0,
                           enabled |-> FALSE, armed |-> FALSE, waiting |-> FALSE,
                           pulses |-> 0]]
  /\ budget = MaxChanges
  /\ lost = FALSE /\ unseen = FALSE

NcoTurn ==
  /\ task' = IF task = Len(Tasks) THEN 1 ELSE task + 1
  /\ CASE Tasks[task] = "link" -> \E state \in BOOLEAN : wrc_check_link(state)
       [] Tasks[task] = "ptp" -> \E s \in PortStates, v \in ServoStates : PtpRuns(s, v)
       [] Tasks[task] = "watch" -> wrc_events_ptp_poll
       [] Tasks[task] = "control" -> Control
       [] Tasks[task] = "sync" -> ertm14_dds_nco_sync_task

\* The next PPS, or the next trigger over the RF link, reaches an armed channel.
Pulse(d) ==
  /\ nco[d].waiting
  /\ nco' = [nco EXCEPT ![d].waiting = FALSE, ![d].pulses = Capped(@ + 1)]
  /\ UNCHANGED <<task, link, ptp, watch, events, budget, lost, unseen>>

NcoNext == NcoTurn \/ \E d \in Dds : Pulse(d)

\* The main loop never stops, and triggers keep coming.
NcoFairness == WF_NcoVars(NcoTurn) /\ \A d \in Dds : WF_NcoVars(Pulse(d))

NcoSpec == NcoInit /\ [][NcoNext]_NcoVars /\ NcoFairness

-----------------------------------------------------------------------------
(***************************************************************************)
(* Properties                                                              *)
(***************************************************************************)
Synced(d) == nco[d].state \in {"WAIT_TRIGGER", "READY"} /\ nco[d].source # "none"
Pending(E) == \E i \in 1..Len(events) : events[i] \in E

\* What the host reads is earned: a subscribed synthesiser that is READY has had
\* a trigger since its channel was set up, and sync_count never exceeds the
\* pulses really given, unless its RECONFIGURED event is still queued or was
\* dropped.  A forced pulse disarms the channel, and a channel that is not armed
\* counts as triggered (fine_pulse_gen_is_triggered): only the event behind it
\* keeps that from being taken for a trigger (rf_nco_sync_fsm, apply_dds_config).
ReadyIsTriggered ==
  \A d \in Dds :
    Synced(d) /\ ~ Pending({d}) /\ ~ lost =>
      /\ nco[d].count <= nco[d].pulses
      /\ nco[d].state = "READY" => nco[d].count > 0

\* The port as last polled is in its final state and, for a slave, the servo
\* tracks.
PortTimed == \/ watch.mode = "master" /\ watch.state = "master"
             \/ watch.mode = "slave" /\ watch.state = "slave" /\ watch.servo = "track"

\* No synthesiser goes on as synchronised after timing was lost: whenever one is
\* armed or READY, timing is up, both by the flag and by the port as last polled
\* (the flag is kept by edges only and cleared from two tasks), or an event that
\* restarts it is on its way.  The exceptions are an event dropped by a full
\* queue and a change of the PTP mode, which clears prev_timing_ok but posts only
\* PTP_MODE_CHANGED (wrc_events_ptp_poll, wrc_check_link, rf_nco_sync_fsm).
SyncedHasTiming ==
  \A d \in Dds :
    Synced(d) /\ ~ lost /\ ~ unseen => (watch.ok /\ PortTimed) \/ Pending(Restarts(d))

\* Once nothing changes and timing stays up, every synthesiser becomes READY for
\* good, with a real trigger if it subscribed to one, whatever changed before
\* and in whatever order (rf_nco_sync_fsm).
SyncRecovers ==
  \A d \in Dds :
    <>[](watch.ok /\ ~ lost) =>
      <>[](nco[d].state = "READY" /\ (nco[d].source # "none" => nco[d].pulses > 0))

Nco == [state : {"RESTART", "WAIT_TIMING", "CONFIGURE", "WAIT_TRIGGER", "READY"},
        source : Sources, count : 0..MaxPulses, enabled : BOOLEAN, armed : BOOLEAN,
        waiting : BOOLEAN, pulses : 0..MaxPulses]
EventNames == Dds \cup {"lo", "ref", "link_up", "link_down", "mode_changed",
                        "timing_up", "timing_down"}

NcoTypeOK ==
  /\ task \in 1..Len(Tasks) /\ link \in BOOLEAN
  /\ ptp \in [mode : Modes, state : PortStates, servo : ServoStates]
  /\ watch \in [mode : Modes \cup {"unknown"}, state : PortStates \cup {"unknown"},
                servo : ServoStates \cup {"unknown"}, ok : BOOLEAN]
  /\ events \in Seq(EventNames) /\ Len(events) <= NcoCapacity
  /\ nco \in [Dds -> Nco]
  /\ lost \in BOOLEAN /\ unseen \in BOOLEAN

\* An armed channel has given one pulse more than are counted once its pulse has
\* come, as far as the counters go.
ArmedAndCounted(n) ==
  /\ n.enabled /\ n.armed
  /\ n.count <= n.pulses
  /\ ~ n.waiting => n.count < n.pulses \/ n.pulses = MaxPulses
  /\ n.state = "READY" => n.count > 0

\* Why the two properties hold: a synthesiser that is taken for synchronised has
\* an armed channel, unless an event for it is on its way, and prev_timing_ok is
\* up only with the port.
NcoInv ==
  /\ NcoTypeOK
  /\ \A d \in Dds : Synced(d) /\ ~ Pending({d}) /\ ~ lost => ArmedAndCounted(nco[d])
  /\ watch.ok => PortTimed
  /\ SyncedHasTiming
=============================================================================
