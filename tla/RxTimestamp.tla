---------------------------- MODULE RxTimestamp -----------------------------
(***************************************************************************)
(* The receive timestamp: two free-running counters sampled by the MAC,    *)
(* the second taken later from the PPS generator, and the phase measured   *)
(* by the DDMTD, put together in minic_rx_frame, ptpd_netif_recvfrom and   *)
(* ptpd_netif_linearize_rx_timestamp (dev/minic.c, lib/net.c).             *)
(*                                                                         *)
(* Time is counted in the units of the phase; a tick is Period of them and *)
(* a second Freq ticks.  nsec is in ticks here, so clock_period / 1000 is  *)
(* 1.                                                                      *)
(*                                                                         *)
(*   truth   the time at which the last frame came in                      *)
(*   hwts    what minic_rx_frame made of it, [valid, sec, nsec, ahead]     *)
(*   stamp   what recvfrom made of that, [correct, sec, nsec, phase]       *)
(*   trans   the transition point of the link, phase_transition            *)
(*   frame   "none", "queued" in a socket or "stamped" and with its reader *)
(***************************************************************************)
EXTENDS Integers

CONSTANTS Period, Freq,   \* REF_CLOCK_PERIOD_PS, REF_CLOCK_FREQ_HZ
          FMask,          \* F_COUNTER_MASK
          Times,          \* at which a frame may come in
          Delays,         \* from the frame to the reading of its second
          Jitter, Noise,  \* error of the counters and of the DDMTD
          Transitions

\* The low bits of the falling counter agree with the rising one from second to
\* second; the counters and the DDMTD differ by less than a quarter of a tick;
\* the second is read after the frame and before a quarter of a second is over.
ASSUME RxAssumption ==
  /\ Period \in Nat \ {0} /\ Period % 4 = 0 /\ Freq \in Nat \ {0}
  /\ FMask \in Nat \ {0} /\ Freq % (FMask + 1) = 0
  /\ Times \subseteq Nat /\ Delays \subseteq Nat /\ Jitter \subseteq Int /\ Noise \subseteq Int
  /\ Transitions \subseteq 0..Period - 1
  /\ \A j \in Jitter, e \in Noise : 4 * (j - e) < Period /\ 4 * (e - j) < Period
  /\ \A d \in Delays, j \in Jitter : j <= d /\ d - j <= (Freq \div 4 - 1) * Period

VARIABLES truth, hwts, stamp, trans, frame
RxVars == <<truth, hwts, stamp, trans, frame>>

\* The two counters of the endpoint: the second one counts on the falling edge,
\* half a tick later, and only its low bits are kept.  Next to an edge either
\* may be one off.
Rising(t) == (t \div Period) % Freq
Falling(t) == ((t - Period \div 2) \div Period) % (FMask + 1)

\* shw_pps_gen_get_time, in ticks.
PpsSec(t) == t \div (Period * Freq)
PpsTicks(t) == (t \div Period) % Freq

-----------------------------------------------------------------------------
\* A slip of minic_rx_frame: the second is taken as it is read.
FrameSec_read(r, read) == PpsSec(read)

FrameSec(r, read) ==
  IF r > (3 * Freq) \div 4 /\ PpsTicks(read) < Freq \div 4
  THEN PpsSec(read) - 1
  ELSE PpsSec(read)

Ahead(r, f) == LET cntr_diff == (r % (FMask + 1)) - f IN cntr_diff \in {1, -FMask}

\* Any frame may come without a valid timestamp (missing OOB, RXOOB_TS_INCORRECT).
minic_rx_frame(t, jr, jf, delay, valid) ==
  LET r == Rising(t + jr)
      f == Falling(t + jf)
  IN /\ frame' = "queued"
     /\ hwts' = [valid |-> valid, sec |-> FrameSec(r, t + delay), nsec |-> r,
                 ahead |-> Ahead(r, f)]
     /\ truth' = t
     /\ UNCHANGED <<stamp, trans>>

-----------------------------------------------------------------------------
Wrap(phase) ==
  CASE phase < 0 -> phase + Period
    [] phase >= Period -> phase - Period
    [] OTHER -> phase

PhaseR(raw) == IF raw - trans < 0 THEN raw - trans + Period ELSE raw - trans
PhaseF(raw) == Wrap(raw - trans + Period \div 2)

\* Within a quarter of a tick of the rising counter's transition.
NearTransition(phase_r) == phase_r > (3 * Period) \div 4 \/ phase_r < Period \div 4

\* The falling stamp is half a cycle later; past the end of the tick it is in
\* the next.
ByFalling(nsec, raw) ==
  LET phase == PhaseF(raw) + Period \div 2
  IN IF phase >= Period
     THEN [nsec |-> nsec + 1, phase |-> phase - Period]
     ELSE [nsec |-> nsec, phase |-> phase]

Linearized(nsec, ahead, raw) ==
  IF NearTransition(PhaseR(raw))
  THEN ByFalling(IF ahead THEN nsec - 1 ELSE nsec, raw)
  ELSE [nsec |-> nsec, phase |-> PhaseR(raw)]

ptpd_netif_linearize_rx_timestamp(h, raw, correct) ==
  LET l == Linearized(h.nsec, h.ahead, raw)
      over == l.nsec >= Freq
  IN [correct |-> correct, sec |-> IF over THEN h.sec + 1 ELSE h.sec,
      nsec |-> IF over THEN l.nsec - Freq ELSE l.nsec, phase |-> l.phase]

\* The phase tracker is right to within Noise, unless the shifter is busy.
Measured(t, e) == (t + trans + e) % Period

\* The part of ptpd_netif_recvfrom that stamps the frame.
StampFrame(raw, spll_busy) ==
  /\ frame = "queued" /\ frame' = "stamped"
  /\ stamp' = ptpd_netif_linearize_rx_timestamp(hwts, raw, hwts.valid /\ ~ spll_busy)
  /\ UNCHANGED <<truth, hwts, trans>>

NoStamp == [correct |-> FALSE, sec |-> 0, nsec |-> 0, phase |-> 0]
NoHwts == [valid |-> FALSE, sec |-> 0, nsec |-> 0, ahead |-> FALSE]

\* The reader of the socket is done with the frame (external).
Consumed ==
  /\ frame = "stamped" /\ frame' = "none"
  /\ truth' = 0 /\ hwts' = NoHwts /\ stamp' = NoStamp
  /\ UNCHANGED trans

RxInit ==
  /\ trans \in Transitions
  /\ frame = "none"
  /\ truth = 0 /\ hwts = NoHwts /\ stamp = NoStamp

RxNext ==
  \/ /\ frame = "none"
     /\ \E t \in Times, jr, jf \in Jitter, d \in Delays, v \in BOOLEAN :
          minic_rx_frame(t, jr, jf, d, v)
  \/ \E e \in Noise : StampFrame(Measured(truth, e), FALSE)
  \/ \E raw \in {0, Period \div 2} : StampFrame(raw, TRUE)
  \/ Consumed

RxSpec == RxInit /\ [][RxNext]_RxVars

-----------------------------------------------------------------------------
\* A stamp marked correct is the time of the frame, to within the error of the
\* DDMTD, whichever way the counters went next to an edge, wherever the link's
\* transition point is and however late the second was read: "makes sure there
\* are no jumps resulting from different moments of transitions in the coarse
\* counter and the phase values" (ptpd_netif_linearize_rx_timestamp).
StampIsTrue ==
  stamp.correct =>
    (stamp.sec * Freq + stamp.nsec) * Period + stamp.phase - truth \in Noise

\* What is known of the frame in the queue, and that only a frame that has just
\* been stamped carries a stamp.
RxInv ==
  /\ truth \in Int /\ trans \in Transitions
  /\ frame = "queued" =>
       \E jr \in Jitter, jf \in Jitter, d \in Delays :
         LET r == Rising(truth + jr)
         IN  /\ hwts.sec = FrameSec(r, truth + d) /\ hwts.nsec = r
             /\ hwts.ahead = Ahead(r, Falling(truth + jf))
  /\ frame # "stamped" => ~ stamp.correct
  /\ StampIsTrue
=============================================================================
