------------------------------- MODULE MCNode -------------------------------
(***************************************************************************)
(* The services of a node around the timing loops: the sockets, the phase  *)
(* trackers and the receive timestamps that use them, the IP address and   *)
(* the database of SFP parameters.                                         *)
(* They do not share state at this level of detail, so a behaviour follows *)
(* one of them, chosen at the start.                                       *)
(*                                                                         *)
(* Sockets: three for two slots, one with a queue of nine bytes, which two *)
(* frames of unequal length fill at every alignment, a second one bound to *)
(* the same frames, too small for the longer, and one that only sends.     *)
(***************************************************************************)
EXTENDS SocketQueue, PhaseTracker, RxTimestamp, IpAddress, SfpDatabase

VARIABLE unit

MCQSize == [s \in Sockets |-> CASE s = "ptp" -> 9 [] s = "probe" -> 3 [] OTHER -> 0]
MCBind == [s \in Sockets |-> IF s = "syslog" THEN "udp" ELSE "raw"]
MCFrames == [bind : {"raw"}, len : {1, 2}, id : {1}] \cup [bind : {"udp"}, len : {1}, id : {1}]
MCBuffers == [s \in Sockets |-> 2]

\* Any moment of two seconds; the second is read between one tick and almost a
\* quarter of a second later.
MCTimes == 1..2 * Period * Freq - 1
MCDelays == {Period, (Freq \div 4 - 1) * Period - 1}
MCJitter == -1..1

MCInit ==
  /\ unit \in {"sockets", "tracker", "stamps", "ip", "sfp"}
  /\ SqInit /\ PtInit /\ RxInit /\ IpInit /\ SfpInit
  /\ unit = "stamps" \/ trans = 0
  /\ unit = "tracker" \/ tr.n_avg = 2

MCNext ==
  \/ unit = "sockets" /\ SqNext /\ UNCHANGED <<unit, PtVars, RxVars, IpVars, SfpVars>>
  \/ unit = "tracker" /\ PtNext /\ UNCHANGED <<unit, SqVars, RxVars, IpVars, SfpVars>>
  \/ unit = "stamps" /\ RxNext /\ UNCHANGED <<unit, SqVars, PtVars, IpVars, SfpVars>>
  \/ unit = "ip" /\ IpNext /\ UNCHANGED <<unit, SqVars, PtVars, RxVars, SfpVars>>
  \/ unit = "sfp" /\ SfpNext /\ UNCHANGED <<unit, SqVars, PtVars, RxVars, IpVars>>

MCSpec ==
  /\ MCInit /\ [][MCNext]_<<unit, SqVars, PtVars, RxVars, IpVars, SfpVars>>
  /\ WF_IpVars(unit = "ip" /\ Turn)
  /\ SF_IpVars(unit = "ip" /\ ipv4_poll(TRUE))
  /\ WF_IpVars(unit = "ip" /\ \E a \in Addresses : Reply(a))
=============================================================================
