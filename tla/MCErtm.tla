------------------------------- MODULE MCErtm -------------------------------
(***************************************************************************)
(* The parts of an eRTM14 board: the event queue of the firmware, the      *)
(* synchronisation of its synthesisers and of its clock outputs, the RF    *)
(* power measurement, and the serial link to a host with the library that  *)
(* uses it.  They do not share state at this level of detail, so a         *)
(* behaviour follows one of them, chosen at the start.                     *)
(***************************************************************************)
EXTENDS EventQueue, NcoSync, ClkabSync, RfPower, ErtmRpc, SerialLink

VARIABLE unit

MCRequests == {[mask |-> {1, 2}, enable |-> TRUE, func |-> FALSE],
               [mask |-> {1}, enable |-> TRUE, func |-> TRUE]}
MCOutputs == {<<"A", 0>>, <<"A", 1>>, <<"B", 0>>}
MCPackets == <<[ptype |-> 1, payload |-> <<27>>], [ptype |-> 2, payload |-> <<85, 170>>],
               [ptype |-> 3, payload |-> <<>>]>>

MCInit ==
  /\ unit \in {"events", "nco", "clkab", "rf", "rpc", "serial"}
  /\ EqInit /\ NcoInit /\ ClkInit /\ RfInit /\ RpcInit /\ SerialInit

MCNext ==
  \/ unit = "events" /\ EqNext
     /\ UNCHANGED <<unit, NcoVars, ClkVars, RfVars, RpcVars, SerialVars>>
  \/ unit = "nco" /\ NcoNext
     /\ UNCHANGED <<unit, EqVars, ClkVars, RfVars, RpcVars, SerialVars>>
  \/ unit = "clkab" /\ ClkNext
     /\ UNCHANGED <<unit, EqVars, NcoVars, RfVars, RpcVars, SerialVars>>
  \/ unit = "rf" /\ RfNext
     /\ UNCHANGED <<unit, EqVars, NcoVars, ClkVars, RpcVars, SerialVars>>
  \/ unit = "rpc" /\ RpcNext
     /\ UNCHANGED <<unit, EqVars, NcoVars, ClkVars, RfVars, SerialVars>>
  \/ unit = "serial" /\ SerialNext
     /\ UNCHANGED <<unit, EqVars, NcoVars, ClkVars, RfVars, RpcVars>>

MCSpec ==
  /\ MCInit
  /\ [][MCNext]_<<unit, EqVars, NcoVars, ClkVars, RfVars, RpcVars, SerialVars>>
  /\ WF_NcoVars(unit = "nco" /\ NcoTurn)
  /\ \A d \in Dds : WF_NcoVars(unit = "nco" /\ Pulse(d))
=============================================================================
