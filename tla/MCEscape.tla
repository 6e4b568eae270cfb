------------------------------ MODULE MCEscape ------------------------------
(***************************************************************************)
(* One packet whose payload holds the escape byte followed by the byte     *)
(* that, escaped, switches the console to binary mode, on a quiet line.    *)
(***************************************************************************)
EXTENDS SerialLink

MCPackets == <<[ptype |-> 1, payload |-> <<ESC, SWITCH_BINARY>>]>>
=============================================================================
