------------------------------- MODULE MCLoops ------------------------------
(***************************************************************************)
(* The control loops by themselves: the helper PLL, the tag arithmetic of  *)
(* the main PLL, and the main PLL with its gain schedule under abstract    *)
(* errors.  A behaviour follows one of them, chosen at the start.          *)
(*                                                                         *)
(* The helper has negative gains and a bias at the upper end of its range, *)
(* as in a WR node.  The main PLL has two stages, the second easier than   *)
(* the first as in boards/ertm14/board.c and boards/wr2rf-vme/board.c      *)
(* (30000, then 10000).                                                    *)
(***************************************************************************)
EXTENDS HelperLoop, MainTags, MainPll, TLC

VARIABLE unit

MCKp == -1
MCKi == -1
MCStages == (0 :> 4) @@ (1 :> 3)

MCInit == unit \in {"helper", "tags", "main"} /\ LoopInit /\ MtInit /\ Init

MCNext ==
  \/ unit = "helper" /\ LoopNext /\ UNCHANGED <<unit, MtVars, vars>>
  \/ unit = "tags" /\ MtNext /\ UNCHANGED <<unit, LoopVars, vars>>
  \/ unit = "main" /\ Next /\ UNCHANGED <<unit, LoopVars, MtVars>>

MCSpec ==
  /\ MCInit /\ [][MCNext]_<<unit, LoopVars, MtVars, vars>>
  /\ WF_LoopVars(unit = "helper" /\ (\/ \E tag \in 0..TagMod-1 : First(tag)
                                     \/ \E j \in -Jitter..Jitter : Track(j)))
  /\ WF_vars(unit = "main" /\ \E f_ok, p_ok \in BOOLEAN : Tag(REF, f_ok, p_ok))
  /\ WF_vars(unit = "main" /\ \E f_ok, p_ok \in BOOLEAN : Tag(OUT, f_ok, p_ok))
=============================================================================
